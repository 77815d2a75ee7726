-------------------------- MODULE LogBackupProofs --------------------------
(***************************************************************************)
(* Proofs about backups and about the denial of a destination, for any     *)
(* addresses, page sizes, settings, deletions and numbers of writes and    *)
(* backups.                                                                *)
(***************************************************************************)
EXTENDS LogBackup, FiniteSetTheorems, SequenceTheorems, WellFoundedInduction, TLAPS

ItemRows == [key : Nat \ {0}, entry : BOOLEAN, ref : 0..MaxObject, at : Nat]
SnapshotRows == [key : Nat \ {0}, manifest : 1..MaxObject, endorsed : BOOLEAN]
RefRowSet == [key : Nat \ {0}, address : 1..MaxObject, snapshot : BOOLEAN, holder : Nat \ {0}]
TimedRows == [key : Nat \ {0}, at : Nat]

RowsOf(s) ==
    CASE s = Items -> ItemRows
      [] s = Snapshots -> SnapshotRows
      [] s = Refs -> RefRowSet
      [] OTHER -> TimedRows

Rows == UNION {RowsOf(s) : s \in Sections}

Logs == [head : Nat, retained_from : Int, used_bytes : Int, settings : Settings \cup {None},
         rows : [Sections -> SUBSET Rows]]

\* Rows that can be read in pages: each has a key of its own.
Keyed(rows) ==
    /\ IsFiniteSet(rows)
    /\ \A r \in rows : r.key \in Nat \ {0}
    /\ \A r, q \in rows : r.key = q.key => r = q

\* A log whose rows belong to its positions; the rowids of references are older than `now`.
WellFormed(log, now) ==
    /\ log \in Logs
    /\ \A s \in Sections : log.rows[s] \subseteq RowsOf(s) /\ Keyed(log.rows[s])
    /\ \A s \in {Items, Snapshots, Tokens} : \A r \in log.rows[s] : r.key <= log.head
    /\ \A r \in log.rows[Refs] : r.holder <= log.head /\ r.key < (now + 1) * (MaxObject + 1)

Pages == [section : Sections, rows : SUBSET Rows]

\* The source, the cut and the archive are well typed.
BackupTypeOK ==
    /\ ops \in Nat
    /\ WellFormed(src, ops)
    /\ cut \in [session : Nat, valid : BOOLEAN, head : Nat, section : 1..Finished,
                sent : Seq(Pages), objects : SUBSET Rows, tokens : SUBSET Rows]
    /\ archive \in [session : Nat, log : Logs, pages : Seq(Pages), complete : BOOLEAN]
    /\ \E now \in Nat : WellFormed(archive.log, now)

\* The rows of a section in the pages sent.
SentRows(s) ==
    UNION {cut.sent[p].rows : p \in {q \in 1..Len(cut.sent) : cut.sent[q].section = s}}

\* The rows of `all` up to some key.
Prefix(some, all) ==
    /\ some \subseteq all
    /\ \A r \in some, q \in all : q.key <= r.key => q \in some

\* The backup that the control plane calls for: the cut is still the log it began with, and
\* the sections before the current one were sent.
CutMatches ==
    Calling =>
        /\ cut.section # Finished => \A s \in Sections : CutRows(s) = archive.log.rows[s]
        /\ \A s \in Sections :
               /\ Prefix(SentRows(s), archive.log.rows[s])
               /\ s < cut.section => SentRows(s) = archive.log.rows[s]

\* The cut is of the source.
CutHolds ==
    /\ cut.valid => cut.head <= src.head
    /\ cut.valid /\ cut.section # Finished => cut.objects \subseteq src.rows[Objects]

IndBackup ==
    /\ BackupTypeOK
    /\ CutHolds
    /\ ~archive.complete =>
           src.head # 0 /\ archive.session <= cut.session /\ CutMatches
    /\ archive.complete => \A s \in Sections : Archived(s) = archive.log.rows[s]

-----------------------------------------------------------------------------
(***************************************************************************)
(* The denial of a destination.                                            *)
(***************************************************************************)
Fields == {"status", "log", "aux", "timed"}

\* A deletion finds no writer, and after it there is none.
IndDenied ==
    /\ DOMAIN dst = Fields
    /\ writer # None => DOMAIN writer = Fields
    /\ dst.status = "gone" => writer = None

\* The call that publishes `new` came before the deletion.
LEMMA PublishDenied ==
    ASSUME IndDenied, NEW new, Publish(new), DOMAIN new = Fields, dst.status # "gone"
    PROVE  IndDenied' /\ dst' = dst
BY DEF Publish, IndDenied

LEMMA RestoreStepDenied ==
    ASSUME IndDenied, RestoreStep
    PROVE  /\ IndDenied'
           /\ dst' = dst \/ (~denied /\ dst.status # "gone")
<1>1. ASSUME NEW page, NEW done, Import(page, done)
      PROVE  IndDenied' /\ dst' = dst
    <2>1. PICK new : /\ Publish(new)
                     /\ DOMAIN new = DOMAIN dst
                     /\ dst.status \in {"absent", "importing"}
        <3> DEFINE created == dst.status = "absent"
                   log == IF created THEN [NewLog EXCEPT !.settings = Plan.settings] ELSE dst.log
                   l == [log EXCEPT
                           !.head = Max({@} \cup {i.key : i \in page}),
                           !.used_bytes = @ + Cardinality(page),
                           !.retained_from = IF done THEN Plan.retained_from ELSE @,
                           !.rows = InsertItems(@, {[i EXCEPT !.at = RestoreTime] : i \in page})]
                   new == [dst EXCEPT !.status = IF done THEN "live" ELSE "importing",
                                      !.log = l,
                                      !.timed = done /\ dst.aux.begun,
                                      !.aux = IF done THEN NoAux ELSE @]
        <3>1. Publish(new) /\ dst.status \in {"absent", "importing"}
            BY <1>1, Zenon DEF Import
        <3>2. DOMAIN new = DOMAIN dst
            <4> HIDE DEF l
            <4> QED
                OBVIOUS
        <3> HIDE DEF new
        <3> QED
            BY <3>1, <3>2
    <2> QED
        BY <2>1, PublishDenied DEF IndDenied
<1>2. ASSUME NEW a, RecordObject(a)
      PROVE  IndDenied' /\ dst' = dst
    <2> DEFINE new == [dst EXCEPT !.log.used_bytes = @ + 1,
                                  !.log.rows = InsertObject(@, a, RestoreTime)]
    <2>1. Publish(new) /\ dst.status # "gone"
        BY <1>2 DEF RecordObject
    <2>2. DOMAIN new = DOMAIN dst
        OBVIOUS
    <2> HIDE DEF new
    <2> QED
        BY <2>1, <2>2, PublishDenied DEF IndDenied
<1>3. ASSUME NEW s, ImportSnapshot(s)
      PROVE  IndDenied' /\ dst' = dst
    <2> DEFINE new == [dst EXCEPT !.log.rows = InsertSnapshot(@, s, EdgesOf(s), RestoreTime)]
    <2>1. Publish(new) /\ dst.status # "gone"
        BY <1>3 DEF ImportSnapshot
    <2>2. DOMAIN new = DOMAIN dst
        OBVIOUS
    <2> HIDE DEF new
    <2> QED
        BY <2>1, <2>2, PublishDenied DEF IndDenied
<1>4. ASSUME RestoreAuxBegin
      PROVE  IndDenied' /\ dst' = dst
    <2> DEFINE new == [dst EXCEPT !.aux.begun = TRUE]
    <2>1. Publish(new) /\ dst.status # "gone"
        BY <1>4 DEF RestoreAuxBegin
    <2>2. DOMAIN new = DOMAIN dst
        OBVIOUS
    <2> HIDE DEF new
    <2> QED
        BY <2>1, <2>2, PublishDenied DEF IndDenied
<1>5. ASSUME RestoreAuxPage
      PROVE  IndDenied' /\ dst' = dst
    <2>1. \E aux, rows : Publish([dst EXCEPT !.aux = aux, !.log.rows = rows]) /\ dst.status # "gone"
        BY <1>5, Zenon DEF RestoreAuxPage
    <2>2. PICK aux, rows : Publish([dst EXCEPT !.aux = aux, !.log.rows = rows]) /\ dst.status # "gone"
        BY <2>1
    <2> DEFINE new == [dst EXCEPT !.aux = aux, !.log.rows = rows]
    <2>3. DOMAIN new = DOMAIN dst
        OBVIOUS
    <2>4. Publish(new) /\ dst.status # "gone"
        BY <2>2
    <2> HIDE DEF new
    <2> QED
        BY <2>3, <2>4, PublishDenied DEF IndDenied
<1>6. ASSUME NEW a, ImportObject(a) \/ ObjectDone(a)
      PROVE  IndDenied' /\ dst' = dst
    BY <1>6 DEF ImportObject, ObjectDone, IndDenied
<1>7. ASSUME Commit
      PROVE  IndDenied' /\ (dst' = dst \/ (~denied /\ dst.status # "gone"))
    BY <1>7 DEF Commit, IndDenied
<1>8. ASSUME Cancel
      PROVE  IndDenied' /\ dst' = dst
    BY <1>8 DEF Cancel, IndDenied
<1> QED
    BY <1>1, <1>2, <1>3, <1>4, <1>5, <1>6, <1>7, <1>8 DEF RestoreStep

LEMMA NextDenied ==
    ASSUME IndDenied, [Next]_vars
    PROVE  /\ IndDenied'
           /\ denied \/ dst.status = "gone" =>
                  dst'.log = dst.log /\ dst'.status \in {dst.status, "gone"}
<1>1. CASE RestoreStep
    BY <1>1, RestoreStepDenied
<1>2. CASE SourceStep
    <2>1. UNCHANGED targetVars
        BY <1>2 DEF SourceStep, Append1, PutObject, Gc, PutSnapshot, EndorseSnapshot, Compact,
                    SetQuota, Write
    <2> QED
        BY <2>1 DEF targetVars, IndDenied
<1>3. CASE BackupStep
    <2>1. UNCHANGED targetVars
        BY <1>3 DEF BackupStep, BackupBegin, BackupPage, BackupFinish, BackupPageAgain,
                    BackupAbort, LoseSource, Cut
    <2> QED
        BY <2>1 DEF targetVars, IndDenied
<1>4. CASE DeletionStep
    <2>1. CASE UNCHANGED targetVars
        BY <2>1 DEF targetVars, IndDenied
    <2>2. CASE DeleteLog
        BY <2>2 DEF DeleteLog, IndDenied, Fields
    <2> QED
        BY <1>4, <2>1, <2>2 DEF DeletionStep, RecordCollectionDeletion, BeginCollectionClosing,
                                DestinationClose
<1>5. CASE UNCHANGED vars
    BY <1>5 DEF vars, targetVars, IndDenied
<1> QED
    BY <1>1, <1>2, <1>3, <1>4, <1>5 DEF Next

\* Once the destination is denied or the collection deleted, nothing more is published and
\* it never goes live (DoTxn::commit, destination_denial.rs, delete_log).
THEOREM DenialAlwaysFinal == Spec => DenialIsFinal
<1>1. Init => IndDenied
    BY DEF Init, IndDenied, Absent, Fields
<1>2. IndDenied /\ [Next]_vars =>
          [denied \/ dst.status = "gone" =>
               /\ dst'.log = dst.log
               /\ dst'.status \in {dst.status, "gone"}]_vars
    BY NextDenied
<1> QED
    BY <1>1, <1>2, NextDenied, PTL DEF Spec, DenialIsFinal

-----------------------------------------------------------------------------
(***************************************************************************)
(* Keys and pages.                                                         *)
(***************************************************************************)
LEMMA LeastNat ==
    ASSUME NEW T, T \subseteq Nat, T # {}
    PROVE  \E x \in T : \A y \in T : x <= y
<1>1. \E x \in T : \A y \in T : ~(<<y, x>> \in OpToRel(<, Nat))
    BY NatLessThanWellFounded, WFMin
<1>2. PICK x \in T : \A y \in T : ~(<<y, x>> \in OpToRel(<, Nat))
    BY <1>1
<1>3. ASSUME NEW y \in T PROVE x <= y
    <2>1. ~(y < x)
        BY <1>2 DEF OpToRel
    <2> QED
        BY <2>1
<1> QED
    BY <1>3

LEMMA LeastKey ==
    ASSUME NEW C, Keyed(C), C # {}
    PROVE  \E r \in C : \A q \in C : r.key <= q.key
<1> DEFINE K == {r.key : r \in C}
<1>1. K \subseteq Nat /\ K # {}
    BY DEF Keyed
<1>2. PICK k \in K : \A m \in K : k <= m
    BY <1>1, LeastNat
<1>3. PICK r \in C : k = r.key
    BY <1>2
<1>4. \A q \in C : q.key \in K
    OBVIOUS
<1> QED
    BY <1>2, <1>3, <1>4

LEMMA GreatestKey ==
    ASSUME NEW C, Keyed(C), C # {}
    PROVE  \E r \in C : \A q \in C : q.key <= r.key
<1> DEFINE Above(r) == {q \in C : q.key > r.key}
           counts == {Cardinality(Above(r)) : r \in C}
<1>1. \A r \in C : IsFiniteSet(Above(r)) /\ Cardinality(Above(r)) \in Nat
    <2> TAKE r \in C
    <2>1. Above(r) \in SUBSET C
        OBVIOUS
    <2>2. IsFiniteSet(Above(r))
        BY <2>1, FS_Subset DEF Keyed
    <2> QED
        BY <2>2, FS_CardinalityType
<1>2. counts \subseteq Nat /\ counts # {}
    BY <1>1
<1>3. PICK n \in counts : \A m \in counts : n <= m
    BY <1>2, LeastNat
<1>4. PICK r \in C : Cardinality(Above(r)) = n
    BY <1>3
<1>5. ASSUME NEW q \in C PROVE q.key <= r.key
    <2> SUFFICES ASSUME q.key > r.key PROVE FALSE
        BY DEF Keyed
    <2>1. Above(q) \in SUBSET Above(r)
        BY DEF Keyed
    <2>2. q \in Above(r) /\ q \notin Above(q)
        BY DEF Keyed
    <2>3. /\ Cardinality(Above(q)) <= Cardinality(Above(r))
          /\ Cardinality(Above(r)) = Cardinality(Above(q)) => Above(r) = Above(q)
        BY <1>1, <2>1, FS_Subset
    <2>4. n <= Cardinality(Above(q))
        BY <1>3
    <2>5. Cardinality(Above(q)) = Cardinality(Above(r))
        <3> HIDE DEF Above
        <3> QED
            BY <1>1, <1>4, <2>3, <2>4
    <2> QED
        BY <2>2, <2>3, <2>5
<1> QED
    BY <1>5

\* The rows after the last key sent are the ones that were not sent.
LEMMA AfterPrefix ==
    ASSUME NEW C, Keyed(C), NEW S, Prefix(S, C), NEW r \in C
    PROVE  r.key > Max({0} \cup {q.key : q \in S}) <=> r \notin S
<1> DEFINE K == {0} \cup {q.key : q \in S}
<1>1. S \subseteq C /\ \A q \in C : q.key \in Nat \ {0}
    BY DEF Prefix, Keyed
<1>2. Max(K) \in K /\ \A k \in K : Max(K) >= k
    <2>1. \E m \in K : \A k \in K : m >= k
        <3>1. CASE S = {}
            BY <3>1
        <3>2. CASE S # {}
            <4>1. Keyed(S)
                BY <1>1, FS_Subset DEF Keyed
            <4>2. PICK g \in S : \A q \in S : q.key <= g.key
                BY <3>2, <4>1, GreatestKey
            <4>3. g.key \in K /\ \A k \in K : g.key >= k
                BY <1>1, <4>2
            <4> QED
                BY <4>3
        <3> QED
            BY <3>1, <3>2
    <2> HIDE DEF K
    <2> QED
        BY <2>1 DEF Max
<1>3. r \in S => ~(r.key > Max(K))
    BY <1>1, <1>2
<1>4. r \notin S => r.key > Max(K)
    <2> SUFFICES ASSUME r \notin S PROVE r.key > Max(K)
        OBVIOUS
    <2>1. CASE Max(K) = 0
        BY <1>1, <2>1
    <2>2. CASE Max(K) # 0
        <3>1. PICK q \in S : Max(K) = q.key
            BY <1>2, <2>2
        <3>2. ~(r.key <= q.key)
            BY <3>1 DEF Prefix
        <3> QED
            BY <1>1, <3>1, <3>2
    <2> QED
        BY <2>1, <2>2
<1> QED
    BY <1>3, <1>4

FirstOf(rest) == {r \in rest : Cardinality({q \in rest : q.key <= r.key}) <= PageRows}

\* A page extends what was sent, and an empty one says that everything was.
LEMMA PageExtends ==
    ASSUME NEW C, Keyed(C), NEW S, Prefix(S, C)
    PROVE  /\ FirstOf(C \ S) \subseteq C
           /\ Prefix(S \cup FirstOf(C \ S), C)
           /\ FirstOf(C \ S) = {} => S = C
<1> DEFINE rest == C \ S
           Upto(r) == {q \in rest : q.key <= r.key}
           P == FirstOf(rest)
<1>1. S \subseteq C /\ \A q \in C : q.key \in Nat
    BY DEF Prefix, Keyed
<1>2. IsFiniteSet(rest)
    BY FS_Subset DEF Keyed
<1>3. \A r : IsFiniteSet(Upto(r)) /\ Cardinality(Upto(r)) \in Nat
    <2> TAKE r
    <2>1. Upto(r) \in SUBSET rest
        OBVIOUS
    <2>2. IsFiniteSet(Upto(r))
        BY <1>2, <2>1, FS_Subset
    <2> QED
        BY <2>2, FS_CardinalityType
<1>4. PageRows \in Nat \ {0}
    BY BackupAssumption
<1>5. P \subseteq rest /\ \A r \in rest : r \in P <=> Cardinality(Upto(r)) <= PageRows
    BY DEF FirstOf
<1> HIDE DEF P
<1>6. ASSUME NEW r \in S \cup P, NEW q \in C, q.key <= r.key
      PROVE  q \in S \cup P
    <2>1. CASE r \in S \/ q \in S
        BY <1>6, <2>1 DEF Prefix
    <2>2. CASE r \in P /\ q \notin S
        <3>1. q \in rest /\ r \in rest
            BY <1>5, <2>2
        <3>2. Upto(q) \in SUBSET Upto(r)
            BY <1>1, <1>6, <3>1
        <3>3. Cardinality(Upto(q)) <= Cardinality(Upto(r))
            BY <1>3, <3>2, FS_Subset
        <3>4. Cardinality(Upto(r)) <= PageRows
            BY <1>5, <2>2, <3>1
        <3>5. Cardinality(Upto(q)) <= PageRows
            <4> HIDE DEF Upto
            <4> QED
                BY <1>3, <1>4, <3>3, <3>4
        <3> QED
            BY <1>5, <3>1, <3>5
    <2> QED
        BY <2>1, <2>2
<1>7. ASSUME P = {} PROVE S = C
    <2> SUFFICES ASSUME rest # {} PROVE FALSE
        BY <1>1
    <2>1. Keyed(rest)
        BY <1>2 DEF Keyed
    <2>2. PICK r \in rest : \A q \in rest : r.key <= q.key
        BY <2>1, LeastKey
    <2>3. Upto(r) = {r}
        BY <2>1, <2>2 DEF Keyed
    <2>4. Cardinality(Upto(r)) = 1
        BY <2>3, FS_Singleton
    <2>5. r \in P
        BY <1>4, <1>5, <2>4
    <2> QED
        BY <1>7, <2>5
<1> QED
    BY <1>1, <1>5, <1>6, <1>7 DEF Prefix, P

-----------------------------------------------------------------------------
(***************************************************************************)
(* Writes to the source.                                                   *)
(***************************************************************************)
LEMMA SectionCases ==
    /\ \A s \in Sections : s \in {Items, Snapshots, Refs, Objects, Tokens}
    /\ {Items, Snapshots, Refs, Objects, Tokens} \subseteq Sections
    /\ RowsOf(Items) = ItemRows
    /\ RowsOf(Snapshots) = SnapshotRows
    /\ RowsOf(Refs) = RefRowSet
    /\ RowsOf(Objects) = TimedRows
    /\ RowsOf(Tokens) = TimedRows
BY DEF Sections, Items, Snapshots, Refs, Objects, Tokens, RowsOf

LEMMA KeyedSubset ==
    ASSUME NEW C, Keyed(C), NEW D \in SUBSET C
    PROVE  Keyed(D)
BY FS_Subset DEF Keyed

LEMMA KeyedAdd ==
    ASSUME NEW C, Keyed(C), NEW x, x.key \in Nat \ {0}, \A r \in C : r.key # x.key
    PROVE  Keyed(C \cup {x})
<1>1. IsFiniteSet(C \cup {x})
    BY FS_AddElement DEF Keyed
<1> QED
    BY <1>1 DEF Keyed

\* A log with this head and these tables.
LogsWith(h, R) ==
    [head : {h}, retained_from : Int, used_bytes : Int, settings : Settings \cup {None}, rows : {R}]

\* The tables stay tables when each section is.
LEMMA WellFormedLog ==
    ASSUME NEW now \in Nat, NEW h \in Nat, NEW R, NEW l \in LogsWith(h, R),
           R = [s \in Sections |-> R[s]],
           \A s \in Sections : R[s] \subseteq RowsOf(s) /\ Keyed(R[s]),
           \A s \in {Items, Snapshots, Tokens} : \A r \in R[s] : r.key <= h,
           \A r \in R[Refs] : r.holder <= h /\ r.key < (now + 1) * (MaxObject + 1)
    PROVE  WellFormed(l, now)
<1>1. \A s \in Sections : R[s] \subseteq Rows
    BY DEF Rows
<1>2. R \in [Sections -> SUBSET Rows]
    BY <1>1
<1>3. l \in Logs
    BY <1>2 DEF Logs, LogsWith
<1>4. l.rows = R /\ l.head = h
    BY DEF LogsWith
<1> QED
    BY <1>3, <1>4 DEF WellFormed

\* The parts of a log.
LEMMA LogParts ==
    ASSUME NEW l, NEW now, WellFormed(l, now)
    PROVE  /\ l \in Logs
           /\ l.head \in Nat /\ l.retained_from \in Int /\ l.used_bytes \in Int
           /\ l.settings \in Settings \cup {None}
           /\ DOMAIN l.rows = Sections /\ l.rows = [s \in Sections |-> l.rows[s]]
BY DEF WellFormed, Logs

LEMMA RowidsGrow ==
    ASSUME NEW now \in Nat, NEW a \in 1..MaxObject
    PROVE  /\ (now + 1) * (MaxObject + 1) + a \in Nat \ {0}
           /\ (now + 1) * (MaxObject + 1) + a < (now + 1 + 1) * (MaxObject + 1)
           /\ (now + 1) * (MaxObject + 1) < (now + 1) * (MaxObject + 1) + a
           /\ (now + 1) * (MaxObject + 1) < (now + 1 + 1) * (MaxObject + 1)
<1> DEFINE m == MaxObject + 1
           n == now + 1
<1>1. m \in Nat /\ a \in Nat \ {0} /\ a < m /\ n \in Nat
    BY BackupAssumption
<1>2. (n + 1) * m = n * m + m /\ n * m \in Nat
    <2> HIDE DEF m, n
    <2> QED
        BY <1>1
<1>3. \A x \in Nat : x + a \in Nat \ {0} /\ x + a < x + m /\ x < x + a /\ x < x + m
    BY <1>1
<1> HIDE DEF m, n
<1>4. n * m + a \in Nat \ {0} /\ n * m + a < n * m + m /\ n * m < n * m + a /\ n * m < n * m + m
    BY <1>2, <1>3
<1> QED
    BY <1>2, <1>4 DEF m, n

\* The references of one holder to one object, or to none.
LEMMA RefRowsOne ==
    ASSUME NEW a, NEW b, NEW h, NEW at
    PROVE  /\ RefRows({}, b, h, at) = {}
           /\ RefRows({a}, b, h, at) =
                  {[key |-> at * (MaxObject + 1) + a, address |-> a, snapshot |-> b, holder |-> h]}
BY DEF RefRows

\* References with one new holder, at the time `now`.
RefsGood(C, D, h, now) ==
    /\ C \subseteq D
    /\ D \subseteq RefRowSet
    /\ Keyed(D)
    /\ \A r \in D : r.holder <= h /\ r.key < (now + 1) * (MaxObject + 1)
    /\ \A r \in D \ C : r.holder = h

\* Adding the references of a new holder.
LEMMA RefsAdd ==
    ASSUME NEW C \in SUBSET RefRowSet, Keyed(C), NEW now \in Nat, NEW h \in Nat \ {0}, NEW g \in Nat,
           g <= h, NEW b \in BOOLEAN, NEW A, A = {} \/ \E a \in 1..MaxObject : A = {a},
           \A r \in C : r.holder <= g /\ r.key < (now + 1) * (MaxObject + 1)
    PROVE  RefsGood(C, C \cup RefRows(A, b, h, now + 1), h, now + 1)
<1> DEFINE m == (now + 1) * (MaxObject + 1)
           w == (now + 1 + 1) * (MaxObject + 1)
<1>1. m \in Nat /\ w \in Nat
    BY BackupAssumption
<1>2. \A r \in C : r.key \in Nat /\ r.holder \in Nat
    BY DEF RefRowSet
<1>3. CASE A = {}
    <2>1. C \cup RefRows(A, b, h, now + 1) = C
        BY <1>3, RefRowsOne
    <2>2. m < w
        BY RowidsGrow, BackupAssumption
    <2> HIDE DEF m, w
    <2>3. \A r \in C : r.holder <= h /\ r.key < w
        BY <1>1, <1>2, <2>2 DEF m
    <2> QED
        BY <2>1, <2>3 DEF w, RefsGood
<1>4. ASSUME NEW a \in 1..MaxObject, A = {a}
      PROVE  RefsGood(C, C \cup RefRows(A, b, h, now + 1), h, now + 1)
    <2> DEFINE x == [key |-> m + a, address |-> a, snapshot |-> b, holder |-> h]
    <2>1. RefRows(A, b, h, now + 1) = {x}
        BY <1>4, Zenon DEF RefRows
    <2>2. m + a \in Nat \ {0} /\ m + a < w /\ m < m + a /\ m < w
        BY RowidsGrow
    <2> HIDE DEF m, w
    <2>3. x \in RefRowSet /\ x.key = m + a /\ x.holder = h
        BY <2>2 DEF RefRowSet
    <2> HIDE DEF x
    <2>4. \A r \in C : r.key # x.key /\ r.key < w /\ r.holder <= h
        BY <1>1, <1>2, <2>2, <2>3 DEF m
    <2>5. Keyed(C \cup {x})
        BY <2>2, <2>3, <2>4, KeyedAdd
    <2>6. x.key < w /\ x.holder <= h
        BY <2>2, <2>3
    <2>7. RefsGood(C, C \cup {x}, h, now + 1)
        BY <2>3, <2>4, <2>5, <2>6 DEF w, RefsGood
    <2> QED
        BY <2>1, <2>7
<1> QED
    BY <1>3, <1>4

\* The rows of a log are fewer.
LEMMA FewerRows ==
    ASSUME NEW l, NEW now \in Nat, WellFormed(l, now),
           NEW R, R = [s \in Sections |-> R[s]],
           \A s \in Sections : R[s] \subseteq l.rows[s],
           NEW new \in LogsWith(l.head, R)
    PROVE  WellFormed(new, now)
<1>1. l.head \in Nat
    BY LogParts
<1>2. \A s \in Sections : R[s] \subseteq RowsOf(s) /\ Keyed(R[s])
    BY KeyedSubset DEF WellFormed
<1>3. \A s \in {Items, Snapshots, Tokens} : \A r \in R[s] : r.key <= l.head
    BY SectionCases DEF WellFormed
<1>4. \A r \in R[Refs] : r.holder <= l.head /\ r.key < (now + 1) * (MaxObject + 1)
    BY SectionCases DEF WellFormed
<1> QED
    BY <1>1, <1>2, <1>3, <1>4, WellFormedLog

LEMMA WellFormedLater ==
    ASSUME NEW l, NEW now \in Nat, WellFormed(l, now)
    PROVE  WellFormed(l, now + 1)
<1> DEFINE m == (now + 1) * (MaxObject + 1)
           w == (now + 1 + 1) * (MaxObject + 1)
<1>1. m \in Nat /\ w \in Nat
    BY BackupAssumption
<1>2. m < w
    BY RowidsGrow, BackupAssumption
<1>3. \A r \in l.rows[Refs] : r.key \in Nat /\ r.key < m
    <2>1. l.rows[Refs] \subseteq RefRowSet
        BY SectionCases, Zenon DEF WellFormed
    <2>2. \A r \in l.rows[Refs] : r.key < m
        BY DEF WellFormed
    <2> QED
        BY <2>1, <2>2 DEF RefRowSet
<1>4. \A r \in l.rows[Refs] : r.key < w
    <2> HIDE DEF m, w
    <2> QED
        BY <1>1, <1>2, <1>3
<1> QED
    BY <1>4 DEF WellFormed

\* What a write adds lies after every cut.
Grown(l) ==
    \A s \in Sections :
        /\ src.rows[s] \subseteq l.rows[s]
        /\ \A r \in l.rows[s] \ src.rows[s] :
               /\ s \in {Items, Snapshots} => r.key > src.head
               /\ s = Refs => r.holder > src.head

\* What any write does to a source that is backed up.
Wrote ==
    /\ ops' \in Nat
    /\ WellFormed(src', ops')
    /\ src'.head >= src.head
    /\ ~archive.complete
    /\ archive' = archive
    /\ cut' = cut \/ cut' = [cut EXCEPT !.valid = FALSE]
    /\ cut.valid /\ cut.section # Finished => Grown(src')

LEMMA WriteWrote ==
    ASSUME NEW kind, NEW l, Write(kind, l), ops \in Nat, WellFormed(l, ops + 1),
           l.head >= src.head,
           kind \notin {"gc", "snapshot", "compact", "settings"} => Grown(l)
    PROVE  Wrote
<1>1. /\ ops' = ops + 1 /\ src' = l /\ ~archive.complete /\ archive' = archive
      /\ cut.valid /\ cut.section # Finished => kind \notin {"gc", "snapshot", "compact", "settings"}
      /\ cut' = cut \/ cut' = [cut EXCEPT !.valid = FALSE]
    BY DEF Write, BackupGuard
<1> QED
    BY <1>1 DEF Wrote

\* The tables of a log at some time.
LEMMA Tables ==
    ASSUME NEW l, NEW now, WellFormed(l, now)
    PROVE  /\ l.rows[Items] \subseteq ItemRows /\ l.rows[Snapshots] \subseteq SnapshotRows
           /\ l.rows[Refs] \subseteq RefRowSet
           /\ l.rows[Objects] \subseteq TimedRows /\ l.rows[Tokens] \subseteq TimedRows
           /\ \A s \in Sections : Keyed(l.rows[s])
           /\ \A s \in {Items, Snapshots, Tokens} : \A r \in l.rows[s] : r.key <= l.head
           /\ \A r \in l.rows[Refs] : r.holder <= l.head /\ r.key < (now + 1) * (MaxObject + 1)
<1>1. \A s \in Sections : l.rows[s] \subseteq RowsOf(s)
    BY DEF WellFormed
<1>2. /\ l.rows[Items] \subseteq RowsOf(Items) /\ l.rows[Snapshots] \subseteq RowsOf(Snapshots)
      /\ l.rows[Refs] \subseteq RowsOf(Refs) /\ l.rows[Objects] \subseteq RowsOf(Objects)
      /\ l.rows[Tokens] \subseteq RowsOf(Tokens)
    BY <1>1, SectionCases, Zenon
<1>3. \A s \in Sections : Keyed(l.rows[s])
    BY DEF WellFormed
<1>4. /\ \A s \in {Items, Snapshots, Tokens} : \A r \in l.rows[s] : r.key <= l.head
      /\ \A r \in l.rows[Refs] : r.holder <= l.head /\ r.key < (now + 1) * (MaxObject + 1)
    BY DEF WellFormed
<1> QED
    BY <1>2, <1>3, <1>4, SectionCases, Zenon

\* The same, section by section, and the other way round.
LEMMA FromTables ==
    ASSUME NEW now \in Nat, NEW h \in Nat, NEW R, NEW l \in LogsWith(h, R),
           R = [s \in Sections |-> R[s]],
           R[Items] \subseteq ItemRows, R[Snapshots] \subseteq SnapshotRows,
           R[Refs] \subseteq RefRowSet, R[Objects] \subseteq TimedRows, R[Tokens] \subseteq TimedRows,
           Keyed(R[Items]), Keyed(R[Snapshots]), Keyed(R[Refs]), Keyed(R[Objects]), Keyed(R[Tokens]),
           \A r \in R[Items] : r.key <= h,
           \A r \in R[Snapshots] : r.key <= h,
           \A r \in R[Tokens] : r.key <= h,
           \A r \in R[Refs] : r.holder <= h /\ r.key < (now + 1) * (MaxObject + 1)
    PROVE  WellFormed(l, now)
<1>1. \A s \in Sections : R[s] \subseteq RowsOf(s) /\ Keyed(R[s])
    <2> TAKE s \in Sections
    <2>1. s \in {Items, Snapshots, Refs, Objects, Tokens}
        BY SectionCases
    <2> QED
        BY <2>1, SectionCases, Zenon
<1>2. \A s \in {Items, Snapshots, Tokens} : \A r \in R[s] : r.key <= h
    BY Zenon
<1> QED
    BY <1>1, <1>2, WellFormedLog

LEMMA RowsExcept ==
    ASSUME NEW f, f = [s \in Sections |-> f[s]],
           NEW a \in Sections, NEW A, NEW b \in Sections, NEW B, NEW c \in Sections, NEW C
    PROVE  /\ [f EXCEPT ![a] = A, ![b] = B, ![c] = C] =
                  [s \in Sections |-> IF s = c THEN C ELSE IF s = b THEN B ELSE IF s = a THEN A ELSE f[s]]
           /\ [f EXCEPT ![a] = A, ![b] = B] =
                  [s \in Sections |-> IF s = b THEN B ELSE IF s = a THEN A ELSE f[s]]
           /\ [f EXCEPT ![a] = A] = [s \in Sections |-> IF s = a THEN A ELSE f[s]]
OBVIOUS

LEMMA Distinct ==
    /\ Items \notin {Snapshots, Refs, Objects, Tokens}
    /\ Snapshots \notin {Items, Refs, Objects, Tokens}
    /\ Refs \notin {Items, Snapshots, Objects, Tokens}
    /\ Objects \notin {Items, Snapshots, Refs, Tokens}
    /\ Tokens \notin {Items, Snapshots, Refs, Objects}
BY DEF Items, Snapshots, Refs, Objects, Tokens

\* What one item adds to the tables.
LEMMA InsertOne ==
    ASSUME NEW R, NEW i
    PROVE  InsertItem(R, i) =
               [R EXCEPT ![Items] = @ \cup {i},
                         ![Refs] = @ \cup RefRows({i.ref} \ {0}, FALSE, i.key, i.at),
                         ![Tokens] = IF i.entry THEN @ \cup {[key |-> i.key, at |-> i.at]} ELSE @]
<1> DEFINE new == RefRows({i.ref} \ {0}, FALSE, i.key, i.at)
           t == [key |-> i.key, at |-> i.at]
           refs == UNION {RefRows({j.ref} \ {0}, FALSE, j.key, j.at) : j \in {i}}
           taken == {[key |-> j.key, at |-> j.at] : j \in {k \in {i} : k.entry}}
<1>1. refs = new
    OBVIOUS
<1>2. \A T : T \cup taken = IF i.entry THEN T \cup {t} ELSE T
    <2>1. CASE i.entry
        <3>1. taken = {t}
            BY <2>1
        <3> HIDE DEF taken, t
        <3> QED
            BY <2>1, <3>1
    <2>2. CASE ~i.entry
        <3>1. taken = {}
            BY <2>2
        <3> HIDE DEF taken, t
        <3> QED
            BY <2>2, <3>1
    <2> QED
        BY <2>1, <2>2
<1>3. InsertItem(R, i) = [R EXCEPT ![Items] = @ \cup {i}, ![Refs] = @ \cup refs,
                                   ![Tokens] = @ \cup taken]
    BY DEF InsertItem, InsertItems
<1> HIDE DEF new, t, refs, taken
<1>4. InsertItem(R, i) = [R EXCEPT ![Items] = @ \cup {i}, ![Refs] = @ \cup new,
                                   ![Tokens] = IF i.entry THEN @ \cup {t} ELSE @]
    BY <1>1, <1>2, <1>3
<1> QED
    BY <1>4 DEF new, t

LEMMA Append1Wrote ==
    ASSUME BackupTypeOK, NEW entry \in BOOLEAN, NEW ref \in 0..MaxObject, Append1(entry, ref)
    PROVE  Wrote
<1> DEFINE h == src.head + 1
           i == [key |-> h, entry |-> entry, ref |-> ref, at |-> ops + 1]
           R == InsertItem(src.rows, i)
           new == [src EXCEPT !.head = h, !.used_bytes = src.used_bytes + 1, !.rows = R]
           kind == IF entry THEN "entry" ELSE "control"
           t == [key |-> h, at |-> ops + 1]
<1>1. Write(kind, new) /\ ops \in Nat /\ WellFormed(src, ops)
    BY DEF Append1, BackupTypeOK
<1>2. /\ src \in Logs /\ src.head \in Nat /\ src.retained_from \in Int
      /\ src.used_bytes \in Int /\ src.settings \in Settings \cup {None}
      /\ DOMAIN src.rows = Sections /\ src.rows = [s \in Sections |-> src.rows[s]]
      /\ new \in LogsWith(h, R)
    <2>1. /\ src \in Logs /\ src.head \in Nat /\ src.retained_from \in Int
          /\ src.used_bytes \in Int /\ src.settings \in Settings \cup {None}
          /\ DOMAIN src.rows = Sections /\ src.rows = [s \in Sections |-> src.rows[s]]
        BY <1>1, LogParts
    <2> HIDE DEF R, h
    <2>2. src.used_bytes + 1 \in Int
        BY <2>1
    <2>3. new \in LogsWith(h, R)
        BY <2>1, <2>2 DEF Logs, LogsWith
    <2> QED
        BY <2>1, <2>3
<1>3. /\ R = [s \in Sections |-> R[s]]
      /\ R[Items] = src.rows[Items] \cup {i}
      /\ R[Snapshots] = src.rows[Snapshots]
      /\ R[Refs] = src.rows[Refs] \cup RefRows({ref} \ {0}, FALSE, h, ops + 1)
      /\ R[Objects] = src.rows[Objects]
      /\ R[Tokens] = IF entry THEN src.rows[Tokens] \cup {t} ELSE src.rows[Tokens]
    <2> DEFINE r1 == src.rows[Items] \cup {i}
               r3 == src.rows[Refs] \cup RefRows({ref} \ {0}, FALSE, h, ops + 1)
               r5 == IF entry THEN src.rows[Tokens] \cup {t} ELSE src.rows[Tokens]
    <2>1. i.ref = ref /\ i.key = h /\ i.at = ops + 1 /\ i.entry = entry
        OBVIOUS
    <2>2. R = [src.rows EXCEPT ![Items] = r1, ![Refs] = r3, ![Tokens] = r5]
        BY <2>1, InsertOne
    <2> HIDE DEF r1, r3, r5, R
    <2>3. R = [s \in Sections |-> IF s = Tokens THEN r5 ELSE IF s = Refs THEN r3
                                  ELSE IF s = Items THEN r1 ELSE src.rows[s]]
        BY <1>2, <2>2, RowsExcept, SectionCases
    <2>4. /\ R = [s \in Sections |-> R[s]]
          /\ R[Items] = r1 /\ R[Snapshots] = src.rows[Snapshots] /\ R[Refs] = r3
          /\ R[Objects] = src.rows[Objects] /\ R[Tokens] = r5
        BY <2>3, Distinct, SectionCases
    <2> QED
        BY <2>4 DEF r1, r3, r5
<1>4. i \in ItemRows /\ i.key = h /\ t \in TimedRows /\ t.key = h /\ h \in Nat \ {0}
      /\ h > src.head /\ h >= src.head
    BY <1>1, <1>2 DEF ItemRows, TimedRows
<1>5. RefsGood(src.rows[Refs], R[Refs], h, ops + 1)
    <2>1. {ref} \ {0} = {} \/ \E a \in 1..MaxObject : {ref} \ {0} = {a}
        <3>1. CASE ref = 0
            BY <3>1
        <3>2. CASE ref # 0
            <4>1. ref \in 1..MaxObject /\ {ref} \ {0} = {ref}
                BY <3>2, BackupAssumption
            <4> QED
                BY <4>1
        <3> QED
            BY <3>1, <3>2
    <2>2. src.rows[Refs] \in SUBSET RefRowSet /\ Keyed(src.rows[Refs])
          /\ \A r \in src.rows[Refs] : r.holder <= src.head /\ r.key < (ops + 1) * (MaxObject + 1)
        BY <1>1, Tables, SectionCases
    <2> DEFINE A == {ref} \ {0}
               C == src.rows[Refs]
    <2>3. A = {} \/ \E a \in 1..MaxObject : A = {a}
        BY <2>1
    <2>4. C \in SUBSET RefRowSet /\ Keyed(C)
          /\ \A r \in C : r.holder <= src.head /\ r.key < (ops + 1) * (MaxObject + 1)
        BY <2>2
    <2>5. h \in Nat \ {0} /\ src.head \in Nat /\ src.head <= h /\ ops \in Nat /\ FALSE \in BOOLEAN
        BY <1>1, <1>2, <1>4
    <2>6. R[Refs] = C \cup RefRows(A, FALSE, h, ops + 1)
        BY <1>3
    <2> HIDE DEF h, R, A, C
    <2>7. RefsGood(C, C \cup RefRows(A, FALSE, h, ops + 1), h, ops + 1)
        BY <2>3, <2>4, <2>5, RefsAdd
    <2> QED
        BY <2>6, <2>7 DEF C
<1> HIDE DEF h, i, t, R, new, kind
<1>6. /\ R[Items] \subseteq ItemRows /\ Keyed(R[Items])
      /\ \A r \in R[Items] : r.key <= h
    <2>1. /\ src.rows[Items] \subseteq ItemRows /\ Keyed(src.rows[Items])
          /\ \A r \in src.rows[Items] : r.key <= src.head
        BY <1>1, Tables, SectionCases
    <2>2. \A r \in src.rows[Items] : r.key \in Nat /\ r.key # h /\ r.key <= h
        BY <1>2, <1>4, <2>1 DEF Keyed
    <2> QED
        BY <1>3, <1>4, <2>1, <2>2, KeyedAdd
<1>7. /\ R[Tokens] \subseteq TimedRows /\ Keyed(R[Tokens])
      /\ \A r \in R[Tokens] : r.key <= h
    <2>1. /\ src.rows[Tokens] \subseteq TimedRows /\ Keyed(src.rows[Tokens])
          /\ \A r \in src.rows[Tokens] : r.key <= src.head
        BY <1>1, Tables, SectionCases
    <2>2. \A r \in src.rows[Tokens] : r.key \in Nat /\ r.key # h /\ r.key <= h
        BY <1>2, <1>4, <2>1 DEF Keyed
    <2>3. Keyed(src.rows[Tokens] \cup {t})
        BY <1>4, <2>1, <2>2, KeyedAdd
    <2> QED
        BY <1>3, <1>4, <2>1, <2>2, <2>3
<1>8. /\ R[Snapshots] \subseteq SnapshotRows /\ Keyed(R[Snapshots])
      /\ R[Objects] \subseteq TimedRows /\ Keyed(R[Objects])
      /\ \A r \in R[Snapshots] : r.key <= h
    <2>1. /\ src.rows[Snapshots] \subseteq SnapshotRows /\ Keyed(src.rows[Snapshots])
          /\ src.rows[Objects] \subseteq TimedRows /\ Keyed(src.rows[Objects])
          /\ \A r \in src.rows[Snapshots] : r.key <= src.head
        BY <1>1, Tables, SectionCases
    <2>2. \A r \in src.rows[Snapshots] : r.key \in Nat /\ r.key <= h
        BY <1>2, <1>4, <2>1 DEF Keyed
    <2> QED
        BY <1>3, <2>1, <2>2
<1>9. WellFormed(new, ops + 1)
    <2>1. R[Refs] \subseteq RefRowSet /\ Keyed(R[Refs])
          /\ \A r \in R[Refs] : r.holder <= h /\ r.key < (ops + 1 + 1) * (MaxObject + 1)
        BY <1>5 DEF RefsGood
    <2>2. ops + 1 \in Nat /\ h \in Nat
        BY <1>1, <1>4
    <2> QED
        BY <1>2, <1>3, <1>6, <1>7, <1>8, <2>1, <2>2, FromTables
<1>10. new.head = h /\ new.rows = R
    BY <1>2 DEF LogsWith
<1>11. Grown(new)
    <2> SUFFICES ASSUME NEW s \in Sections
                 PROVE  /\ src.rows[s] \subseteq R[s]
                        /\ \A r \in R[s] \ src.rows[s] :
                              /\ s \in {Items, Snapshots} => r.key > src.head
                              /\ s = Refs => r.holder > src.head
        BY <1>10 DEF Grown
    <2>1. CASE s = Items
        BY <1>3, <1>4, <2>1 DEF Items, Refs
    <2>2. CASE s = Refs
        BY <1>4, <1>5, <2>2 DEF Items, Snapshots, Refs, RefsGood
    <2>3. CASE s \in {Snapshots, Objects, Tokens}
        BY <1>3, <2>3 DEF Items, Snapshots, Refs, Objects, Tokens
    <2> QED
        BY <2>1, <2>2, <2>3, SectionCases
<1> QED
    BY <1>1, <1>4, <1>9, <1>10, <1>11, WriteWrote

LEMMA PutObjectWrote ==
    ASSUME BackupTypeOK, NEW a \in 1..MaxObject, PutObject(a)
    PROVE  Wrote
<1> DEFINE o == [key |-> a, at |-> ops + 1]
           R == InsertObject(src.rows, a, ops + 1)
           new == [src EXCEPT !.used_bytes = src.used_bytes + 1, !.rows = R]
<1>1. Write("object", new) /\ ops \in Nat /\ WellFormed(src, ops) /\ a \notin Committed(src)
    BY DEF PutObject, BackupTypeOK
<1>2. /\ src \in Logs /\ src.head \in Nat /\ src.used_bytes \in Int
      /\ src.rows = [s \in Sections |-> src.rows[s]]
    BY <1>1, LogParts
<1>3. /\ R = [s \in Sections |-> R[s]]
      /\ R[Objects] = src.rows[Objects] \cup {o}
      /\ \A s \in Sections \ {Objects} : R[s] = src.rows[s]
    <2> DEFINE r4 == src.rows[Objects] \cup {o}
    <2>1. R = [src.rows EXCEPT ![Objects] = r4]
        BY DEF InsertObject
    <2> HIDE DEF r4, R
    <2>2. R = [s \in Sections |-> IF s = Objects THEN r4 ELSE src.rows[s]]
        BY <1>2, <2>1, RowsExcept, SectionCases
    <2>3. R = [s \in Sections |-> R[s]] /\ R[Objects] = r4 /\ \A s \in Sections \ {Objects} : R[s] = src.rows[s]
        BY <2>2, SectionCases
    <2> QED
        BY <2>3 DEF r4
<1>4. new \in LogsWith(src.head, R)
    <2>1. src.used_bytes + 1 \in Int
        BY <1>2
    <2> HIDE DEF R
    <2> QED
        BY <1>2, <2>1 DEF Logs, LogsWith
<1>5. o \in TimedRows /\ o.key = a /\ a \in Nat \ {0}
    BY <1>1, BackupAssumption DEF TimedRows
<1> HIDE DEF o, R, new
<1>6. R[Objects] \subseteq TimedRows /\ Keyed(R[Objects])
    <2>1. src.rows[Objects] \subseteq TimedRows /\ Keyed(src.rows[Objects])
        BY <1>1, Tables, SectionCases
    <2>2. \A r \in src.rows[Objects] : r.key # o.key
        BY <1>1, <1>5 DEF Committed
    <2> QED
        BY <1>3, <1>5, <2>1, <2>2, KeyedAdd
<1>7. WellFormed(new, ops + 1)
    <2>1. WellFormed(src, ops + 1)
        BY <1>1, WellFormedLater
    <2>2. \A s \in Sections : R[s] \subseteq RowsOf(s) /\ Keyed(R[s])
        BY <1>3, <1>6, <2>1, SectionCases DEF WellFormed
    <2>3. R[Items] = src.rows[Items] /\ R[Snapshots] = src.rows[Snapshots]
          /\ R[Tokens] = src.rows[Tokens] /\ R[Refs] = src.rows[Refs]
        BY <1>3, Distinct, SectionCases
    <2>4. \A s \in {Items, Snapshots, Tokens} : \A r \in R[s] : r.key <= src.head
        BY <2>1, <2>3, Tables
    <2>5. \A r \in R[Refs] : r.holder <= src.head /\ r.key < (ops + 1 + 1) * (MaxObject + 1)
        BY <2>1, <2>3, Tables
    <2>6. ops + 1 \in Nat
        BY <1>1
    <2> QED
        BY <1>2, <1>3, <1>4, <2>2, <2>4, <2>5, <2>6, WellFormedLog
<1>8. new.head = src.head /\ new.rows = R
    BY <1>4 DEF LogsWith
<1>9. Grown(new)
    BY <1>3, <1>8, Distinct DEF Grown
<1> QED
    BY <1>1, <1>2, <1>7, <1>8, <1>9, WriteWrote

LEMMA GcWrote ==
    ASSUME BackupTypeOK, NEW a \in 1..MaxObject, Gc(a)
    PROVE  Wrote
<1> DEFINE R == [src.rows EXCEPT ![Objects] = {o \in src.rows[Objects] : o.key # a}]
           new == [src EXCEPT !.used_bytes = src.used_bytes - 1, !.rows = R]
<1>1. Write("gc", new) /\ ops \in Nat /\ WellFormed(src, ops)
    BY DEF Gc, BackupTypeOK
<1>2. /\ src \in Logs /\ src.head \in Nat /\ src.used_bytes \in Int
      /\ src.rows = [s \in Sections |-> src.rows[s]]
    BY <1>1, LogParts
<1>3. R = [s \in Sections |-> R[s]] /\ \A s \in Sections : R[s] \subseteq src.rows[s]
    <2> DEFINE r4 == {o \in src.rows[Objects] : o.key # a}
    <2>1. R = [s \in Sections |-> IF s = Objects THEN r4 ELSE src.rows[s]]
        BY <1>2, RowsExcept, SectionCases
    <2>2. r4 \subseteq src.rows[Objects]
        OBVIOUS
    <2> HIDE DEF r4, R
    <2> QED
        BY <2>1, <2>2
<1>4. new \in LogsWith(src.head, R)
    <2>1. src.used_bytes - 1 \in Int
        BY <1>2
    <2> HIDE DEF R
    <2> QED
        BY <1>2, <2>1 DEF Logs, LogsWith
<1> HIDE DEF R, new
<1>5. WellFormed(new, ops + 1)
    BY <1>1, <1>3, <1>4, FewerRows, WellFormedLater
<1>6. new.head = src.head
    BY <1>4 DEF LogsWith
<1> QED
    BY <1>1, <1>2, <1>5, <1>6, WriteWrote

LEMMA SetQuotaWrote ==
    ASSUME BackupTypeOK, NEW q \in Settings, SetQuota(q)
    PROVE  Wrote
<1> DEFINE new == [src EXCEPT !.settings = q]
           R == src.rows
<1>1. Write("settings", new) /\ ops \in Nat /\ WellFormed(src, ops)
    BY DEF SetQuota, BackupTypeOK
<1>2. /\ src \in Logs /\ src.head \in Nat /\ R = [s \in Sections |-> R[s]]
    BY <1>1, LogParts
<1>3. new \in LogsWith(src.head, R)
    BY <1>2 DEF Logs, LogsWith
<1> HIDE DEF R, new
<1>4. \A s \in Sections : R[s] \subseteq src.rows[s]
    BY DEF R
<1>5. WellFormed(new, ops + 1)
    BY <1>1, <1>2, <1>3, <1>4, FewerRows, WellFormedLater
<1>6. new.head = src.head
    BY <1>3 DEF LogsWith
<1> QED
    BY <1>1, <1>2, <1>5, <1>6, WriteWrote

LEMMA CompactWrote ==
    ASSUME BackupTypeOK, NEW c \in 1..src.head, NEW expired \in BOOLEAN, Compact(c, expired)
    PROVE  Wrote
<1> DEFINE gone == {i \in src.rows[Items] : i.entry /\ i.key <= c}
           keys == {i.key : i \in gone}
           r1 == src.rows[Items] \ gone
           r3 == {r \in src.rows[Refs] : r.snapshot \/ r.holder \notin keys}
           r5 == {t \in src.rows[Tokens] : ~expired \/ t.key \in
                                          {i.key : i \in src.rows[Items] \ gone}}
           R == [src.rows EXCEPT ![Items] = r1, ![Refs] = r3, ![Tokens] = r5]
           new == [src EXCEPT !.retained_from = c + 1,
                              !.used_bytes = src.used_bytes - Cardinality(gone), !.rows = R]
<1>1. ops \in Nat /\ WellFormed(src, ops)
    BY DEF BackupTypeOK
<1>2. /\ src \in Logs /\ src.head \in Nat /\ src.used_bytes \in Int
      /\ src.rows = [s \in Sections |-> src.rows[s]]
    BY <1>1, LogParts
<1>3. Write("compact", [src EXCEPT
                    !.retained_from = c + 1,
                    !.used_bytes = @ - Cardinality(gone),
                    !.rows[Items] = @ \ gone,
                    !.rows[Refs] = {r \in @ : r.snapshot \/ r.holder \notin keys},
                    !.rows[Tokens] = {t \in @ : ~expired \/ t.key \in
                                          {i.key : i \in src.rows[Items] \ gone}}])
    BY Zenon DEF Compact
<1>4. [src EXCEPT
                    !.retained_from = c + 1,
                    !.used_bytes = @ - Cardinality(gone),
                    !.rows[Items] = @ \ gone,
                    !.rows[Refs] = {r \in @ : r.snapshot \/ r.holder \notin keys},
                    !.rows[Tokens] = {t \in @ : ~expired \/ t.key \in
                                          {i.key : i \in src.rows[Items] \ gone}}] = new
    BY <1>2, Distinct DEF Logs
<1>5. Cardinality(gone) \in Nat
    <2>1. IsFiniteSet(src.rows[Items])
        BY <1>1, Tables, SectionCases DEF Keyed
    <2>2. gone \in SUBSET src.rows[Items]
        OBVIOUS
    <2>3. IsFiniteSet(gone)
        BY <2>1, <2>2, FS_Subset
    <2> QED
        BY <2>3, FS_CardinalityType
<1>6. r1 \subseteq src.rows[Items] /\ r3 \subseteq src.rows[Refs] /\ r5 \subseteq src.rows[Tokens]
    OBVIOUS
<1> HIDE DEF r1, r3, r5, gone
<1>7. R = [s \in Sections |-> R[s]] /\ \A s \in Sections : R[s] \subseteq src.rows[s]
    <2>1. R = [s \in Sections |-> IF s = Tokens THEN r5 ELSE IF s = Refs THEN r3
                                  ELSE IF s = Items THEN r1 ELSE src.rows[s]]
        BY <1>2, RowsExcept, SectionCases
    <2> HIDE DEF R
    <2> QED
        BY <1>6, <2>1
<1>8. new \in LogsWith(src.head, R)
    <2>1. src.used_bytes - Cardinality(gone) \in Int /\ c + 1 \in Int
        BY <1>2, <1>5
    <2> HIDE DEF R
    <2> QED
        BY <1>2, <2>1 DEF Logs, LogsWith
<1> HIDE DEF R, new
<1>9. WellFormed(new, ops + 1)
    BY <1>1, <1>7, <1>8, FewerRows, WellFormedLater
<1>10. new.head = src.head
    BY <1>8 DEF LogsWith
<1>11. Write("compact", new)
    BY <1>3, <1>4
<1> QED
    BY <1>1, <1>2, <1>9, <1>10, <1>11, WriteWrote

LEMMA EndorseSnapshotWrote ==
    ASSUME BackupTypeOK, NEW s \in src.rows[Snapshots], EndorseSnapshot(s)
    PROVE  Wrote
<1> DEFINE C == src.rows[Snapshots]
           e == [s EXCEPT !.endorsed = TRUE]
           r2 == (C \ {s}) \cup {e}
           R == [src.rows EXCEPT ![Snapshots] = r2]
           new == [src EXCEPT !.rows = R]
<1>1. Write("snapshot", new) /\ ops \in Nat /\ WellFormed(src, ops)
    BY DEF EndorseSnapshot, BackupTypeOK
<1>2. /\ src \in Logs /\ src.head \in Nat
      /\ src.rows = [t \in Sections |-> src.rows[t]]
    BY <1>1, LogParts
<1>3. C \subseteq SnapshotRows /\ Keyed(C) /\ \A r \in C : r.key <= src.head
    BY <1>1, Tables, SectionCases
<1>4. e \in SnapshotRows /\ e.key = s.key /\ s.key \in Nat \ {0} /\ s.key <= src.head
    BY <1>3 DEF SnapshotRows
<1> HIDE DEF C, e
<1>5. Keyed(r2)
    <2>1. Keyed(C \ {s})
        BY <1>3, KeyedSubset
    <2>2. \A r \in C \ {s} : r.key # e.key
        BY <1>3, <1>4 DEF Keyed, C
    <2>3. e.key \in Nat \ {0}
        BY <1>4
    <2> QED
        BY <2>1, <2>2, <2>3, KeyedAdd
<1>6. r2 \subseteq SnapshotRows /\ \A r \in r2 : r.key <= src.head
    BY <1>3, <1>4
<1> HIDE DEF r2
<1>7. /\ R = [t \in Sections |-> R[t]]
      /\ R[Snapshots] = r2
      /\ \A t \in Sections \ {Snapshots} : R[t] = src.rows[t]
    <2>1. R = [t \in Sections |-> IF t = Snapshots THEN r2 ELSE src.rows[t]]
        BY <1>2, RowsExcept, SectionCases
    <2> HIDE DEF R
    <2> QED
        BY <2>1, SectionCases
<1> HIDE DEF R
<1>8. new \in LogsWith(src.head, R)
    BY <1>2 DEF Logs, LogsWith
<1> HIDE DEF new
<1>9. WellFormed(new, ops + 1)
    <2>1. WellFormed(src, ops + 1) /\ ops + 1 \in Nat
        BY <1>1, WellFormedLater
    <2>2. \A t \in Sections : R[t] \subseteq RowsOf(t) /\ Keyed(R[t])
        BY <1>5, <1>6, <1>7, <2>1, SectionCases DEF WellFormed
    <2>3. R[Items] = src.rows[Items] /\ R[Tokens] = src.rows[Tokens] /\ R[Refs] = src.rows[Refs]
        BY <1>7, Distinct, SectionCases
    <2>4. \A t \in {Items, Snapshots, Tokens} : \A r \in R[t] : r.key <= src.head
        BY <1>6, <1>7, <2>1, <2>3, Tables
    <2>5. \A r \in R[Refs] : r.holder <= src.head /\ r.key < (ops + 1 + 1) * (MaxObject + 1)
        BY <2>1, <2>3, Tables
    <2> QED
        BY <1>2, <1>7, <1>8, <2>1, <2>2, <2>4, <2>5, WellFormedLog
<1>10. new.head = src.head
    BY <1>8 DEF LogsWith
<1> QED
    BY <1>1, <1>2, <1>9, <1>10, WriteWrote

LEMMA PutSnapshotWrote ==
    ASSUME BackupTypeOK, src.head # 0, NEW m \in 1..MaxObject, PutSnapshot(m)
    PROVE  Wrote
<1> DEFINE h == src.head
           s == [key |-> h, manifest |-> m, endorsed |-> FALSE]
           all == InsertSnapshot(src.rows, s, {m}, ops + 1)
           more == [src EXCEPT !.rows = all]
           dropped == {x \in all[Snapshots] :
                           Cardinality({y \in all[Snapshots] : y.key >= x.key}) > 2}
           k2 == all[Snapshots] \ dropped
           k3 == {r \in all[Refs] : ~(r.snapshot /\ r.holder \in {x.key : x \in dropped})}
           R == [all EXCEPT ![Snapshots] = k2, ![Refs] = k3]
           new == [src EXCEPT !.rows = R]
<1>1. /\ Write("snapshot", new) /\ ops \in Nat /\ WellFormed(src, ops)
      /\ \A x \in src.rows[Snapshots] : x.key < h
    <2>1. Write("snapshot",
                [src EXCEPT !.rows = [all EXCEPT
                    ![Snapshots] = @ \ dropped,
                    ![Refs] = {r \in @ : ~(r.snapshot /\ r.holder \in {x.key : x \in dropped})}]])
        BY Zenon DEF PutSnapshot
    <2>2. [all EXCEPT ![Snapshots] = @ \ dropped,
                    ![Refs] = {r \in @ : ~(r.snapshot /\ r.holder \in {x.key : x \in dropped})}] = R
        <3> HIDE DEF all, dropped
        <3> QED
            BY Distinct
    <2>3. \A x \in src.rows[Snapshots] : x.key < h
        BY DEF PutSnapshot
    <2> HIDE DEF all, dropped, R
    <2> QED
        BY <2>1, <2>2, <2>3 DEF BackupTypeOK
<1>2. /\ src \in Logs /\ h \in Nat \ {0}
      /\ src.rows = [t \in Sections |-> src.rows[t]]
    BY <1>1, LogParts
<1>3. /\ all = [t \in Sections |-> all[t]]
      /\ all[Snapshots] = src.rows[Snapshots] \cup {s}
      /\ all[Refs] = src.rows[Refs] \cup RefRows({m}, TRUE, h, ops + 1)
      /\ \A t \in Sections \ {Snapshots, Refs} : all[t] = src.rows[t]
    <2> DEFINE r2 == src.rows[Snapshots] \cup {s}
               r3 == src.rows[Refs] \cup RefRows({m}, TRUE, h, ops + 1)
    <2>1. s.key = h
        OBVIOUS
    <2>2. all = [src.rows EXCEPT ![Snapshots] = r2, ![Refs] = r3]
        BY <2>1 DEF InsertSnapshot
    <2> HIDE DEF r2, r3, all
    <2>3. all = [t \in Sections |-> IF t = Refs THEN r3 ELSE IF t = Snapshots THEN r2 ELSE src.rows[t]]
        BY <1>2, <2>2, RowsExcept, SectionCases
    <2>4. /\ all = [t \in Sections |-> all[t]]
          /\ all[Snapshots] = r2 /\ all[Refs] = r3
          /\ \A t \in Sections \ {Snapshots, Refs} : all[t] = src.rows[t]
        BY <2>3, Distinct, SectionCases
    <2> QED
        BY <2>4 DEF r2, r3
<1>4. s \in SnapshotRows /\ s.key = h
    BY <1>2 DEF SnapshotRows
<1>5. RefsGood(src.rows[Refs], all[Refs], h, ops + 1)
    <2> DEFINE A == {m}
               C == src.rows[Refs]
    <2>1. A = {} \/ \E a \in 1..MaxObject : A = {a}
        OBVIOUS
    <2>2. C \in SUBSET RefRowSet /\ Keyed(C)
          /\ \A r \in C : r.holder <= h /\ r.key < (ops + 1) * (MaxObject + 1)
        BY <1>1, Tables, SectionCases
    <2>3. h \in Nat \ {0} /\ h \in Nat /\ h <= h /\ ops \in Nat /\ TRUE \in BOOLEAN
        BY <1>1, <1>2
    <2>4. all[Refs] = C \cup RefRows(A, TRUE, h, ops + 1)
        BY <1>3
    <2> HIDE DEF h, all, A, C
    <2>5. RefsGood(C, C \cup RefRows(A, TRUE, h, ops + 1), h, ops + 1)
        BY <2>1, <2>2, <2>3, RefsAdd
    <2> QED
        BY <2>4, <2>5 DEF C
<1> HIDE DEF all, s
<1>6. more \in LogsWith(h, all)
    BY <1>2 DEF Logs, LogsWith
<1>7. more.rows = all /\ more.head = h
    BY <1>6 DEF LogsWith
<1>8. WellFormed(more, ops + 1)
    <2> DEFINE C == src.rows[Snapshots]
    <2>1. WellFormed(src, ops + 1) /\ ops + 1 \in Nat /\ h \in Nat
        BY <1>1, <1>2, WellFormedLater
    <2>2. C \subseteq SnapshotRows /\ Keyed(C)
        BY <1>1, Tables, SectionCases
    <2>3. \A r \in C : r.key # h /\ r.key <= h
        BY <1>1, <1>2, <2>2 DEF Keyed
    <2>4. all[Snapshots] \subseteq SnapshotRows /\ Keyed(all[Snapshots])
          /\ \A r \in all[Snapshots] : r.key <= h
        <3> HIDE DEF C, h
        <3>1. Keyed(C \cup {s})
            BY <1>2, <1>4, <2>2, <2>3, KeyedAdd
        <3>2. s.key <= h
            BY <1>2, <1>4
        <3>3. all[Snapshots] = C \cup {s}
            BY <1>3 DEF C
        <3> QED
            BY <1>4, <2>2, <2>3, <3>1, <3>2, <3>3
    <2>5. all[Items] = src.rows[Items] /\ all[Tokens] = src.rows[Tokens]
          /\ all[Objects] = src.rows[Objects]
        BY <1>3, Distinct, SectionCases
    <2>6. /\ all[Items] \subseteq ItemRows /\ all[Objects] \subseteq TimedRows
          /\ all[Tokens] \subseteq TimedRows
          /\ Keyed(all[Items]) /\ Keyed(all[Objects]) /\ Keyed(all[Tokens])
          /\ \A r \in all[Items] : r.key <= h
          /\ \A r \in all[Tokens] : r.key <= h
        BY <1>1, <2>5, Tables, SectionCases
    <2>7. all[Refs] \subseteq RefRowSet /\ Keyed(all[Refs])
          /\ \A r \in all[Refs] : r.holder <= h /\ r.key < (ops + 1 + 1) * (MaxObject + 1)
        BY <1>5 DEF RefsGood
    <2> HIDE DEF h, more
    <2> QED
        BY <1>3, <1>6, <2>1, <2>4, <2>6, <2>7, FromTables
<1>9. k2 \subseteq all[Snapshots] /\ k3 \subseteq all[Refs]
    OBVIOUS
<1> HIDE DEF k2, k3
<1>10. R = [t \in Sections |-> R[t]] /\ \A t \in Sections : R[t] \subseteq all[t]
    <2>1. R = [t \in Sections |-> IF t = Refs THEN k3 ELSE IF t = Snapshots THEN k2 ELSE all[t]]
        BY <1>3, RowsExcept, SectionCases
    <2> HIDE DEF R
    <2> QED
        BY <1>9, <2>1
<1> HIDE DEF R
<1>11. new \in LogsWith(h, R)
    BY <1>2 DEF Logs, LogsWith
<1> HIDE DEF new, more
<1>12. WellFormed(new, ops + 1)
    BY <1>1, <1>7, <1>8, <1>10, <1>11, FewerRows
<1>13. new.head = src.head
    BY <1>11 DEF LogsWith
<1> QED
    BY <1>1, <1>2, <1>12, <1>13, WriteWrote

\* Every write.
LEMMA SourceStepWrote ==
    ASSUME BackupTypeOK, src.head # 0, SourceStep
    PROVE  Wrote
BY Append1Wrote, PutObjectWrote, GcWrote, PutSnapshotWrote, EndorseSnapshotWrote,
   CompactWrote, SetQuotaWrote DEF SourceStep

-----------------------------------------------------------------------------
(***************************************************************************)
(* The archive is the cut.                                                 *)
(***************************************************************************)
LEMMA CutCases ==
    /\ CutRows(Items) = {r \in src.rows[Items] : r.key <= cut.head}
    /\ CutRows(Snapshots) = {r \in src.rows[Snapshots] : r.key <= cut.head}
    /\ CutRows(Refs) = {r \in src.rows[Refs] : r.holder <= cut.head}
    /\ CutRows(Objects) = cut.objects
    /\ CutRows(Tokens) = cut.tokens
    /\ CutRows(Items)' = {r \in src'.rows[Items] : r.key <= cut'.head}
    /\ CutRows(Snapshots)' = {r \in src'.rows[Snapshots] : r.key <= cut'.head}
    /\ CutRows(Refs)' = {r \in src'.rows[Refs] : r.holder <= cut'.head}
    /\ CutRows(Objects)' = cut'.objects
    /\ CutRows(Tokens)' = cut'.tokens
BY DEF CutRows, Items, Snapshots, Refs, Objects, Tokens

\* What is added after the cut is not read by it.
LEMMA GrownCut ==
    ASSUME BackupTypeOK, src'.head \in Nat, WellFormed(src', ops'), Grown(src'), cut' = cut,
           cut.head <= src.head
    PROVE  \A s \in Sections : CutRows(s)' = CutRows(s)
<1>1. src.head \in Nat /\ cut.head \in Nat
    BY LogParts DEF BackupTypeOK
<1>2. \A s \in {Items, Snapshots} :
          /\ src.rows[s] \subseteq src'.rows[s]
          /\ \A r \in src'.rows[s] \ src.rows[s] : r.key > src.head
    BY SectionCases DEF Grown
<1>3. /\ src.rows[Refs] \subseteq src'.rows[Refs]
      /\ \A r \in src'.rows[Refs] \ src.rows[Refs] : r.holder > src.head
    BY SectionCases DEF Grown
<1>4. /\ \A r \in src'.rows[Items] : r.key \in Nat
      /\ \A r \in src'.rows[Snapshots] : r.key \in Nat
      /\ \A r \in src'.rows[Refs] : r.holder \in Nat
    <2>1. src'.rows[Items] \subseteq ItemRows /\ src'.rows[Snapshots] \subseteq SnapshotRows
          /\ src'.rows[Refs] \subseteq RefRowSet
        BY Tables
    <2> QED
        BY <2>1 DEF ItemRows, SnapshotRows, RefRowSet
<1>5. \A x \in Nat : x > src.head => ~(x <= cut.head)
    BY <1>1
<1>6. CutRows(Items)' = CutRows(Items)
    BY <1>2, <1>4, <1>5, CutCases
<1>7. CutRows(Snapshots)' = CutRows(Snapshots)
    BY <1>2, <1>4, <1>5, CutCases
<1>8. CutRows(Refs)' = CutRows(Refs)
    BY <1>3, <1>4, <1>5, CutCases
<1>9. CutRows(Objects)' = CutRows(Objects) /\ CutRows(Tokens)' = CutRows(Tokens)
    BY CutCases
<1> TAKE s \in Sections
<1>10. s \in {Items, Snapshots, Refs, Objects, Tokens}
    BY SectionCases
<1>11. CASE s = Items
    BY <1>6, <1>11
<1>12. CASE s = Snapshots
    BY <1>7, <1>12
<1>13. CASE s = Refs
    BY <1>8, <1>13
<1>14. CASE s = Objects
    BY <1>9, <1>14
<1>15. CASE s = Tokens
    BY <1>9, <1>15
<1> QED
    BY <1>10, <1>11, <1>12, <1>13, <1>14, <1>15

LEMMA WriteBackup ==
    ASSUME IndBackup, Wrote
    PROVE  IndBackup'
<1>1. src.head \in Nat /\ src'.head \in Nat
    <2>1. WellFormed(src, ops) /\ WellFormed(src', ops')
        BY DEF IndBackup, BackupTypeOK, Wrote
    <2> QED
        BY <2>1, LogParts
<1>2. /\ ~archive.complete /\ archive' = archive /\ src'.head >= src.head
      /\ src.head # 0 /\ archive.session <= cut.session /\ CutMatches
    BY DEF IndBackup, Wrote
<1>3. /\ cut' \in [session : Nat, valid : BOOLEAN, head : Nat, section : 1..Finished,
                  sent : Seq(Pages), objects : SUBSET Rows, tokens : SUBSET Rows]
      /\ cut'.session = cut.session /\ cut'.head = cut.head /\ cut'.section = cut.section
      /\ cut'.objects = cut.objects /\ (cut'.valid => cut' = cut)
    BY DEF IndBackup, BackupTypeOK, Wrote
<1>4. BackupTypeOK'
    BY <1>2, <1>3 DEF IndBackup, BackupTypeOK, Wrote
<1>5. CutHolds'
    <2>1. cut'.valid => cut'.head <= src'.head
        BY <1>1, <1>2, <1>3 DEF IndBackup, BackupTypeOK, CutHolds
    <2>2. cut'.valid /\ cut'.section # Finished => cut'.objects \subseteq src'.rows[Objects]
        <3> SUFFICES ASSUME cut'.valid, cut'.section # Finished
                     PROVE  cut'.objects \subseteq src'.rows[Objects]
            OBVIOUS
        <3>1. Grown(src') /\ cut.objects \subseteq src.rows[Objects]
            BY <1>3 DEF Wrote, IndBackup, CutHolds
        <3>2. src.rows[Objects] \subseteq src'.rows[Objects]
            BY <3>1, SectionCases DEF Grown
        <3> QED
            BY <1>3, <3>1, <3>2
    <2> QED
        BY <2>1, <2>2 DEF CutHolds
<1>6. CutMatches'
    <2> SUFFICES ASSUME Calling' PROVE CutMatches'
        BY DEF CutMatches
    <2>1. cut' = cut /\ Calling
        BY <1>2, <1>3 DEF Calling
    <2>2. cut.section # Finished => \A s \in Sections : CutRows(s)' = CutRows(s)
        <3> SUFFICES ASSUME cut.section # Finished
                     PROVE  \A s \in Sections : CutRows(s)' = CutRows(s)
            OBVIOUS
        <3>1. BackupTypeOK /\ WellFormed(src', ops') /\ Grown(src') /\ cut.head <= src.head
            BY <2>1 DEF Calling, Wrote, IndBackup, CutHolds
        <3> QED
            BY <1>1, <2>1, <3>1, GrownCut
    <2>3. \A s \in Sections : SentRows(s)' = SentRows(s)
        BY <2>1, Zenon DEF SentRows
    <2>4. /\ cut.section # Finished => \A s \in Sections : CutRows(s) = archive.log.rows[s]
          /\ \A s \in Sections :
               /\ Prefix(SentRows(s), archive.log.rows[s])
               /\ s < cut.section => SentRows(s) = archive.log.rows[s]
        BY <1>2, <2>1, Zenon DEF CutMatches
    <2>5. /\ cut'.section # Finished => \A s \in Sections : CutRows(s)' = archive'.log.rows[s]
          /\ \A s \in Sections :
               /\ Prefix(SentRows(s)', archive'.log.rows[s])
               /\ s < cut'.section => SentRows(s)' = archive'.log.rows[s]
        BY <1>2, <2>1, <2>2, <2>3, <2>4
    <2> QED
        BY <2>5, Zenon DEF CutMatches, Prefix
<1> QED
    BY <1>1, <1>2, <1>3, <1>4, <1>5, <1>6 DEF IndBackup

\* The rows of a section in a sequence of pages.
SectionRows(q, s) == UNION {q[p].rows : p \in {k \in 1..Len(q) : q[k].section = s}}

LEMMA SectionAppend ==
    ASSUME NEW q \in Seq(Pages), NEW page \in Pages, NEW s
    PROVE  SectionRows(Append(q, page), s) =
               SectionRows(q, s) \cup (IF page.section = s THEN page.rows ELSE {})
<1> DEFINE n == Len(q)
           a == Append(q, page)
<1>1. n \in Nat /\ Len(a) = n + 1 /\ a[n + 1] = page /\ \A k \in 1..n : a[k] = q[k]
    OBVIOUS
<1>2. 1..Len(a) = 1..n \cup {n + 1}
    BY <1>1
<1> HIDE DEF a, n
<1>3. SectionRows(a, s) \subseteq SectionRows(q, s) \cup (IF page.section = s THEN page.rows ELSE {})
    BY <1>1, <1>2 DEF SectionRows, n
<1>4. SectionRows(q, s) \subseteq SectionRows(a, s)
    BY <1>1, <1>2 DEF SectionRows, n
<1>5. page.section = s => page.rows \subseteq SectionRows(a, s)
    BY <1>1, <1>2 DEF SectionRows
<1> QED
    BY <1>3, <1>4, <1>5 DEF a

LEMMA BeginBackup ==
    ASSUME IndBackup, NEW received \in BOOLEAN, BackupBegin(received)
    PROVE  IndBackup'
<1> DEFINE ts == {t \in src.rows[Tokens] : t.key <= src.head}
           c == [session |-> cut.session + 1, valid |-> TRUE, head |-> src.head, section |-> 1,
                 sent |-> << >>, objects |-> src.rows[Objects], tokens |-> ts]
<1>1. /\ ~archive.complete /\ src' = src /\ ops' = ops /\ cut' = c
      /\ archive' = IF received
                  THEN [NoArchive EXCEPT !.session = cut.session + 1, !.log = src]
                  ELSE archive
      /\ src.head # 0 /\ archive.session <= cut.session
    BY DEF BackupBegin, Cut, IndBackup
<1>2. ops \in Nat /\ WellFormed(src, ops) /\ cut.session \in Nat /\ archive.session \in Nat
    BY DEF IndBackup, BackupTypeOK
<1>3. src \in Logs /\ src.head \in Nat /\ ts = src.rows[Tokens]
    BY <1>2, LogParts, Tables
<1>4. src.rows[Objects] \subseteq Rows /\ ts \subseteq Rows
    BY <1>3, SectionCases DEF Logs
<1>5. cut' \in [session : Nat, valid : BOOLEAN, head : Nat, section : 1..Finished,
                sent : Seq(Pages), objects : SUBSET Rows, tokens : SUBSET Rows]
    <2>1. 1 \in 1..Finished /\ << >> \in Seq(Pages) /\ cut.session + 1 \in Nat
        BY <1>2 DEF Finished
    <2> HIDE DEF ts
    <2> QED
        BY <1>1, <1>3, <1>4, <2>1
<1>6. received => archive' = [session |-> cut.session + 1, log |-> src, pages |-> << >>,
                              complete |-> FALSE]
    BY <1>1 DEF NoArchive
<1>7. BackupTypeOK' /\ ~archive'.complete /\ archive'.session <= cut'.session
    <2>1. CASE received
        <3>1. /\ archive' \in [session : Nat, log : Logs, pages : Seq(Pages), complete : BOOLEAN]
              /\ archive'.log = src /\ ~archive'.complete /\ archive'.session = cut.session + 1
            <4>1. << >> \in Seq(Pages) /\ cut.session + 1 \in Nat /\ FALSE \in BOOLEAN
                BY <1>2
            <4>2. archive' = [session |-> cut.session + 1, log |-> src, pages |-> << >>,
                              complete |-> FALSE]
                BY <1>6, <2>1
            <4>3. archive' \in [session : Nat, log : Logs, pages : Seq(Pages), complete : BOOLEAN]
                BY <1>3, <4>1, <4>2
            <4>4. archive'.log = src /\ archive'.complete = FALSE /\ archive'.session = cut.session + 1
                BY <4>2
            <4> QED
                BY <4>3, <4>4
        <3>2. \E now \in Nat : WellFormed(archive'.log, now)
            BY <1>2, <3>1
        <3> QED
            BY <1>1, <1>2, <1>5, <3>1, <3>2 DEF BackupTypeOK
    <2>2. CASE ~received
        BY <1>1, <1>2, <1>5, <2>2 DEF BackupTypeOK, IndBackup
    <2> QED
        BY <2>1, <2>2
<1>8. CutHolds'
    BY <1>1, <1>3 DEF CutHolds
<1>9. CutMatches'
    <2>1. CASE ~received
        <3>1. archive'.session # cut'.session
            BY <1>1, <1>2, <2>1
        <3> QED
            BY <3>1 DEF CutMatches, Calling
    <2>2. CASE received
        <3>1. archive'.log.rows = src.rows
            BY <1>6, <2>2
        <3>2. cut'.head = src.head /\ cut'.objects = src.rows[Objects]
              /\ cut'.tokens = src.rows[Tokens] /\ cut'.sent = << >> /\ cut'.section = 1
            BY <1>1, <1>3
        <3>3. /\ CutRows(Items)' = src.rows[Items] /\ CutRows(Snapshots)' = src.rows[Snapshots]
              /\ CutRows(Refs)' = src.rows[Refs] /\ CutRows(Objects)' = src.rows[Objects]
              /\ CutRows(Tokens)' = src.rows[Tokens]
            <4>1. /\ \A r \in src.rows[Items] : r.key <= src.head
                  /\ \A r \in src.rows[Snapshots] : r.key <= src.head
                  /\ \A r \in src.rows[Refs] : r.holder <= src.head
                BY <1>2, Tables
            <4> QED
                BY <1>1, <3>2, <4>1, CutCases
        <3>4. ASSUME NEW s \in Sections PROVE CutRows(s)' = archive'.log.rows[s]
            <4>1. s \in {Items, Snapshots, Refs, Objects, Tokens}
                BY SectionCases
            <4>2. CASE s = Items
                BY <3>1, <3>3, <4>2
            <4>3. CASE s = Snapshots
                BY <3>1, <3>3, <4>3
            <4>4. CASE s = Refs
                BY <3>1, <3>3, <4>4
            <4>5. CASE s = Objects
                BY <3>1, <3>3, <4>5
            <4>6. CASE s = Tokens
                BY <3>1, <3>3, <4>6
            <4> QED
                BY <4>1, <4>2, <4>3, <4>4, <4>5, <4>6
        <3>5. ASSUME NEW s \in Sections
              PROVE  Prefix(SentRows(s), archive.log.rows[s])' /\ ~(s < cut'.section)
            <4>1. SentRows(s)' = {}
                BY <3>2 DEF SentRows
            <4>2. ~(s < cut'.section)
                BY <3>2 DEF Sections
            <4> QED
                BY <4>1, <4>2 DEF Prefix
        <3> QED
            BY <3>4, <3>5 DEF CutMatches
    <2> QED
        BY <2>1, <2>2
<1> QED
    BY <1>1, <1>7, <1>8, <1>9 DEF IndBackup

\* The rows of the next page are the first that were not sent.
LEMMA PageFirst ==
    ASSUME NEW s \in Sections, NEW C, CutRows(s) = C, Keyed(C), Prefix(SentRows(s), C)
    PROVE  PageOf(s) = FirstOf(C \ SentRows(s))
<1> DEFINE S == SentRows(s)
           rest == {r \in C : r.key > After(s)}
<1>1. UNION {{r.key : r \in cut.sent[p].rows} :
                            p \in {q \in 1..Len(cut.sent) : cut.sent[q].section = s}}
          = {r.key : r \in S}
    BY DEF SentRows
<1>2. After(s) = Max({0} \cup {r.key : r \in S})
    BY <1>1, Zenon DEF After
<1>3. \A r \in C : r.key > After(s) <=> r \notin S
    <2> HIDE DEF S
    <2> QED
        BY <1>2, AfterPrefix DEF S
<1>4. rest = C \ S
    BY <1>3
<1>5. PageOf(s) = FirstOf(rest)
    BY Zenon DEF PageOf, FirstOf
<1> QED
    BY <1>4, <1>5

LEMMA PageBackup ==
    ASSUME IndBackup, NEW received \in BOOLEAN, BackupPage(received)
    PROVE  IndBackup'
<1> DEFINE n == cut.section
           C == archive.log.rows[n]
           S == SentRows(n)
           P == PageOf(n)
           page == [section |-> n, rows |-> P]
           next == IF P = {} THEN n + 1 ELSE n
<1>1. /\ ~archive.complete /\ src' = src /\ ops' = ops
      /\ Calling /\ n \in Sections /\ archive.pages = cut.sent
      /\ cut' = [cut EXCEPT !.sent = Append(cut.sent, page), !.section = next]
      /\ archive' = IF received THEN [archive EXCEPT !.pages = Append(archive.pages, page)] ELSE archive
      /\ src.head # 0 /\ archive.session <= cut.session
    BY DEF BackupPage, Cut, IndBackup
<1>2. /\ ops \in Nat /\ WellFormed(src, ops)
      /\ cut \in [session : Nat, valid : BOOLEAN, head : Nat, section : 1..Finished,
                sent : Seq(Pages), objects : SUBSET Rows, tokens : SUBSET Rows]
      /\ archive \in [session : Nat, log : Logs, pages : Seq(Pages), complete : BOOLEAN]
      /\ \E now \in Nat : WellFormed(archive.log, now)
    BY DEF IndBackup, BackupTypeOK
<1>3. n # Finished /\ n + 1 \in 1..Finished /\ n \in 1..5
    BY <1>1 DEF Sections, Finished
<1>4. CutMatches
    BY <1>1 DEF IndBackup
<1>5. /\ \A s \in Sections : CutRows(s) = archive.log.rows[s]
      /\ \A s \in Sections :
               /\ Prefix(SentRows(s), archive.log.rows[s])
               /\ s < n => SentRows(s) = archive.log.rows[s]
    BY <1>1, <1>3, <1>4, Zenon DEF CutMatches
<1>6. Keyed(C) /\ C \subseteq Rows
    <2>1. PICK now \in Nat : WellFormed(archive.log, now)
        BY <1>2
    <2>2. archive.log.rows \in [Sections -> SUBSET Rows]
        BY <1>2 DEF Logs
    <2> QED
        BY <1>1, <2>1, <2>2, Tables
<1>7. P = FirstOf(C \ S)
    BY <1>1, <1>5, <1>6, PageFirst
<1>8. P \subseteq C /\ Prefix(S \cup P, C) /\ (P = {} => S = C)
    <2>1. Prefix(S, C)
        BY <1>1, <1>5
    <2> HIDE DEF S, C, P, n
    <2> QED
        BY <1>6, <1>7, <2>1, PageExtends
<1>9. page \in Pages /\ page.section = n /\ page.rows = P
    <2>1. P \in SUBSET Rows
        BY <1>6, <1>8
    <2> HIDE DEF P
    <2> QED
        BY <1>1, <2>1 DEF Pages
<1>10. next \in 1..Finished
    BY <1>2, <1>3
<1> HIDE DEF page, next, P
<1>11. /\ cut' \in [session : Nat, valid : BOOLEAN, head : Nat, section : 1..Finished,
                sent : Seq(Pages), objects : SUBSET Rows, tokens : SUBSET Rows]
       /\ cut'.session = cut.session /\ cut'.head = cut.head /\ cut'.valid = cut.valid
       /\ cut'.objects = cut.objects /\ cut'.tokens = cut.tokens
       /\ cut'.sent = Append(cut.sent, page) /\ cut'.section = next
    <2>1. Append(cut.sent, page) \in Seq(Pages)
        BY <1>2, <1>9
    <2> QED
        BY <1>1, <1>2, <1>10, <2>1
<1>12. /\ archive' \in [session : Nat, log : Logs, pages : Seq(Pages), complete : BOOLEAN]
       /\ archive'.log = archive.log /\ archive'.session = archive.session
       /\ archive'.complete = archive.complete
    <2>1. Append(archive.pages, page) \in Seq(Pages)
        BY <1>2, <1>9
    <2> QED
        BY <1>1, <1>2, <2>1
<1>13. BackupTypeOK'
    BY <1>1, <1>2, <1>11, <1>12 DEF BackupTypeOK
<1>14. CutHolds'
    BY <1>1, <1>3, <1>11 DEF CutHolds, IndBackup
<1>15. \A s \in Sections : CutRows(s)' = CutRows(s)
    BY <1>1, <1>11, Zenon DEF CutRows
<1>16. \A s \in Sections : SentRows(s)' = SentRows(s) \cup (IF n = s THEN P ELSE {})
    <2> TAKE s \in Sections
    <2>1. SentRows(s) = SectionRows(cut.sent, s) /\ SentRows(s)' = SectionRows(cut'.sent, s)
        BY Zenon DEF SentRows, SectionRows
    <2>2. SectionRows(cut'.sent, s) =
              SectionRows(cut.sent, s) \cup (IF page.section = s THEN page.rows ELSE {})
        BY <1>2, <1>9, <1>11, SectionAppend
    <2> QED
        BY <1>9, <2>1, <2>2
<1>17. ASSUME NEW s \in Sections
       PROVE  /\ Prefix(SentRows(s)', archive.log.rows[s])
              /\ s < next => SentRows(s)' = archive.log.rows[s]
    <2>1. CASE s = n
        <3>1. SentRows(s)' = S \cup P /\ archive.log.rows[s] = C
            BY <1>16, <2>1
        <3>2. s < next => P = {}
            BY <1>3, <2>1 DEF next
        <3> QED
            BY <1>8, <3>1, <3>2
    <2>2. CASE s # n
        <3>1. SentRows(s)' = SentRows(s)
            BY <1>16, <2>2
        <3>2. s < next => s < n
            BY <1>3, <2>2 DEF next, Sections
        <3> QED
            BY <1>5, <3>1, <3>2
    <2> QED
        BY <2>1, <2>2
<1>18. CutMatches'
    <2>1. /\ cut'.section # Finished => \A s \in Sections : CutRows(s)' = archive'.log.rows[s]
          /\ \A s \in Sections :
               /\ Prefix(SentRows(s)', archive'.log.rows[s])
               /\ s < cut'.section => SentRows(s)' = archive'.log.rows[s]
        BY <1>5, <1>11, <1>12, <1>15, <1>17
    <2> QED
        BY <2>1, Zenon DEF CutMatches, Prefix
<1> QED
    BY <1>1, <1>11, <1>12, <1>13, <1>14, <1>18 DEF IndBackup

LEMMA PageAgainBackup ==
    ASSUME IndBackup, BackupPageAgain
    PROVE  IndBackup'
<1> DEFINE p == cut.sent[Len(cut.sent)]
<1>1. /\ ~archive.complete /\ src' = src /\ ops' = ops /\ cut' = cut /\ Len(cut.sent) > 0
      /\ archive' = [archive EXCEPT !.pages = Append(archive.pages, p)]
      /\ src.head # 0 /\ archive.session <= cut.session /\ CutMatches
    BY DEF BackupPageAgain, Cut, IndBackup
<1>2. /\ cut.sent \in Seq(Pages)
      /\ archive \in [session : Nat, log : Logs, pages : Seq(Pages), complete : BOOLEAN]
    BY DEF IndBackup, BackupTypeOK
<1>3. p \in Pages
    <2>1. Len(cut.sent) \in 1..Len(cut.sent)
        BY <1>1, <1>2
    <2> QED
        BY <1>2, <2>1
<1>4. /\ archive' \in [session : Nat, log : Logs, pages : Seq(Pages), complete : BOOLEAN]
      /\ archive'.log = archive.log /\ archive'.session = archive.session
      /\ archive'.complete = archive.complete
    <2>1. Append(archive.pages, p) \in Seq(Pages)
        BY <1>2, <1>3
    <2> HIDE DEF p
    <2> QED
        BY <1>1, <1>2, <2>1
<1>5. BackupTypeOK'
    BY <1>1, <1>4 DEF IndBackup, BackupTypeOK
<1>6. CutHolds'
    BY <1>1 DEF IndBackup, CutHolds
<1>7. CutMatches'
    <2> SUFFICES ASSUME Calling' PROVE CutMatches'
        BY DEF CutMatches
    <2>1. Calling
        BY <1>1, <1>4 DEF Calling
    <2>2. \A s \in Sections : CutRows(s)' = CutRows(s)
        BY <1>1, Zenon DEF CutRows
    <2>3. \A s \in Sections : SentRows(s)' = SentRows(s)
        BY <1>1, Zenon DEF SentRows
    <2>4. /\ cut.section # Finished => \A s \in Sections : CutRows(s) = archive.log.rows[s]
          /\ \A s \in Sections :
               /\ Prefix(SentRows(s), archive.log.rows[s])
               /\ s < cut.section => SentRows(s) = archive.log.rows[s]
        BY <1>1, <2>1, Zenon DEF CutMatches
    <2>5. /\ cut'.section # Finished => \A s \in Sections : CutRows(s)' = archive'.log.rows[s]
          /\ \A s \in Sections :
               /\ Prefix(SentRows(s)', archive'.log.rows[s])
               /\ s < cut'.section => SentRows(s)' = archive'.log.rows[s]
        BY <1>1, <1>4, <2>2, <2>3, <2>4
    <2> QED
        BY <2>5, Zenon DEF CutMatches, Prefix
<1> QED
    BY <1>1, <1>4, <1>5, <1>6, <1>7 DEF IndBackup

LEMMA FinishBackup ==
    ASSUME IndBackup, NEW received \in BOOLEAN, BackupFinish(received)
    PROVE  IndBackup'
<1>1. /\ ~archive.complete /\ src' = src /\ ops' = ops
      /\ Calling /\ cut.section \in {Sent, Finished} /\ archive.pages = cut.sent
      /\ cut' = [cut EXCEPT !.section = Finished]
      /\ archive' = [archive EXCEPT !.complete = received]
      /\ src.head # 0 /\ archive.session <= cut.session /\ CutMatches
    BY DEF BackupFinish, Cut, IndBackup
<1>2. /\ cut \in [session : Nat, valid : BOOLEAN, head : Nat, section : 1..Finished,
                sent : Seq(Pages), objects : SUBSET Rows, tokens : SUBSET Rows]
      /\ archive \in [session : Nat, log : Logs, pages : Seq(Pages), complete : BOOLEAN]
    BY DEF IndBackup, BackupTypeOK
<1>3. /\ cut' \in [session : Nat, valid : BOOLEAN, head : Nat, section : 1..Finished,
                sent : Seq(Pages), objects : SUBSET Rows, tokens : SUBSET Rows]
      /\ cut'.session = cut.session /\ cut'.head = cut.head /\ cut'.valid = cut.valid
      /\ cut'.sent = cut.sent /\ cut'.section = Finished
      /\ archive' \in [session : Nat, log : Logs, pages : Seq(Pages), complete : BOOLEAN]
      /\ archive'.log = archive.log /\ archive'.session = archive.session
      /\ archive'.pages = archive.pages
    <2>1. Finished \in 1..Finished
        BY DEF Finished
    <2> QED
        BY <1>1, <1>2, <2>1
<1>4. BackupTypeOK'
    BY <1>1, <1>3 DEF IndBackup, BackupTypeOK
<1>5. CutHolds'
    BY <1>1, <1>3 DEF IndBackup, CutHolds
<1>6. \A s \in Sections : SentRows(s) = archive.log.rows[s] /\ Prefix(SentRows(s), archive.log.rows[s])
    <2>1. \A s \in Sections : s < cut.section
        BY <1>1 DEF Sections, Sent, Finished
    <2> QED
        BY <1>1, <2>1 DEF CutMatches
<1>7. \A s \in Sections : SentRows(s)' = SentRows(s) /\ Archived(s)' = SentRows(s)
    <2>1. cut'.sent = cut.sent /\ archive'.pages = cut.sent
        BY <1>1, <1>3
    <2> TAKE s \in Sections
    <2>2. SentRows(s)' = SentRows(s)
        BY <2>1, Zenon DEF SentRows
    <2>3. Archived(s)' = SentRows(s)
        BY <2>1, Zenon DEF SentRows, Archived
    <2> QED
        BY <2>2, <2>3
<1>8. \A s \in Sections : Archived(s)' = archive'.log.rows[s]
    BY <1>3, <1>6, <1>7
<1>9. CutMatches'
    <2>1. \A s \in Sections :
               /\ Prefix(SentRows(s)', archive'.log.rows[s])
               /\ s < cut'.section => SentRows(s)' = archive'.log.rows[s]
        BY <1>3, <1>6, <1>7
    <2> QED
        BY <1>3, <2>1, Zenon DEF CutMatches, Prefix
<1> QED
    BY <1>1, <1>3, <1>4, <1>5, <1>8, <1>9 DEF IndBackup

LEMMA AbortBackup ==
    ASSUME IndBackup, BackupAbort
    PROVE  IndBackup'
<1>1. /\ ~archive.complete /\ src' = src /\ ops' = ops
      /\ cut' = [cut EXCEPT !.valid = FALSE] /\ archive' = archive
      /\ src.head # 0 /\ archive.session <= cut.session
    BY DEF BackupAbort, Cut, IndBackup
<1>2. cut \in [session : Nat, valid : BOOLEAN, head : Nat, section : 1..Finished,
                sent : Seq(Pages), objects : SUBSET Rows, tokens : SUBSET Rows]
    BY DEF IndBackup, BackupTypeOK
<1>3. /\ cut' \in [session : Nat, valid : BOOLEAN, head : Nat, section : 1..Finished,
                sent : Seq(Pages), objects : SUBSET Rows, tokens : SUBSET Rows]
      /\ cut'.session = cut.session /\ ~cut'.valid
    BY <1>1, <1>2
<1>4. BackupTypeOK'
    BY <1>1, <1>3 DEF IndBackup, BackupTypeOK
<1>5. CutHolds' /\ CutMatches'
    BY <1>3 DEF CutHolds, CutMatches, Calling
<1> QED
    BY <1>1, <1>3, <1>4, <1>5 DEF IndBackup

LEMMA NewLogWellFormed ==
    ASSUME NEW now \in Nat
    PROVE  WellFormed(NewLog, now)
<1>1. /\ Blank = [s \in Sections |-> Blank[s]] /\ \A s \in Sections : Blank[s] = {}
    BY DEF Blank
<1>2. Keyed({})
    BY FS_EmptySet DEF Keyed
<1>3. NewLog \in LogsWith(0, Blank)
    BY DEF NewLog, LogsWith
<1>4. \A s \in Sections : Blank[s] \subseteq RowsOf(s) /\ Keyed(Blank[s])
    BY <1>1, <1>2
<1>5. /\ \A s \in {Items, Snapshots, Tokens} : \A r \in Blank[s] : r.key <= 0
      /\ \A r \in Blank[Refs] : r.holder <= 0 /\ r.key < (now + 1) * (MaxObject + 1)
    BY <1>1, SectionCases
<1> QED
    BY <1>1, <1>3, <1>4, <1>5, WellFormedLog

LEMMA NoCutType ==
    /\ NoCut \in [session : Nat, valid : BOOLEAN, head : Nat, section : 1..Finished,
                  sent : Seq(Pages), objects : SUBSET Rows, tokens : SUBSET Rows]
    /\ NoCut.valid = FALSE /\ NoCut.session = 0
BY DEF NoCut, Finished

LEMMA LoseBackup ==
    ASSUME IndBackup, LoseSource
    PROVE  IndBackup'
<1>1. /\ archive.complete /\ archive' = archive /\ src' = NewLog /\ ops' = FirstOps /\ cut' = NoCut
    BY DEF LoseSource
<1>2. FirstOps \in Nat /\ WellFormed(NewLog, FirstOps)
    BY NewLogWellFormed DEF FirstOps
<1>3. BackupTypeOK'
    BY <1>1, <1>2, NoCutType DEF IndBackup, BackupTypeOK
<1>4. CutHolds'
    BY <1>1, NoCutType DEF CutHolds
<1>5. \A s \in Sections : Archived(s)' = Archived(s)
    BY <1>1, Zenon DEF Archived
<1> QED
    BY <1>1, <1>3, <1>4, <1>5 DEF IndBackup

LEMMA SameBackup ==
    ASSUME IndBackup, UNCHANGED sourceVars
    PROVE  IndBackup'
<1>1. src' = src /\ ops' = ops /\ cut' = cut /\ archive' = archive
    BY DEF sourceVars
<1>2. BackupTypeOK' /\ CutHolds'
    BY <1>1 DEF IndBackup, BackupTypeOK, CutHolds
<1>3. \A s \in Sections : Archived(s)' = Archived(s) /\ CutRows(s)' = CutRows(s)
                          /\ SentRows(s)' = SentRows(s)
    BY <1>1, Zenon DEF Archived, CutRows, SentRows
<1>4. CutMatches => CutMatches'
    <2> SUFFICES ASSUME CutMatches, Calling' PROVE CutMatches'
        BY DEF CutMatches
    <2>1. Calling
        BY <1>1 DEF Calling
    <2>2. /\ cut.section # Finished => \A s \in Sections : CutRows(s) = archive.log.rows[s]
          /\ \A s \in Sections :
               /\ Prefix(SentRows(s), archive.log.rows[s])
               /\ s < cut.section => SentRows(s) = archive.log.rows[s]
        BY <2>1, Zenon DEF CutMatches
    <2>3. /\ cut'.section # Finished => \A s \in Sections : CutRows(s)' = archive'.log.rows[s]
          /\ \A s \in Sections :
               /\ Prefix(SentRows(s)', archive'.log.rows[s])
               /\ s < cut'.section => SentRows(s)' = archive'.log.rows[s]
        BY <1>1, <1>3, <2>2
    <2> QED
        BY <2>3, Zenon DEF CutMatches, Prefix
<1> QED
    BY <1>1, <1>2, <1>3, <1>4 DEF IndBackup

LEMMA NextBackup ==
    ASSUME IndBackup, [Next]_vars
    PROVE  IndBackup'
<1>1. CASE SourceStep
    <2>1. ~archive.complete
        BY <1>1 DEF SourceStep, Append1, PutObject, Gc, PutSnapshot, EndorseSnapshot, Compact,
                    SetQuota, Write
    <2>2. BackupTypeOK /\ src.head # 0
        BY <2>1 DEF IndBackup
    <2> QED
        BY <1>1, <2>2, SourceStepWrote, WriteBackup
<1>2. CASE BackupStep
    BY <1>2, BeginBackup, PageBackup, FinishBackup, PageAgainBackup, AbortBackup, LoseBackup
       DEF BackupStep
<1>3. CASE RestoreStep
    <2>1. UNCHANGED sourceVars
        BY <1>3, Zenon DEF RestoreStep, Import, ImportObject, RecordObject, ObjectDone, ImportSnapshot,
                    RestoreAuxBegin, RestoreAuxPage, Commit, Cancel, Publish
    <2> QED
        BY <2>1, SameBackup
<1>4. CASE DeletionStep
    <2>1. UNCHANGED sourceVars
        BY <1>4 DEF DeletionStep, RecordCollectionDeletion, BeginCollectionClosing,
                    DestinationClose, DeleteLog
    <2> QED
        BY <2>1, SameBackup
<1>5. CASE UNCHANGED vars
    BY <1>5, SameBackup DEF vars
<1> QED
    BY <1>1, <1>2, <1>3, <1>4, <1>5 DEF Next

\* The tables as five sets.
Five(a, b, c, d, f) == [s \in Sections |->
    CASE s = Items -> a [] s = Snapshots -> b [] s = Refs -> c [] s = Objects -> d [] s = Tokens -> f]

LEMMA FiveParts ==
    ASSUME NEW a, NEW b, NEW c, NEW d, NEW f
    PROVE  /\ Five(a, b, c, d, f) = [s \in Sections |-> Five(a, b, c, d, f)[s]]
           /\ Five(a, b, c, d, f)[Items] = a /\ Five(a, b, c, d, f)[Snapshots] = b
           /\ Five(a, b, c, d, f)[Refs] = c /\ Five(a, b, c, d, f)[Objects] = d
           /\ Five(a, b, c, d, f)[Tokens] = f
BY SectionCases, Distinct DEF Five

LEMMA FiveIs ==
    ASSUME NEW R, R = [s \in Sections |-> R[s]]
    PROVE  R = Five(R[Items], R[Snapshots], R[Refs], R[Objects], R[Tokens])
<1>1. \A s \in Sections : R[s] = Five(R[Items], R[Snapshots], R[Refs], R[Objects], R[Tokens])[s]
    BY FiveParts, SectionCases
<1> QED
    BY <1>1 DEF Five

ItemRefs(i) == RefRows({i.ref} \ {0}, FALSE, i.key, i.at)
ItemTokens(i, f) == IF i.entry THEN f \cup {[key |-> i.key, at |-> i.at]} ELSE f
SnapshotRefs(sn, A, at) == RefRows(A, TRUE, sn.key, at)

LEMMA InsertItemFive ==
    ASSUME NEW a, NEW b, NEW c, NEW d, NEW f, NEW i
    PROVE  InsertItem(Five(a, b, c, d, f), i) =
               Five(a \cup {i}, b, c \cup ItemRefs(i), d, ItemTokens(i, f))
<1> DEFINE R == Five(a, b, c, d, f)
           x == a \cup {i}
           y == c \cup ItemRefs(i)
           z == ItemTokens(i, f)
           Q == InsertItem(R, i)
<1>1. R = [s \in Sections |-> R[s]] /\ R[Items] = a /\ R[Snapshots] = b /\ R[Refs] = c
      /\ R[Objects] = d /\ R[Tokens] = f
    BY FiveParts
<1> HIDE DEF R
<1>2. Q = [R EXCEPT ![Items] = x, ![Refs] = y, ![Tokens] = z]
    BY <1>1, InsertOne DEF ItemRefs, ItemTokens
<1> HIDE DEF Q, x, y, z
<1>3. Q = [s \in Sections |-> IF s = Tokens THEN z ELSE IF s = Refs THEN y ELSE
                              IF s = Items THEN x ELSE R[s]]
    BY <1>1, <1>2, RowsExcept, SectionCases
<1>4. Q = [s \in Sections |-> Q[s]] /\ Q[Items] = x /\ Q[Snapshots] = b /\ Q[Refs] = y
      /\ Q[Objects] = d /\ Q[Tokens] = z
    BY <1>1, <1>3, SectionCases, Distinct
<1>5. Q = Five(x, b, y, d, z)
    BY <1>4, FiveIs
<1> QED
    BY <1>5 DEF Q, R, x, y, z

LEMMA InsertObjectFive ==
    ASSUME NEW a, NEW b, NEW c, NEW d, NEW f, NEW o, NEW at
    PROVE  InsertObject(Five(a, b, c, d, f), o, at) = Five(a, b, c, d \cup {[key |-> o, at |-> at]}, f)
<1> DEFINE R == Five(a, b, c, d, f)
           x == d \cup {[key |-> o, at |-> at]}
           Q == InsertObject(R, o, at)
<1>1. R = [s \in Sections |-> R[s]] /\ R[Items] = a /\ R[Snapshots] = b /\ R[Refs] = c
      /\ R[Objects] = d /\ R[Tokens] = f
    BY FiveParts
<1> HIDE DEF R
<1>2. Q = [R EXCEPT ![Objects] = x]
    BY <1>1 DEF InsertObject
<1> HIDE DEF x, Q
<1>3. Q = [s \in Sections |-> IF s = Objects THEN x ELSE R[s]]
    BY <1>1, <1>2, RowsExcept, SectionCases
<1>4. Q = [s \in Sections |-> Q[s]] /\ Q[Items] = a /\ Q[Snapshots] = b /\ Q[Refs] = c
      /\ Q[Objects] = x /\ Q[Tokens] = f
    BY <1>1, <1>3, SectionCases, Distinct
<1>5. Q = Five(a, b, c, x, f)
    BY <1>4, FiveIs
<1> QED
    BY <1>5 DEF Q, R, x

LEMMA InsertSnapshotFive ==
    ASSUME NEW a, NEW b, NEW c, NEW d, NEW f, NEW sn, NEW A, NEW at
    PROVE  InsertSnapshot(Five(a, b, c, d, f), sn, A, at) =
               Five(a, b \cup {sn}, c \cup SnapshotRefs(sn, A, at), d, f)
<1> DEFINE R == Five(a, b, c, d, f)
           x == b \cup {sn}
           y == c \cup SnapshotRefs(sn, A, at)
           Q == InsertSnapshot(R, sn, A, at)
<1>1. R = [s \in Sections |-> R[s]] /\ R[Items] = a /\ R[Snapshots] = b /\ R[Refs] = c
      /\ R[Objects] = d /\ R[Tokens] = f
    BY FiveParts
<1> HIDE DEF R
<1>2. Q = [R EXCEPT ![Snapshots] = x, ![Refs] = y]
    BY <1>1 DEF InsertSnapshot, SnapshotRefs
<1> HIDE DEF Q, x, y
<1>3. Q = [s \in Sections |-> IF s = Refs THEN y ELSE IF s = Snapshots THEN x ELSE R[s]]
    BY <1>1, <1>2, RowsExcept, SectionCases
<1>4. Q = [s \in Sections |-> Q[s]] /\ Q[Items] = a /\ Q[Snapshots] = x /\ Q[Refs] = y
      /\ Q[Objects] = d /\ Q[Tokens] = f
    BY <1>1, <1>3, SectionCases, Distinct
<1>5. Q = Five(a, x, y, d, f)
    BY <1>4, FiveIs
<1> QED
    BY <1>5 DEF Q, R, x, y

\* The tables that the source begins with.
LEMMA FirstRowsFive ==
    ASSUME NEW e \in BOOLEAN
    PROVE  FirstRows(e) = Five(
               {[key |-> 1, entry |-> FALSE, ref |-> 0, at |-> 1],
                [key |-> 2, entry |-> TRUE, ref |-> 1, at |-> 3],
                [key |-> 3, entry |-> FALSE, ref |-> 0, at |-> 4]},
               {[key |-> 3, manifest |-> 1, endorsed |-> e]},
               {[key |-> 3 * (MaxObject + 1) + 1, address |-> 1, snapshot |-> FALSE, holder |-> 2],
                [key |-> 5 * (MaxObject + 1) + 1, address |-> 1, snapshot |-> TRUE, holder |-> 3]},
               {[key |-> 1, at |-> 2]},
               {[key |-> 2, at |-> 3]})
<1> DEFINE i1 == [key |-> 1, entry |-> FALSE, ref |-> 0, at |-> 1]
           i2 == [key |-> 2, entry |-> TRUE, ref |-> 1, at |-> 3]
           i3 == [key |-> 3, entry |-> FALSE, ref |-> 0, at |-> 4]
           sn == [key |-> 3, manifest |-> 1, endorsed |-> e]
           f1 == [key |-> 3 * (MaxObject + 1) + 1, address |-> 1, snapshot |-> FALSE, holder |-> 2]
           f2 == [key |-> 5 * (MaxObject + 1) + 1, address |-> 1, snapshot |-> TRUE, holder |-> 3]
           ob == [key |-> 1, at |-> 2]
           tk == [key |-> 2, at |-> 3]
           genesis == InsertItem(Blank, i1)
           object == InsertObject(genesis, 1, 2)
           entry == InsertItem(object, i2)
           control == InsertItem(entry, i3)
<1>1. FirstRows(e) = InsertSnapshot(control, sn, {1}, 5)
    BY Zenon DEF FirstRows
<1>2. Blank = Five({}, {}, {}, {}, {})
    BY SectionCases, Distinct DEF Blank, Five
<1>3. /\ i1.ref = 0 /\ i1.entry = FALSE
      /\ i2.ref = 1 /\ i2.entry = TRUE /\ i2.key = 2 /\ i2.at = 3
      /\ i3.ref = 0 /\ i3.entry = FALSE /\ sn.key = 3
    OBVIOUS
<1>4. /\ {0} \ {0} = {} /\ {1} \ {0} = {1}
      /\ \A b, h, at : RefRows({}, b, h, at) = {}
    BY DEF RefRows
<1>5. RefRows({1}, FALSE, 2, 3) = {f1} /\ RefRows({1}, TRUE, 3, 5) = {f2}
    BY Zenon DEF RefRows
<1> HIDE DEF i1, i2, i3, sn, f1, f2
<1> DEFINE none == {}
           a1 == {i1}
           a2 == {i1, i2}
           a3 == {i1, i2, i3}
           b1 == {sn}
           c1 == {f1}
           c2 == {f1, f2}
           d1 == {ob}
           t1 == {tk}
<1>6. /\ a1 = none \cup {i1} /\ a2 = a1 \cup {i2} /\ a3 = a2 \cup {i3} /\ b1 = none \cup {sn}
      /\ c2 = c1 \cup {f2} /\ d1 = none \cup {ob} /\ t1 = none \cup {tk}
    OBVIOUS
<1>7. /\ none = none \cup ItemRefs(i1)
      /\ c1 = none \cup ItemRefs(i2)
      /\ c1 = c1 \cup ItemRefs(i3)
      /\ c2 = c1 \cup SnapshotRefs(sn, {1}, 5)
    <2>1. ItemRefs(i2) = {f1} /\ SnapshotRefs(sn, {1}, 5) = {f2}
        BY <1>3, <1>4, <1>5 DEF ItemRefs, SnapshotRefs
    <2>2. ItemRefs(i1) = {} /\ ItemRefs(i3) = {}
        BY <1>3, <1>4 DEF ItemRefs
    <2> QED
        BY <1>6, <2>1, <2>2
<1>8. /\ none = ItemTokens(i1, none)
      /\ t1 = ItemTokens(i2, none)
      /\ t1 = ItemTokens(i3, t1)
    <2>1. [key |-> i2.key, at |-> i2.at] = tk
        BY <1>3
    <2> HIDE DEF none, t1
    <2> QED
        BY <1>3, <1>6, <2>1 DEF ItemTokens
<1>9. object = InsertObject(genesis, 1, 2) /\ ob = [key |-> 1, at |-> 2]
    OBVIOUS
<1> HIDE DEF none, a1, a2, a3, b1, c1, c2, d1, t1, ob, tk
<1>10. genesis = Five(a1, none, none, none, none)
    <2>1. Blank = Five(none, none, none, none, none)
        BY <1>2 DEF none
    <2>2. genesis = Five(none \cup {i1}, none, none \cup ItemRefs(i1), none, ItemTokens(i1, none))
        BY <2>1, InsertItemFive
    <2> QED
        BY <1>6, <1>7, <1>8, <2>2
<1> HIDE DEF genesis
<1>11. object = Five(a1, none, none, d1, none)
    <2>1. object = Five(a1, none, none, none \cup {[key |-> 1, at |-> 2]}, none)
        BY <1>9, <1>10, InsertObjectFive
    <2> QED
        BY <1>6, <1>9, <2>1
<1> HIDE DEF object
<1>12. entry = Five(a2, none, c1, d1, t1)
    <2>1. entry = Five(a1 \cup {i2}, none, none \cup ItemRefs(i2), d1, ItemTokens(i2, none))
        BY <1>11, InsertItemFive
    <2> QED
        BY <1>6, <1>7, <1>8, <2>1
<1> HIDE DEF entry
<1>13. control = Five(a3, none, c1, d1, t1)
    <2>1. control = Five(a2 \cup {i3}, none, c1 \cup ItemRefs(i3), d1, ItemTokens(i3, t1))
        BY <1>12, InsertItemFive
    <2> QED
        BY <1>6, <1>7, <1>8, <2>1
<1> HIDE DEF control
<1>14. FirstRows(e) = Five(a3, b1, c2, d1, t1)
    <2>1. FirstRows(e) = Five(a3, none \cup {sn}, c1 \cup SnapshotRefs(sn, {1}, 5), d1, t1)
        BY <1>1, <1>13, InsertSnapshotFive
    <2> QED
        BY <1>6, <1>7, <2>1
<1> QED
    BY <1>14 DEF a3, b1, c2, d1, t1, i1, i2, i3, sn, f1, f2, ob, tk

LEMMA ThreeFinite ==
    ASSUME NEW a, NEW b, NEW c
    PROVE  IsFiniteSet({a, b}) /\ IsFiniteSet({a, b, c})
<1>1. IsFiniteSet({a})
    BY FS_Singleton
<1>2. IsFiniteSet({a} \cup {b})
    BY <1>1, FS_AddElement
<1>3. IsFiniteSet(({a} \cup {b}) \cup {c})
    BY <1>2, FS_AddElement
<1>4. {a} \cup {b} = {a, b} /\ ({a} \cup {b}) \cup {c} = {a, b, c}
    OBVIOUS
<1> QED
    BY <1>2, <1>3, <1>4

LEMMA InitBackup ==
    ASSUME Init
    PROVE  IndBackup
<1>1. PICK e \in BOOLEAN :
           src = [head |-> 3, retained_from |-> 1, used_bytes |-> 4,
                  settings |-> CHOOSE q \in Settings : TRUE, rows |-> FirstRows(e)]
    BY DEF Init
<1>2. ops = 5 /\ cut = NoCut /\ archive = NoArchive
    BY DEF Init, FirstOps
<1> DEFINE I == {[key |-> 1, entry |-> FALSE, ref |-> 0, at |-> 1],
                 [key |-> 2, entry |-> TRUE, ref |-> 1, at |-> 3],
                 [key |-> 3, entry |-> FALSE, ref |-> 0, at |-> 4]}
           S == {[key |-> 3, manifest |-> 1, endorsed |-> e]}
           F == {[key |-> 3 * (MaxObject + 1) + 1, address |-> 1, snapshot |-> FALSE, holder |-> 2],
                 [key |-> 5 * (MaxObject + 1) + 1, address |-> 1, snapshot |-> TRUE, holder |-> 3]}
           O == {[key |-> 1, at |-> 2]}
           T == {[key |-> 2, at |-> 3]}
           R == FirstRows(e)
<1>3. R = [s \in Sections |-> R[s]] /\ R[Items] = I /\ R[Snapshots] = S /\ R[Refs] = F
      /\ R[Objects] = O /\ R[Tokens] = T
    <2>1. R = Five(I, S, F, O, T)
        BY FirstRowsFive
    <2> HIDE DEF R, I, S, F, O, T
    <2> QED
        BY <2>1, FiveParts
<1>4. src \in LogsWith(3, R) /\ src.head = 3
    <2> DEFINE st == CHOOSE q \in Settings : TRUE
    <2>1. st \in Settings
        BY BackupAssumption
    <2> HIDE DEF R, st
    <2>2. src = [head |-> 3, retained_from |-> 1, used_bytes |-> 4, settings |-> st, rows |-> R]
        BY <1>1 DEF st, R
    <2> QED
        BY <2>1, <2>2 DEF LogsWith
<1> HIDE DEF R
<1>5. MaxObject \in Nat \ {0}
    BY BackupAssumption
<1>6. /\ I \subseteq ItemRows /\ S \subseteq SnapshotRows /\ O \subseteq TimedRows
      /\ T \subseteq TimedRows
    BY <1>5 DEF ItemRows, SnapshotRows, TimedRows
<1>7. F \subseteq RefRowSet
    <2>1. 3 * (MaxObject + 1) + 1 \in Nat \ {0} /\ 5 * (MaxObject + 1) + 1 \in Nat \ {0}
          /\ 1 \in 1..MaxObject
        BY <1>5
    <2> QED
        BY <2>1 DEF RefRowSet
<1>8. Keyed(S) /\ Keyed(O) /\ Keyed(T)
    <2>1. IsFiniteSet(S) /\ IsFiniteSet(O) /\ IsFiniteSet(T)
        BY FS_Singleton
    <2> QED
        BY <2>1 DEF Keyed
<1>9. Keyed(I)
    <2>1. IsFiniteSet(I)
        BY ThreeFinite
    <2> QED
        BY <2>1 DEF Keyed
<1>10. Keyed(F)
    <2>1. IsFiniteSet(F)
        BY ThreeFinite
    <2>2. 3 * (MaxObject + 1) + 1 # 5 * (MaxObject + 1) + 1
        BY <1>5
    <2>3. \A r \in F : r.key \in Nat \ {0}
        BY <1>7 DEF RefRowSet
    <2> QED
        BY <2>1, <2>2, <2>3 DEF Keyed
<1>11. /\ \A r \in I : r.key <= 3
       /\ \A r \in S : r.key <= 3
       /\ \A r \in T : r.key <= 3
       /\ \A r \in F : r.holder <= 3 /\ r.key < (5 + 1) * (MaxObject + 1)
    <2>1. 3 * (MaxObject + 1) + 1 < (5 + 1) * (MaxObject + 1)
          /\ 5 * (MaxObject + 1) + 1 < (5 + 1) * (MaxObject + 1)
        BY <1>5
    <2> QED
        BY <2>1
<1> HIDE DEF I, S, F, O, T
<1>12. WellFormed(src, 5)
    BY <1>3, <1>4, <1>6, <1>7, <1>8, <1>9, <1>10, <1>11, FromTables
<1>13. /\ NoArchive \in [session : Nat, log : Logs, pages : Seq(Pages), complete : BOOLEAN]
       /\ NoArchive.log = NewLog /\ NoArchive.complete = FALSE /\ NoArchive.session = 0
    <2>1. NewLog \in Logs
        BY NewLogWellFormed DEF WellFormed
    <2> QED
        BY <2>1 DEF NoArchive
<1>14. BackupTypeOK
    <2>1. \E now \in Nat : WellFormed(archive.log, now)
        BY <1>2, <1>13, NewLogWellFormed
    <2> QED
        BY <1>2, <1>12, <1>13, <2>1, NoCutType DEF BackupTypeOK
<1>15. CutHolds /\ CutMatches
    BY <1>2, NoCutType DEF CutHolds, CutMatches, Calling
<1> QED
    BY <1>2, <1>4, <1>13, <1>14, <1>15, NoCutType DEF IndBackup

\* The pages of a finished backup are the log as it was when the backup began, whatever was
\* written in between and whichever replies were lost (backup_guard, backup_begin, backup_page).
THEOREM ArchiveAlwaysCut == Spec => []ArchiveIsCut
<1>1. IndBackup => ArchiveIsCut
    BY DEF IndBackup, CutHolds, ArchiveIsCut
<1> QED
    BY <1>1, InitBackup, NextBackup, PTL DEF Spec

-----------------------------------------------------------------------------
(***************************************************************************)
(* The restored log is the cut.                                            *)
(***************************************************************************)
\* The tables of a log, section by section.
IsTable(R) == R = [s \in Sections |-> R[s]]

\* The references are those of the items, and of snapshots that are there.
RefsLinked(R) ==
    /\ \A r \in R[Refs] :
           /\ r.snapshot \in BOOLEAN
           /\ r.snapshot => \E x \in R[Snapshots] : x.key = r.holder
           /\ ~r.snapshot => \E i \in R[Items] :
                  i.key = r.holder /\ i.ref = r.address /\ i.ref # 0
    /\ \A i \in R[Items] : i.ref # 0 =>
           \E r \in R[Refs] : ~r.snapshot /\ r.holder = i.key /\ r.address = i.ref

IndLinked == RefsLinked(src.rows) /\ RefsLinked(archive.log.rows)

\* A log and its tables, as records.
LogShape(l) ==
    /\ l \in [head : {l.head}, retained_from : {l.retained_from}, used_bytes : {l.used_bytes},
              settings : {l.settings}, rows : {l.rows}]
    /\ IsTable(l.rows)

AuxShape(d) ==
    /\ d \in [status : {d.status}, log : {d.log}, aux : {d.aux}, timed : {d.timed}]
    /\ d.aux \in [begun : {d.aux.begun}, page : {d.aux.page}, done : {d.aux.done}]
    /\ d.aux.begun \in BOOLEAN /\ d.aux.page \in Nat /\ d.aux.done \in BOOLEAN

\* The rows of an auxiliary page have their archived times.
TimesRight(R, page) ==
    page.section \in {Items, Objects} =>
        {r \in R[page.section] : Bare(page.section, r) \in BareRows(page.section, page.rows)}
            = page.rows

Restored(d) ==
    /\ [d.log EXCEPT !.rows = Blank] = [archive.log EXCEPT !.rows = Blank]
    /\ \A s \in Sections \ {Tokens} :
           BareRows(s, d.log.rows[s]) = BareRows(s, archive.log.rows[s])
    /\ d.timed => \A s \in {Items, Objects, Tokens} : d.log.rows[s] = archive.log.rows[s]

\* A target, or one that waits to be published.  The auxiliary pages start when the accounting
\* is that of the plan, and from then on nothing is inserted.
Target(d) ==
    /\ LogShape(d.log) /\ AuxShape(d)
    /\ RefsLinked(d.log.rows)
    /\ d.status = "absent" => d = Absent
    /\ d.status # "absent" => d.log.settings = archive.log.settings
    /\ d.aux.page # 0 =>
           /\ d.aux.begun
           /\ d.log.head = archive.log.head /\ d.log.used_bytes = archive.log.used_bytes
    /\ \A q \in 1..d.aux.page :
           q <= Len(archive.pages) /\ TimesRight(d.log.rows, archive.pages[q])
    /\ d.aux.done => d.aux.page = Len(archive.pages) /\ d.aux.page # 0
                     /\ d.log.rows[Tokens] = Archived(Tokens)
    /\ d.status = "live" => Restored(d)

IndRestore ==
    /\ ~archive.complete => dst = Absent /\ writer = None /\ uploads = {}
    /\ Target(dst)
    /\ writer # None => Target(writer) /\ writer.status # "absent"
    /\ uploads # {} => dst.status # "absent"

\* What a page of items adds to the tables.
PageRefs(X) == UNION {RefRows({i.ref} \ {0}, FALSE, i.key, i.at) : i \in X}
PageTokens(X) == {[key |-> i.key, at |-> i.at] : i \in {j \in X : j.entry}}

LEMMA InsertItemsRows ==
    ASSUME NEW R, IsTable(R), NEW X
    PROVE  /\ IsTable(InsertItems(R, X))
           /\ InsertItems(R, X)[Items] = R[Items] \cup X
           /\ InsertItems(R, X)[Refs] = R[Refs] \cup PageRefs(X)
           /\ InsertItems(R, X)[Tokens] = R[Tokens] \cup PageTokens(X)
           /\ InsertItems(R, X)[Snapshots] = R[Snapshots]
           /\ InsertItems(R, X)[Objects] = R[Objects]
<1> DEFINE x == R[Items] \cup X
           y == R[Refs] \cup PageRefs(X)
           z == R[Tokens] \cup PageTokens(X)
           Q == InsertItems(R, X)
<1>1. Q = [R EXCEPT ![Items] = x, ![Refs] = y, ![Tokens] = z]
    BY DEF InsertItems, PageRefs, PageTokens
<1> HIDE DEF x, y, z, Q
<1>2. Q = [s \in Sections |-> IF s = Tokens THEN z ELSE IF s = Refs THEN y ELSE
                              IF s = Items THEN x ELSE R[s]]
    BY <1>1, RowsExcept, SectionCases DEF IsTable
<1>3. IsTable(Q) /\ Q[Items] = x /\ Q[Refs] = y /\ Q[Tokens] = z
      /\ Q[Snapshots] = R[Snapshots] /\ Q[Objects] = R[Objects]
    BY <1>2, SectionCases, Distinct DEF IsTable
<1> QED
    BY <1>3, Zenon DEF x, y, z, Q

\* Nothing, if the page is empty.
LEMMA InsertNone ==
    ASSUME NEW R, IsTable(R)
    PROVE  InsertItems(R, {}) = R
<1> DEFINE Q == InsertItems(R, {})
<1>1. PageRefs({}) = {} /\ PageTokens({}) = {}
    BY DEF PageRefs, PageTokens
<1>2. /\ IsTable(Q) /\ Q[Items] = R[Items] \cup {} /\ Q[Refs] = R[Refs] \cup PageRefs({})
      /\ Q[Tokens] = R[Tokens] \cup PageTokens({})
      /\ Q[Snapshots] = R[Snapshots] /\ Q[Objects] = R[Objects]
    BY InsertItemsRows
<1> HIDE DEF Q
<1>3. \A s \in Sections : Q[s] = R[s]
    BY <1>1, <1>2, SectionCases
<1>4. Q = R
    BY <1>2, <1>3 DEF IsTable
<1> QED
    BY <1>4 DEF Q

LEMMA LinkedItems ==
    ASSUME NEW R, IsTable(R), RefsLinked(R), NEW X
    PROVE  RefsLinked(InsertItems(R, X))
<1> DEFINE Q == InsertItems(R, X)
           new == PageRefs(X)
<1>1. Q[Items] = R[Items] \cup X /\ Q[Refs] = R[Refs] \cup new /\ Q[Snapshots] = R[Snapshots]
    BY InsertItemsRows
<1>2. \A r \in new : /\ r.snapshot = FALSE
                     /\ \E i \in X : i.key = r.holder /\ i.ref = r.address /\ i.ref # 0
    BY DEF RefRows, PageRefs
<1>3. ASSUME NEW i \in X, i.ref # 0
      PROVE  \E r \in new : ~r.snapshot /\ r.holder = i.key /\ r.address = i.ref
    <2> DEFINE r == [key |-> i.at * (MaxObject + 1) + i.ref, address |-> i.ref, snapshot |-> FALSE,
                     holder |-> i.key]
    <2>1. r \in RefRows({i.ref} \ {0}, FALSE, i.key, i.at)
        BY <1>3 DEF RefRows
    <2>2. r \in new
        BY <2>1 DEF PageRefs
    <2>3. r.snapshot = FALSE /\ r.holder = i.key /\ r.address = i.ref
        OBVIOUS
    <2> HIDE DEF r, new
    <2> QED
        BY <2>2, <2>3
<1> HIDE DEF Q, new
<1>4. RefsLinked(Q)
    <2>1. ASSUME NEW r \in Q[Refs]
          PROVE  /\ r.snapshot \in BOOLEAN
                 /\ r.snapshot => \E x \in Q[Snapshots] : x.key = r.holder
                 /\ ~r.snapshot => \E i \in Q[Items] :
                        i.key = r.holder /\ i.ref = r.address /\ i.ref # 0
        <3>1. CASE r \in R[Refs]
            BY <1>1, <3>1 DEF RefsLinked
        <3>2. CASE r \in new
            BY <1>1, <1>2, <3>2
        <3> QED
            BY <1>1, <3>1, <3>2
    <2>2. ASSUME NEW i \in Q[Items], i.ref # 0
          PROVE  \E r \in Q[Refs] : ~r.snapshot /\ r.holder = i.key /\ r.address = i.ref
        <3>1. CASE i \in R[Items]
            BY <1>1, <2>2, <3>1 DEF RefsLinked
        <3>2. CASE i \in X
            BY <1>1, <1>3, <2>2, <3>2
        <3> QED
            BY <1>1, <3>1, <3>2
    <2> QED
        BY <2>1, <2>2, Zenon DEF RefsLinked
<1> QED
    BY <1>4 DEF Q

\* What a snapshot adds.
LEMMA InsertSnapshotRows ==
    ASSUME NEW R, IsTable(R), NEW x, NEW A, NEW at
    PROVE  /\ IsTable(InsertSnapshot(R, x, A, at))
           /\ InsertSnapshot(R, x, A, at)[Items] = R[Items]
           /\ InsertSnapshot(R, x, A, at)[Snapshots] = R[Snapshots] \cup {x}
           /\ InsertSnapshot(R, x, A, at)[Refs] = R[Refs] \cup SnapshotRefs(x, A, at)
           /\ InsertSnapshot(R, x, A, at)[Objects] = R[Objects]
           /\ InsertSnapshot(R, x, A, at)[Tokens] = R[Tokens]
<1> DEFINE y == R[Snapshots] \cup {x}
           z == R[Refs] \cup SnapshotRefs(x, A, at)
           Q == InsertSnapshot(R, x, A, at)
<1>1. Q = [R EXCEPT ![Snapshots] = y, ![Refs] = z]
    BY DEF InsertSnapshot, SnapshotRefs
<1> HIDE DEF y, z, Q
<1>2. Q = [s \in Sections |-> IF s = Refs THEN z ELSE IF s = Snapshots THEN y ELSE R[s]]
    BY <1>1, RowsExcept, SectionCases DEF IsTable
<1>3. IsTable(Q) /\ Q[Items] = R[Items] /\ Q[Snapshots] = y /\ Q[Refs] = z
      /\ Q[Objects] = R[Objects] /\ Q[Tokens] = R[Tokens]
    BY <1>2, SectionCases, Distinct DEF IsTable
<1> QED
    BY <1>3 DEF y, z, Q

LEMMA LinkedSnapshot ==
    ASSUME NEW R, IsTable(R), RefsLinked(R), NEW x, NEW A, NEW at
    PROVE  RefsLinked(InsertSnapshot(R, x, A, at))
<1> DEFINE Q == InsertSnapshot(R, x, A, at)
           new == SnapshotRefs(x, A, at)
<1>1. Q[Items] = R[Items] /\ Q[Refs] = R[Refs] \cup new /\ Q[Snapshots] = R[Snapshots] \cup {x}
    BY InsertSnapshotRows
<1>2. \A r \in new : r.snapshot = TRUE /\ r.holder = x.key
    BY DEF RefRows, SnapshotRefs
<1> HIDE DEF Q, new
<1>3. RefsLinked(Q)
    <2>1. ASSUME NEW r \in Q[Refs]
          PROVE  /\ r.snapshot \in BOOLEAN
                 /\ r.snapshot => \E y \in Q[Snapshots] : y.key = r.holder
                 /\ ~r.snapshot => \E i \in Q[Items] :
                        i.key = r.holder /\ i.ref = r.address /\ i.ref # 0
        <3>1. CASE r \in R[Refs]
            BY <1>1, <3>1 DEF RefsLinked
        <3>2. CASE r \in new
            BY <1>1, <1>2, <3>2
        <3> QED
            BY <1>1, <3>1, <3>2
    <2>2. ASSUME NEW i \in Q[Items], i.ref # 0
          PROVE  \E r \in Q[Refs] : ~r.snapshot /\ r.holder = i.key /\ r.address = i.ref
        BY <1>1, <2>2 DEF RefsLinked
    <2> QED
        BY <2>1, <2>2, Zenon DEF RefsLinked
<1> QED
    BY <1>3 DEF Q

\* What an object adds.
LEMMA InsertObjectRows ==
    ASSUME NEW R, IsTable(R), NEW a, NEW at
    PROVE  /\ IsTable(InsertObject(R, a, at))
           /\ \A s \in Sections \ {Objects} : InsertObject(R, a, at)[s] = R[s]
<1> DEFINE y == R[Objects] \cup {[key |-> a, at |-> at]}
           Q == InsertObject(R, a, at)
<1>1. Q = [R EXCEPT ![Objects] = y]
    BY DEF InsertObject
<1> HIDE DEF y, Q
<1>2. Q = [s \in Sections |-> IF s = Objects THEN y ELSE R[s]]
    BY <1>1, RowsExcept, SectionCases DEF IsTable
<1>3. IsTable(Q) /\ \A s \in Sections \ {Objects} : Q[s] = R[s]
    BY <1>2 DEF IsTable
<1> QED
    BY <1>3 DEF Q

\* References, items and snapshots are all that matters.
LEMMA LinkedSame ==
    ASSUME NEW R, RefsLinked(R), NEW Q,
           Q[Items] = R[Items], Q[Refs] = R[Refs], Q[Snapshots] = R[Snapshots]
    PROVE  RefsLinked(Q)
BY DEF RefsLinked

\* Every write to the source keeps its references linked.
LEMMA LinkedSource ==
    ASSUME BackupTypeOK, RefsLinked(src.rows), SourceStep
    PROVE  RefsLinked(src'.rows) /\ archive' = archive
<1>1. /\ WellFormed(src, ops) /\ src \in Logs /\ IsTable(src.rows)
      /\ DOMAIN src.rows = Sections
    BY LogParts DEF BackupTypeOK, IsTable
<1>2. ASSUME NEW entry \in BOOLEAN, NEW ref \in 0..MaxObject, Append1(entry, ref)
      PROVE  RefsLinked(src'.rows) /\ archive' = archive
    <2> DEFINE i == [key |-> src.head + 1, entry |-> entry, ref |-> ref, at |-> ops + 1]
               X == {i}
               Q == InsertItems(src.rows, X)
    <2>1. src' = [src EXCEPT !.head = @ + 1, !.used_bytes = @ + 1, !.rows = Q] /\ archive' = archive
        BY <1>2 DEF Append1, Write, InsertItem
    <2> HIDE DEF X, Q
    <2>2. src'.rows = Q
        BY <1>1, <2>1 DEF Logs
    <2>3. RefsLinked(Q)
        BY <1>1, LinkedItems DEF Q
    <2> QED
        BY <2>1, <2>2, <2>3
<1>3. ASSUME NEW a \in 1..MaxObject, PutObject(a)
      PROVE  RefsLinked(src'.rows) /\ archive' = archive
    <2> DEFINE Q == InsertObject(src.rows, a, ops + 1)
    <2>1. src' = [src EXCEPT !.used_bytes = @ + 1, !.rows = Q] /\ archive' = archive
        BY <1>3 DEF PutObject, Write
    <2>2. \A s \in Sections \ {Objects} : Q[s] = src.rows[s]
        BY <1>1, InsertObjectRows
    <2> HIDE DEF Q
    <2>3. src'.rows = Q
        BY <1>1, <2>1 DEF Logs
    <2>4. Q[Items] = src.rows[Items] /\ Q[Refs] = src.rows[Refs] /\ Q[Snapshots] = src.rows[Snapshots]
        BY <2>2, SectionCases, Distinct
    <2>5. RefsLinked(Q)
        BY <2>4, LinkedSame
    <2> QED
        BY <2>1, <2>3, <2>5
<1>4. ASSUME NEW a \in 1..MaxObject, Gc(a)
      PROVE  RefsLinked(src'.rows) /\ archive' = archive
    <2> DEFINE O == {o \in src.rows[Objects] : o.key # a}
               Q == [src.rows EXCEPT ![Objects] = O]
    <2>1. src' = [src EXCEPT !.used_bytes = @ - 1, !.rows = Q] /\ archive' = archive
        BY <1>4 DEF Gc, Write
    <2> HIDE DEF O
    <2>2. Q[Items] = src.rows[Items] /\ Q[Refs] = src.rows[Refs] /\ Q[Snapshots] = src.rows[Snapshots]
        BY <1>1, SectionCases, Distinct
    <2> HIDE DEF Q
    <2>3. src'.rows = Q
        BY <1>1, <2>1 DEF Logs
    <2>4. RefsLinked(Q)
        BY <2>2, LinkedSame
    <2> QED
        BY <2>1, <2>3, <2>4
<1>5. ASSUME NEW q \in Settings, SetQuota(q)
      PROVE  RefsLinked(src'.rows) /\ archive' = archive
    <2>1. src' = [src EXCEPT !.settings = q] /\ archive' = archive
        BY <1>5 DEF SetQuota, Write
    <2>2. src'.rows = src.rows
        BY <1>1, <2>1 DEF Logs
    <2> QED
        BY <2>1, <2>2
<1>6. ASSUME NEW x \in src.rows[Snapshots], EndorseSnapshot(x)
      PROVE  RefsLinked(src'.rows) /\ archive' = archive
    <2> DEFINE e == [x EXCEPT !.endorsed = TRUE]
               S == (src.rows[Snapshots] \ {x}) \cup {e}
               Q == [src.rows EXCEPT ![Snapshots] = S]
    <2>1. src' = [src EXCEPT !.rows = Q] /\ archive' = archive
        BY <1>6 DEF EndorseSnapshot, Write
    <2>2. e.key = x.key
        <3>1. x \in SnapshotRows
            BY <1>1, <1>6, Tables
        <3> QED
            BY <3>1 DEF SnapshotRows
    <2>3. \A h : (\E y \in src.rows[Snapshots] : y.key = h) => \E y \in S : y.key = h
        <3> HIDE DEF e
        <3> QED
            BY <2>2
    <2> HIDE DEF S
    <2>4. Q[Items] = src.rows[Items] /\ Q[Refs] = src.rows[Refs] /\ Q[Snapshots] = S
        BY <1>1, SectionCases, Distinct
    <2> HIDE DEF Q
    <2>5. src'.rows = Q
        BY <1>1, <2>1 DEF Logs
    <2>6. RefsLinked(Q)
        <3>1. ASSUME NEW r \in Q[Refs]
              PROVE  /\ r.snapshot \in BOOLEAN
                     /\ r.snapshot => \E y \in Q[Snapshots] : y.key = r.holder
                     /\ ~r.snapshot => \E i \in Q[Items] :
                            i.key = r.holder /\ i.ref = r.address /\ i.ref # 0
            BY <2>3, <2>4 DEF RefsLinked
        <3>2. ASSUME NEW i \in Q[Items], i.ref # 0
              PROVE  \E r \in Q[Refs] : ~r.snapshot /\ r.holder = i.key /\ r.address = i.ref
            BY <2>4, <3>2 DEF RefsLinked
        <3> QED
            BY <3>1, <3>2, Zenon DEF RefsLinked
    <2> QED
        BY <2>1, <2>5, <2>6
<1>7. ASSUME NEW c \in 1..src.head, NEW expired \in BOOLEAN, Compact(c, expired)
      PROVE  RefsLinked(src'.rows) /\ archive' = archive
    <2> DEFINE gone == {i \in src.rows[Items] : i.entry /\ i.key <= c}
               keys == {i.key : i \in gone}
               I == src.rows[Items] \ gone
               F == {r \in src.rows[Refs] : r.snapshot \/ r.holder \notin keys}
               T == {t \in src.rows[Tokens] : ~expired \/ t.key \in {i.key : i \in I}}
               Q == [src.rows EXCEPT ![Items] = I, ![Refs] = F, ![Tokens] = T]
    <2>1. src' = [src EXCEPT !.retained_from = c + 1, !.used_bytes = @ - Cardinality(gone), !.rows = Q]
          /\ archive' = archive
        <3>1. src' = [src EXCEPT
                    !.retained_from = c + 1,
                    !.used_bytes = @ - Cardinality(gone),
                    !.rows[Items] = @ \ gone,
                    !.rows[Refs] = {r \in @ : r.snapshot \/ r.holder \notin keys},
                    !.rows[Tokens] = {t \in @ : ~expired \/ t.key \in
                                          {i.key : i \in src.rows[Items] \ gone}}]
              /\ archive' = archive
            BY <1>7, Zenon DEF Compact, Write
        <3> HIDE DEF gone, keys
        <3> QED
            BY <1>1, <3>1, Distinct DEF Logs
    <2>2. \A i, j \in src.rows[Items] : i.key = j.key => i = j
        BY <1>1, Tables, SectionCases DEF Keyed
    <2>3. \A i \in src.rows[Items] : i \in I <=> i.key \notin keys
        BY <2>2
    <2>4. F \subseteq src.rows[Refs] /\ \A r \in src.rows[Refs] : r \in F <=> r.snapshot \/ r.holder \notin keys
        OBVIOUS
    <2>5. I \subseteq src.rows[Items]
        OBVIOUS
    <2> HIDE DEF gone, keys, I, F, T
    <2>6. Q[Items] = I /\ Q[Refs] = F /\ Q[Snapshots] = src.rows[Snapshots]
        BY <1>1, SectionCases, Distinct
    <2> HIDE DEF Q
    <2>7. src'.rows = Q
        BY <1>1, <2>1 DEF Logs
    <2>8. RefsLinked(Q)
        <3>1. ASSUME NEW r \in Q[Refs]
              PROVE  /\ r.snapshot \in BOOLEAN
                     /\ r.snapshot => \E y \in Q[Snapshots] : y.key = r.holder
                     /\ ~r.snapshot => \E i \in Q[Items] :
                            i.key = r.holder /\ i.ref = r.address /\ i.ref # 0
            BY <2>3, <2>4, <2>6 DEF RefsLinked
        <3>2. ASSUME NEW i \in Q[Items], i.ref # 0
              PROVE  \E r \in Q[Refs] : ~r.snapshot /\ r.holder = i.key /\ r.address = i.ref
            <4>1. i \in src.rows[Items] /\ i.key \notin keys
                BY <2>3, <2>5, <2>6
            <4>2. PICK r \in src.rows[Refs] : ~r.snapshot /\ r.holder = i.key /\ r.address = i.ref
                BY <3>2, <4>1 DEF RefsLinked
            <4> QED
                BY <2>4, <2>6, <4>1, <4>2
        <3> QED
            BY <3>1, <3>2, Zenon DEF RefsLinked
    <2> QED
        BY <2>1, <2>7, <2>8
<1>8. ASSUME NEW m \in 1..MaxObject, PutSnapshot(m)
      PROVE  RefsLinked(src'.rows) /\ archive' = archive
    <2> DEFINE x == [key |-> src.head, manifest |-> m, endorsed |-> FALSE]
               all == InsertSnapshot(src.rows, x, {m}, ops + 1)
               dropped == {y \in all[Snapshots] :
                               Cardinality({z \in all[Snapshots] : z.key >= y.key}) > 2}
               keys == {y.key : y \in dropped}
               S == all[Snapshots] \ dropped
               F == {r \in all[Refs] : ~(r.snapshot /\ r.holder \in keys)}
               Q == [all EXCEPT ![Snapshots] = S, ![Refs] = F]
    <2>1. src' = [src EXCEPT !.rows = Q] /\ archive' = archive
        BY <1>8, Zenon DEF PutSnapshot, Write
    <2>2. IsTable(all) /\ RefsLinked(all)
        <3> HIDE DEF x
        <3> QED
            BY <1>1, InsertSnapshotRows, LinkedSnapshot, Zenon
    <2> HIDE DEF all
    <2>3. \A y \in all[Snapshots] : y.key \notin keys => y \in S
        OBVIOUS
    <2>4. F \subseteq all[Refs] /\ \A r \in all[Refs] : r \in F <=> ~(r.snapshot /\ r.holder \in keys)
        OBVIOUS
    <2> HIDE DEF dropped, keys, S, F
    <2>5. Q[Items] = all[Items] /\ Q[Refs] = F /\ Q[Snapshots] = S
        BY <2>2, SectionCases, Distinct DEF IsTable
    <2> HIDE DEF Q
    <2>6. src'.rows = Q
        BY <1>1, <2>1 DEF Logs
    <2>7. RefsLinked(Q)
        <3>1. ASSUME NEW r \in Q[Refs]
              PROVE  /\ r.snapshot \in BOOLEAN
                     /\ r.snapshot => \E y \in Q[Snapshots] : y.key = r.holder
                     /\ ~r.snapshot => \E i \in Q[Items] :
                            i.key = r.holder /\ i.ref = r.address /\ i.ref # 0
            BY <2>2, <2>3, <2>4, <2>5 DEF RefsLinked
        <3>2. ASSUME NEW i \in Q[Items], i.ref # 0
              PROVE  \E r \in Q[Refs] : ~r.snapshot /\ r.holder = i.key /\ r.address = i.ref
            BY <2>2, <2>4, <2>5, <3>2 DEF RefsLinked
        <3> QED
            BY <3>1, <3>2, Zenon DEF RefsLinked
    <2> QED
        BY <2>1, <2>6, <2>7
<1> QED
    BY <1>2, <1>3, <1>4, <1>5, <1>6, <1>7, <1>8 DEF SourceStep

LEMMA NextLinked ==
    ASSUME IndBackup, IndLinked, [Next]_vars
    PROVE  IndLinked'
<1>1. BackupTypeOK
    BY DEF IndBackup
<1>2. RefsLinked(src.rows) /\ RefsLinked(archive.log.rows)
    BY DEF IndLinked
<1>3. SUFFICES RefsLinked(src'.rows) /\ RefsLinked(archive'.log.rows)
    BY Zenon DEF IndLinked, RefsLinked
<1>4. CASE SourceStep
    BY <1>1, <1>2, <1>4, LinkedSource
<1>5. RefsLinked(Blank)
    BY SectionCases DEF Blank, RefsLinked
<1>6. CASE LoseSource
    BY <1>2, <1>5, <1>6 DEF LoseSource, NewLog
<1>7. CASE src' = src /\ (archive'.log = archive.log \/ archive'.log = src)
    BY <1>2, <1>7
<1>8. CASE BackupStep
    <2>1. ASSUME NEW received \in BOOLEAN, BackupBegin(received)
          PROVE  src' = src /\ (archive'.log = archive.log \/ archive'.log = src)
        BY <2>1 DEF BackupBegin, Cut, NoArchive
    <2>2. archive = [session |-> archive.session, log |-> archive.log, pages |-> archive.pages,
                     complete |-> archive.complete]
        BY <1>1 DEF BackupTypeOK
    <2>3. ASSUME NEW received \in BOOLEAN, BackupPage(received) \/ BackupFinish(received)
          PROVE  src' = src /\ archive'.log = archive.log
        <3>1. src' = src /\ \E pages, complete :
                  archive' = [archive EXCEPT !.pages = pages] \/ archive' = [archive EXCEPT !.complete = complete]
                  \/ archive' = archive
            BY <2>3, Zenon DEF BackupPage, BackupFinish, Cut
        <3> QED
            BY <2>2, <3>1
    <2>4. ASSUME BackupPageAgain \/ BackupAbort
          PROVE  src' = src /\ archive'.log = archive.log
        <3>1. src' = src /\ \E pages : archive' = [archive EXCEPT !.pages = pages] \/ archive' = archive
            BY <2>4, Zenon DEF BackupPageAgain, BackupAbort, Cut
        <3> QED
            BY <2>2, <3>1
    <2> QED
        BY <1>6, <1>7, <1>8, <2>1, <2>3, <2>4 DEF BackupStep
<1>9. CASE UNCHANGED sourceVars
    BY <1>7, <1>9 DEF sourceVars
<1>10. CASE RestoreStep
    BY <1>9, <1>10, Zenon DEF RestoreStep, Import, ImportObject, RecordObject, ObjectDone, ImportSnapshot,
                    RestoreAuxBegin, RestoreAuxPage, Commit, Cancel, Publish
<1>11. CASE DeletionStep
    BY <1>9, <1>11, Zenon DEF DeletionStep, RecordCollectionDeletion, BeginCollectionClosing,
                    DestinationClose, DeleteLog
<1> QED
    BY <1>4, <1>8, <1>9, <1>10, <1>11, Zenon DEF Next, vars

LEMMA InitLinked ==
    ASSUME Init
    PROVE  IndLinked
<1>1. PICK e \in BOOLEAN :
           src = [head |-> 3, retained_from |-> 1, used_bytes |-> 4,
                  settings |-> CHOOSE q \in Settings : TRUE, rows |-> FirstRows(e)]
    BY DEF Init
<1> DEFINE I == {[key |-> 1, entry |-> FALSE, ref |-> 0, at |-> 1],
                 [key |-> 2, entry |-> TRUE, ref |-> 1, at |-> 3],
                 [key |-> 3, entry |-> FALSE, ref |-> 0, at |-> 4]}
           S == {[key |-> 3, manifest |-> 1, endorsed |-> e]}
           F == {[key |-> 3 * (MaxObject + 1) + 1, address |-> 1, snapshot |-> FALSE, holder |-> 2],
                 [key |-> 5 * (MaxObject + 1) + 1, address |-> 1, snapshot |-> TRUE, holder |-> 3]}
           O == {[key |-> 1, at |-> 2]}
           T == {[key |-> 2, at |-> 3]}
           R == FirstRows(e)
<1>2. R[Items] = I /\ R[Snapshots] = S /\ R[Refs] = F
    <2>1. R = Five(I, S, F, O, T)
        BY FirstRowsFive
    <2> HIDE DEF R, I, S, F, O, T
    <2> QED
        BY <2>1, FiveParts
<1>3. /\ \A r \in F :
           /\ r.snapshot \in BOOLEAN
           /\ r.snapshot => \E x \in S : x.key = r.holder
           /\ ~r.snapshot => \E i \in I : i.key = r.holder /\ i.ref = r.address /\ i.ref # 0
      /\ \A i \in I : i.ref # 0 =>
             \E r \in F : ~r.snapshot /\ r.holder = i.key /\ r.address = i.ref
    OBVIOUS
<1> HIDE DEF I, S, F, R
<1>4. RefsLinked(R)
    BY <1>2, <1>3 DEF RefsLinked
<1>5. src.rows = R
    BY <1>1 DEF R
<1>6. RefsLinked(Blank) /\ archive.log.rows = Blank
    BY SectionCases DEF Blank, RefsLinked, Init, NoArchive, NewLog
<1> QED
    BY <1>4, <1>5, <1>6 DEF IndLinked

\* What identifies the rows of each section.
LEMMA BareCases ==
    ASSUME NEW r
    PROVE  /\ Bare(Items, r) = <<r.key, r.entry, r.ref>>
           /\ Bare(Refs, r) = <<r.address, r.snapshot, r.holder>>
           /\ Bare(Objects, r) = r.key
           /\ Bare(Snapshots, r) = r
BY DEF Bare, Items, Refs, Objects, Snapshots

\* The references follow from the items, and from the snapshots and their edges.
LEMMA RefsFollow ==
    ASSUME NEW R, NEW C, RefsLinked(R), RefsLinked(C),
           BareRows(Items, R[Items]) = BareRows(Items, C[Items]),
           \A x \in R[Snapshots] :
               {r.address : r \in {q \in R[Refs] : q.snapshot /\ q.holder = x.key}} \subseteq
               {r.address : r \in {q \in C[Refs] : q.snapshot /\ q.holder = x.key}}
    PROVE  BareRows(Refs, R[Refs]) \subseteq BareRows(Refs, C[Refs])
<1> SUFFICES ASSUME NEW r \in R[Refs]
             PROVE  \E q \in C[Refs] : Bare(Refs, q) = Bare(Refs, r)
    BY DEF BareRows
<1>1. r.snapshot \in BOOLEAN
    BY DEF RefsLinked
<1> SUFFICES \E q \in C[Refs] : q.address = r.address /\ q.snapshot = r.snapshot /\ q.holder = r.holder
    <2>1. ASSUME NEW q \in C[Refs], q.address = r.address, q.snapshot = r.snapshot, q.holder = r.holder
          PROVE  Bare(Refs, q) = Bare(Refs, r)
        <3>1. /\ Bare(Refs, q) = <<q.address, q.snapshot, q.holder>>
              /\ Bare(Refs, r) = <<r.address, r.snapshot, r.holder>>
            BY BareCases, Zenon
        <3> QED
            BY <2>1, <3>1, Zenon
    <2> QED
        BY <2>1, Zenon
<1>2. CASE r.snapshot
    <2>1. PICK x \in R[Snapshots] : x.key = r.holder
        BY <1>2 DEF RefsLinked
    <2>2. r.address \in {q.address : q \in {p \in R[Refs] : p.snapshot /\ p.holder = x.key}}
        BY <1>2, <2>1
    <2>3. r.address \in {q.address : q \in {p \in C[Refs] : p.snapshot /\ p.holder = x.key}}
        BY <2>2
    <2>4. PICK q \in C[Refs] : q.snapshot /\ q.holder = x.key /\ q.address = r.address
        BY <2>3
    <2>5. q.snapshot \in BOOLEAN
        BY DEF RefsLinked
    <2> QED
        BY <1>1, <1>2, <2>1, <2>4, <2>5
<1>3. CASE ~r.snapshot
    <2>1. PICK i \in R[Items] : i.key = r.holder /\ i.ref = r.address /\ i.ref # 0
        BY <1>3 DEF RefsLinked
    <2>2. Bare(Items, i) \in BareRows(Items, C[Items])
        BY DEF BareRows
    <2>3. PICK j \in C[Items] : Bare(Items, j) = Bare(Items, i)
        BY <2>2 DEF BareRows
    <2>4. j.key = i.key /\ j.ref = i.ref
        <3>1. Bare(Items, i) = <<i.key, i.entry, i.ref>> /\ Bare(Items, j) = <<j.key, j.entry, j.ref>>
            BY BareCases, Zenon
        <3>2. <<j.key, j.entry, j.ref>> = <<i.key, i.entry, i.ref>>
            BY <2>3, <3>1, Zenon
        <3>3. \A a, b, c, d, e, f : <<a, b, c>> = <<d, e, f>> => a = d /\ c = f
            OBVIOUS
        <3> QED
            BY <3>2, <3>3, Zenon
    <2>5. PICK q \in C[Refs] : ~q.snapshot /\ q.holder = j.key /\ q.address = j.ref
        BY <2>1, <2>4 DEF RefsLinked
    <2>6. q.snapshot \in BOOLEAN
        BY DEF RefsLinked
    <2> QED
        BY <1>1, <1>3, <2>1, <2>4, <2>5, <2>6
<1> QED
    BY <1>2, <1>3

\* The plan is the header of the archived log.
LEMMA PlanParts ==
    ASSUME IndBackup
    PROVE  /\ LogShape(archive.log)
           /\ archive.log.head \in Nat /\ archive.log.used_bytes \in Int
           /\ Plan.head = archive.log.head /\ Plan.used_bytes = archive.log.used_bytes
           /\ Plan.settings = archive.log.settings /\ Plan.retained_from = archive.log.retained_from
<1>1. archive.log \in Logs
    BY DEF IndBackup, BackupTypeOK
<1> QED
    BY <1>1 DEF Plan, Logs, LogShape, IsTable

\* A finished archive: its pages are sets of rows of the cut.
LEMMA ArchiveParts ==
    ASSUME IndBackup, archive.complete
    PROVE  /\ \A s \in Sections : Archived(s) = archive.log.rows[s] /\ Keyed(archive.log.rows[s])
           /\ archive.pages \in Seq(Pages)
           /\ \A q \in 1..Len(archive.pages) :
                  /\ archive.pages[q].section \in Sections
                  /\ archive.pages[q].rows \subseteq archive.log.rows[archive.pages[q].section]
           /\ \A s \in Sections : \A r \in archive.log.rows[s] :
                  \E q \in 1..Len(archive.pages) : archive.pages[q].section = s /\ r \in archive.pages[q].rows
<1>1. archive.pages \in Seq(Pages)
    BY DEF IndBackup, BackupTypeOK
<1>2. \A q \in 1..Len(archive.pages) : archive.pages[q].section \in Sections
    <2>1. \A q \in 1..Len(archive.pages) : archive.pages[q] \in Pages
        <3> DEFINE P == Pages
        <3>1. archive.pages \in Seq(P)
            BY <1>1
        <3> HIDE DEF P
        <3>2. \A q \in 1..Len(archive.pages) : archive.pages[q] \in P
            BY <3>1
        <3> QED
            BY <3>2 DEF P
    <2> QED
        BY <2>1 DEF Pages
<1>3. \A s \in Sections : Archived(s) = archive.log.rows[s]
    BY DEF IndBackup
<1>4. \A s \in Sections : Keyed(archive.log.rows[s])
    BY DEF IndBackup, BackupTypeOK, WellFormed
<1>5. ASSUME NEW q \in 1..Len(archive.pages)
      PROVE  archive.pages[q].rows \subseteq archive.log.rows[archive.pages[q].section]
    <2>1. archive.pages[q].rows \subseteq Archived(archive.pages[q].section)
        BY DEF Archived
    <2> QED
        BY <1>2, <1>3, <2>1
<1>6. ASSUME NEW s \in Sections, NEW r \in archive.log.rows[s]
      PROVE  \E q \in 1..Len(archive.pages) : archive.pages[q].section = s /\ r \in archive.pages[q].rows
    <2>1. r \in Archived(s)
        BY <1>3
    <2> QED
        BY <2>1 DEF Archived
<1> QED
    BY <1>1, <1>2, <1>3, <1>4, <1>5, <1>6

\* Once every page was applied, what is there has its archived times.
LEMMA TimesAll ==
    ASSUME IndBackup, archive.complete, NEW R, NEW s \in {Items, Objects},
           \A q \in 1..Len(archive.pages) : TimesRight(R, archive.pages[q]),
           BareRows(s, R[s]) = BareRows(s, archive.log.rows[s])
    PROVE  R[s] = archive.log.rows[s]
<1>1. s \in Sections
    BY SectionCases
<1>2. ASSUME NEW q \in 1..Len(archive.pages), archive.pages[q].section = s
      PROVE  {r \in R[s] : Bare(s, r) \in BareRows(s, archive.pages[q].rows)} = archive.pages[q].rows
    BY <1>2 DEF TimesRight
<1>3. ASSUME NEW r \in R[s]
      PROVE  r \in archive.log.rows[s]
    <2>1. Bare(s, r) \in BareRows(s, archive.log.rows[s])
        BY DEF BareRows
    <2>2. PICK c \in archive.log.rows[s] : Bare(s, c) = Bare(s, r)
        BY <2>1 DEF BareRows
    <2>3. PICK q \in 1..Len(archive.pages) : archive.pages[q].section = s /\ c \in archive.pages[q].rows
        BY <1>1, ArchiveParts
    <2>4. Bare(s, r) \in BareRows(s, archive.pages[q].rows)
        BY <2>2, <2>3 DEF BareRows
    <2>5. r \in archive.pages[q].rows
        BY <1>2, <2>3, <2>4
    <2> QED
        BY <2>3, <2>5, ArchiveParts
<1>4. ASSUME NEW c \in archive.log.rows[s]
      PROVE  c \in R[s]
    <2>1. PICK q \in 1..Len(archive.pages) : archive.pages[q].section = s /\ c \in archive.pages[q].rows
        BY <1>1, ArchiveParts
    <2> QED
        BY <1>2, <2>1
<1> QED
    BY <1>3, <1>4

\* Times do not matter to references.
LEMMA LinkedBare ==
    ASSUME NEW R, RefsLinked(R), NEW Q, Q[Refs] = R[Refs], Q[Snapshots] = R[Snapshots],
           BareRows(Items, Q[Items]) = BareRows(Items, R[Items])
    PROVE  RefsLinked(Q)
<1>1. ASSUME NEW I, NEW J, BareRows(Items, I) \subseteq BareRows(Items, J), NEW i \in I
      PROVE  \E j \in J : j.key = i.key /\ j.ref = i.ref
    <2>1. Bare(Items, i) \in BareRows(Items, J)
        BY <1>1 DEF BareRows
    <2>2. PICK j \in J : Bare(Items, j) = Bare(Items, i)
        BY <2>1 DEF BareRows
    <2>3. <<j.key, j.entry, j.ref>> = <<i.key, i.entry, i.ref>>
        BY <2>2, BareCases, Zenon
    <2>4. \A a, b, c, d, e, f : <<a, b, c>> = <<d, e, f>> => a = d /\ c = f
        OBVIOUS
    <2>5. j.key = i.key /\ j.ref = i.ref
        BY <2>3, <2>4, Zenon
    <2> QED
        BY <2>5
<1>2. \A i \in R[Items] : \E j \in Q[Items] : j.key = i.key /\ j.ref = i.ref
    BY <1>1
<1>3. \A i \in Q[Items] : \E j \in R[Items] : j.key = i.key /\ j.ref = i.ref
    BY <1>1
<1>4. ASSUME NEW r \in Q[Refs]
      PROVE  /\ r.snapshot \in BOOLEAN
             /\ r.snapshot => \E y \in Q[Snapshots] : y.key = r.holder
             /\ ~r.snapshot => \E i \in Q[Items] :
                    i.key = r.holder /\ i.ref = r.address /\ i.ref # 0
    <2>1. /\ r.snapshot \in BOOLEAN
          /\ r.snapshot => \E y \in Q[Snapshots] : y.key = r.holder
          /\ ~r.snapshot => \E i \in R[Items] :
                    i.key = r.holder /\ i.ref = r.address /\ i.ref # 0
        BY DEF RefsLinked
    <2> QED
        BY <1>2, <2>1
<1>5. ASSUME NEW i \in Q[Items], i.ref # 0
      PROVE  \E r \in Q[Refs] : ~r.snapshot /\ r.holder = i.key /\ r.address = i.ref
    <2>1. PICK j \in R[Items] : j.key = i.key /\ j.ref = i.ref
        BY <1>3
    <2> QED
        BY <1>5, <2>1 DEF RefsLinked
<1> QED
    BY <1>4, <1>5, Zenon DEF RefsLinked

\* What verify compares is all that the plan and the archive have.
LEMMA GoLive ==
    ASSUME IndBackup, IndLinked, archive.complete, NEW l, LogShape(l), RefsLinked(l.rows),
           l.settings = archive.log.settings, l.retained_from = archive.log.retained_from, Verify(l)
    PROVE  /\ [l EXCEPT !.rows = Blank] = [archive.log EXCEPT !.rows = Blank]
           /\ \A s \in Sections \ {Tokens} : BareRows(s, l.rows[s]) = BareRows(s, archive.log.rows[s])
<1> DEFINE A == archive.log
           E(R, x) == {r.address : r \in {q \in R[Refs] : q.snapshot /\ q.holder = x.key}}
<1>1. \A s \in Sections : Archived(s) = A.rows[s]
    BY ArchiveParts
<1>2. /\ l.used_bytes = A.used_bytes /\ l.head = A.head
      /\ BareRows(Items, l.rows[Items]) = BareRows(Items, A.rows[Items])
      /\ Committed(l) = {o.key : o \in A.rows[Objects]}
      /\ l.rows[Snapshots] = A.rows[Snapshots]
      /\ \A x \in l.rows[Snapshots] : E(l.rows, x) = E(A.rows, x)
    <2>1. /\ <<l.used_bytes, l.head>> = <<Plan.used_bytes, Plan.head>>
          /\ BareRows(Items, l.rows[Items]) = BareRows(Items, Archived(Items))
          /\ Committed(l) = {o.key : o \in Archived(Objects)}
          /\ l.rows[Snapshots] = Archived(Snapshots)
          /\ \A x \in l.rows[Snapshots] :
               {r.address : r \in {q \in l.rows[Refs] : q.snapshot /\ q.holder = x.key}} = EdgesOf(x)
        BY Zenon DEF Verify
    <2>2. \A x : EdgesOf(x) = {r.address : r \in {q \in Archived(Refs) : q.snapshot /\ q.holder = x.key}}
        BY Zenon DEF EdgesOf
    <2>3. /\ Archived(Items) = A.rows[Items] /\ Archived(Objects) = A.rows[Objects]
          /\ Archived(Snapshots) = A.rows[Snapshots] /\ Archived(Refs) = A.rows[Refs]
        BY <1>1, SectionCases
    <2>4. Plan.head = A.head /\ Plan.used_bytes = A.used_bytes
        BY PlanParts
    <2>5. l.used_bytes = Plan.used_bytes /\ l.head = Plan.head
        <3>1. \A a, b, c, d : <<a, b>> = <<c, d>> => a = c /\ b = d
            OBVIOUS
        <3> QED
            BY <2>1, <3>1, Zenon
    <2>6. \A x \in l.rows[Snapshots] : E(l.rows, x) = E(A.rows, x)
        <3> SUFFICES ASSUME NEW x \in l.rows[Snapshots] PROVE E(l.rows, x) = E(A.rows, x)
            OBVIOUS
        <3>1. E(l.rows, x) = EdgesOf(x)
            BY <2>1, Zenon
        <3>2. EdgesOf(x) = E(A.rows, x)
            BY <2>2, <2>3, Zenon
        <3> QED
            BY <3>1, <3>2, Zenon
    <2> HIDE DEF A, E
    <2> QED
        BY <2>1, <2>3, <2>4, <2>5, <2>6, Zenon
<1>3. RefsLinked(A.rows)
    BY DEF IndLinked
<1>4. [l EXCEPT !.rows = Blank] = [A EXCEPT !.rows = Blank]
    <2>1. LogShape(A)
        BY PlanParts
    <2> DEFINE B == Blank
    <2>2. /\ [l EXCEPT !.rows = B] = [head |-> l.head, retained_from |-> l.retained_from,
              used_bytes |-> l.used_bytes, settings |-> l.settings, rows |-> B]
          /\ [A EXCEPT !.rows = B] = [head |-> A.head, retained_from |-> A.retained_from,
              used_bytes |-> A.used_bytes, settings |-> A.settings, rows |-> B]
        <3> HIDE DEF B, A
        <3> QED
            BY <2>1 DEF LogShape
    <2> HIDE DEF B
    <2>3. [l EXCEPT !.rows = B] = [A EXCEPT !.rows = B]
        BY <1>2, <2>2
    <2> QED
        BY <2>3 DEF B
<1>5. BareRows(Refs, l.rows[Refs]) = BareRows(Refs, A.rows[Refs])
    <2> DEFINE R == l.rows
               C == A.rows
    <2>1. /\ RefsLinked(R) /\ RefsLinked(C) /\ R[Snapshots] = C[Snapshots]
          /\ BareRows(Items, R[Items]) = BareRows(Items, C[Items])
        BY <1>2, <1>3
    <2>2. \A x \in R[Snapshots] : E(R, x) \subseteq E(C, x) /\ E(C, x) \subseteq E(R, x)
        <3> HIDE DEF E
        <3> QED
            BY <1>2
    <2> HIDE DEF R, C
    <2>3. BareRows(Refs, R[Refs]) \subseteq BareRows(Refs, C[Refs])
        BY <2>1, <2>2, RefsFollow
    <2>4. BareRows(Refs, C[Refs]) \subseteq BareRows(Refs, R[Refs])
        <3>1. \A x \in C[Snapshots] : E(C, x) \subseteq E(R, x)
            BY <2>1, <2>2, Zenon
        <3>2. BareRows(Items, C[Items]) = BareRows(Items, R[Items])
            BY <2>1
        <3> QED
            BY <2>1, <3>1, <3>2, RefsFollow, Zenon
    <2>5. BareRows(Refs, R[Refs]) = BareRows(Refs, C[Refs])
        BY <2>3, <2>4
    <2> QED
        BY <2>5 DEF R, C
<1>6. BareRows(Objects, l.rows[Objects]) = BareRows(Objects, A.rows[Objects])
    <2>1. ASSUME NEW O PROVE BareRows(Objects, O) = {o.key : o \in O}
        <3>1. BareRows(Objects, O) = {Bare(Objects, o) : o \in O}
            BY DEF BareRows
        <3>2. \A o : Bare(Objects, o) = o.key
            BY BareCases, Zenon
        <3> QED
            BY <3>1, <3>2
    <2> QED
        BY <1>2, <2>1 DEF Committed
<1>7. \A s \in Sections \ {Tokens} : s \in {Items, Snapshots, Refs, Objects}
    BY SectionCases
<1>8. \A s \in Sections \ {Tokens} : BareRows(s, l.rows[s]) = BareRows(s, A.rows[s])
    <2> SUFFICES ASSUME NEW s \in Sections \ {Tokens}
                 PROVE  BareRows(s, l.rows[s]) = BareRows(s, A.rows[s])
        OBVIOUS
    <2>1. CASE s = Items
        BY <1>2, <2>1
    <2>2. CASE s = Snapshots
        BY <1>2, <2>2
    <2>3. CASE s = Refs
        BY <1>5, <2>3
    <2>4. CASE s = Objects
        BY <1>6, <2>4
    <2> QED
        BY <1>7, <2>1, <2>2, <2>3, <2>4
<1> QED
    BY <1>4, <1>8

\* An auxiliary page gives its rows their times, and leaves the rows of the pages before it
\* and the references as they are.
LEMMA TimedRight ==
    ASSUME IndBackup, archive.complete, NEW R, IsTable(R), RefsLinked(R),
           NEW n \in 1..Len(archive.pages),
           archive.pages[n].section # Tokens =>
               BareRows(archive.pages[n].section, archive.pages[n].rows) \subseteq
               BareRows(archive.pages[n].section, R[archive.pages[n].section]),
           \A q \in 1..(n - 1) : TimesRight(R, archive.pages[q])
    PROVE  /\ IsTable(Timed(R, archive.pages[n]))
           /\ RefsLinked(Timed(R, archive.pages[n]))
           /\ \A q \in 1..n : TimesRight(Timed(R, archive.pages[n]), archive.pages[q])
<1> DEFINE page == archive.pages[n]
           k == page.section
           P == page.rows
           new == {r \in R[k] : Bare(k, r) \notin BareRows(k, P)} \cup P
           Q == Timed(R, page)
<1>0. /\ k \in Sections /\ P \subseteq archive.log.rows[k] /\ Keyed(archive.log.rows[k])
      /\ \A q \in 1..Len(archive.pages) :
             archive.pages[q].section = k => archive.pages[q].rows \subseteq archive.log.rows[k]
    BY ArchiveParts
<1>1. Len(archive.pages) \in Nat /\ n \in Nat
    BY ArchiveParts
<1>2. CASE k \notin {Items, Objects}
    <2>1. Q = R
        BY <1>2 DEF Timed
    <2>2. TimesRight(R, page)
        BY <1>2 DEF TimesRight
    <2>3. \A q \in 1..n : q \in 1..(n - 1) \/ q = n
        BY <1>1
    <2>4. \A q \in 1..n : TimesRight(R, archive.pages[q])
        BY <2>2, <2>3
    <2> HIDE DEF Q
    <2> QED
        BY <2>1, <2>4 DEF Q
<1>3. CASE k \in {Items, Objects}
    <2>1. Q = [R EXCEPT ![k] = new]
        BY <1>3 DEF Timed
    <2>2. BareRows(k, P) \subseteq BareRows(k, R[k])
        BY <1>3, Distinct
    <2>3. ASSUME NEW x \in archive.log.rows[k], NEW y \in archive.log.rows[k], Bare(k, x) = Bare(k, y)
          PROVE  x = y
        <3>1. x.key = y.key
            <4>1. CASE k = Objects
                BY <2>3, <4>1, BareCases
            <4>2. CASE k = Items
                <5>1. <<x.key, x.entry, x.ref>> = <<y.key, y.entry, y.ref>>
                    BY <2>3, <4>2, BareCases, Zenon
                <5>2. \A a, b, c, d, e, f : <<a, b, c>> = <<d, e, f>> => a = d
                    OBVIOUS
                <5> QED
                    BY <5>1, <5>2, Zenon
            <4> QED
                BY <1>3, <4>1, <4>2
        <3> QED
            BY <1>0, <3>1 DEF Keyed
    <2>4. {r \in new : Bare(k, r) \in BareRows(k, P)} = P
        BY DEF BareRows
    <2>5. ASSUME NEW q \in 1..Len(archive.pages), archive.pages[q].section = k,
                 {r \in R[k] : Bare(k, r) \in BareRows(k, archive.pages[q].rows)} = archive.pages[q].rows
          PROVE  {r \in new : Bare(k, r) \in BareRows(k, archive.pages[q].rows)} = archive.pages[q].rows
        <3> DEFINE W == archive.pages[q].rows
        <3>1. W \subseteq archive.log.rows[k]
            BY <1>0, <2>5
        <3>2. ASSUME NEW r \in new, Bare(k, r) \in BareRows(k, W)
              PROVE  r \in W
            <4>1. CASE r \in R[k]
                BY <2>5, <3>2, <4>1
            <4>2. CASE r \in P
                <5>1. PICK w \in W : Bare(k, w) = Bare(k, r)
                    BY <3>2 DEF BareRows
                <5>2. r \in archive.log.rows[k] /\ w \in archive.log.rows[k]
                    BY <1>0, <3>1, <4>2
                <5> QED
                    BY <2>3, <5>1, <5>2
            <4> QED
                BY <3>2, <4>1, <4>2
        <3>3. ASSUME NEW w \in W
              PROVE  w \in new /\ Bare(k, w) \in BareRows(k, W)
            <4>1. w \in R[k] /\ Bare(k, w) \in BareRows(k, W)
                BY <2>5
            <4>2. CASE Bare(k, w) \in BareRows(k, P)
                <5>1. PICK p \in P : Bare(k, p) = Bare(k, w)
                    BY <4>2 DEF BareRows
                <5>2. p = w
                    BY <1>0, <2>3, <3>1, <5>1
                <5> QED
                    BY <4>1, <5>2
            <4>3. CASE Bare(k, w) \notin BareRows(k, P)
                BY <4>1, <4>3
            <4> QED
                BY <4>2, <4>3
        <3> HIDE DEF new, W
        <3>4. {r \in new : Bare(k, r) \in BareRows(k, W)} = W
            BY <3>2, <3>3
        <3> QED
            BY <3>4 DEF W
    <2>6. BareRows(k, new) = BareRows(k, R[k])
        <3>1. ASSUME NEW r \in new
              PROVE  Bare(k, r) \in BareRows(k, R[k])
            <4>1. CASE r \in R[k]
                BY <4>1 DEF BareRows
            <4>2. CASE r \in P
                BY <2>2, <4>2 DEF BareRows
            <4> QED
                BY <4>1, <4>2
        <3>2. ASSUME NEW r \in R[k]
              PROVE  Bare(k, r) \in BareRows(k, new)
            <4>1. CASE Bare(k, r) \in BareRows(k, P)
                BY <4>1 DEF BareRows
            <4>2. CASE Bare(k, r) \notin BareRows(k, P)
                BY <4>2 DEF BareRows
            <4> QED
                BY <4>1, <4>2
        <3> HIDE DEF new
        <3> QED
            BY <3>1, <3>2 DEF BareRows
    <2> HIDE DEF new
    <2>7. Q = [s \in Sections |-> IF s = k THEN new ELSE R[s]]
        <3> HIDE DEF Q, k
        <3> QED
            BY <1>0, <2>1 DEF IsTable
    <2>8. IsTable(Q) /\ Q[k] = new /\ \A s \in Sections \ {k} : Q[s] = R[s]
        <3> HIDE DEF Q, k
        <3> QED
            BY <1>0, <2>7 DEF IsTable
    <2> HIDE DEF Q
    <2>9. ASSUME NEW q \in 1..n
          PROVE  TimesRight(Q, archive.pages[q])
        <3>1. q \in 1..Len(archive.pages) /\ (q = n \/ q \in 1..(n - 1))
            BY <1>1
        <3> DEFINE j == archive.pages[q].section
        <3>2. CASE j \notin {Items, Objects}
            BY <3>2 DEF TimesRight
        <3>3. CASE j = k
            <4>1. CASE q = n
                BY <2>4, <2>8, <4>1 DEF TimesRight
            <4>2. CASE q \in 1..(n - 1)
                <5>1. {r \in R[k] : Bare(k, r) \in BareRows(k, archive.pages[q].rows)} = archive.pages[q].rows
                    BY <1>3, <3>3, <4>2 DEF TimesRight
                <5>2. {r \in new : Bare(k, r) \in BareRows(k, archive.pages[q].rows)} = archive.pages[q].rows
                    BY <2>5, <3>1, <3>3, <5>1
                <5> QED
                    BY <2>8, <3>3, <5>2 DEF TimesRight
            <4> QED
                BY <3>1, <4>1, <4>2
        <3>4. CASE j \in {Items, Objects} /\ j # k
            <4>1. Q[j] = R[j]
                BY <2>8, <3>4, SectionCases
            <4>2. q \in 1..(n - 1)
                BY <3>1, <3>4
            <4> QED
                BY <4>1, <4>2 DEF TimesRight
        <3> QED
            BY <3>2, <3>3, <3>4
    <2>10. RefsLinked(Q)
        <3>1. Q[Refs] = R[Refs] /\ Q[Snapshots] = R[Snapshots]
            BY <1>3, <2>8, SectionCases, Distinct
        <3>2. BareRows(Items, Q[Items]) = BareRows(Items, R[Items])
            <4>1. CASE k = Items
                BY <2>6, <2>8, <4>1
            <4>2. CASE k # Items
                BY <2>8, <4>2, SectionCases
            <4> QED
                BY <4>1, <4>2
        <3> QED
            BY <3>1, <3>2, LinkedBare
    <2> QED
        BY <2>8, <2>9, <2>10 DEF Q
<1> QED
    BY <1>2, <1>3

\* What a target must be does not change with it: the archive is finished.
LEMMA SameTarget ==
    ASSUME NEW d, Target(d), archive' = archive
    PROVE  Target(d)'
<1>1. Archived(Tokens)' = Archived(Tokens)
    BY Zenon DEF Archived
<1>2. Restored(d)' <=> Restored(d)
    BY Zenon DEF Restored
<1> QED
    BY <1>1, <1>2, Zenon DEF Target

LEMMA PublishTarget ==
    ASSUME IndRestore, NEW new, Publish(new), Target(new), new.status # "absent",
           uploads' \subseteq uploads
    PROVE  IndRestore'
<1>1. archive.complete /\ archive' = archive /\ dst' = dst /\ writer' = new
    BY DEF Publish, sourceVars
<1>2. Target(dst)' /\ Target(new)'
    <2>1. PICK d : d = dst
        OBVIOUS
    <2>2. Target(d)
        BY <2>1 DEF IndRestore
    <2>3. Target(d)' /\ Target(new)'
        BY <1>1, <2>2, SameTarget
    <2>4. dst' = d
        BY <1>1, <2>1
    <2> QED
        BY <2>3, <2>4, Zenon DEF Target, Archived, Restored
<1>3. Target(writer)'
    BY <1>1, <1>2, Zenon DEF Target, Archived, Restored
<1>4. uploads' # {} => dst'.status # "absent"
    BY <1>1 DEF IndRestore
<1> QED
    BY <1>1, <1>2, <1>3, <1>4 DEF IndRestore

\* A page of items, and the completion.
LEMMA ImportTarget ==
    ASSUME IndBackup, IndLinked, IndRestore, NEW page, NEW done \in BOOLEAN, Import(page, done)
    PROVE  IndRestore'
<1> DEFINE created == dst.status = "absent"
           log == IF created THEN [NewLog EXCEPT !.settings = Plan.settings] ELSE dst.log
           X == {[i EXCEPT !.at = RestoreTime] : i \in page}
           h == Max({log.head} \cup {i.key : i \in page})
           u == log.used_bytes + Cardinality(page)
           f == IF done THEN Plan.retained_from ELSE log.retained_from
           Q == InsertItems(log.rows, X)
           l == [log EXCEPT !.head = h, !.used_bytes = u, !.retained_from = f, !.rows = Q]
           st == IF done THEN "live" ELSE "importing"
           tm == done /\ dst.aux.begun
           ax == IF done THEN NoAux ELSE dst.aux
           new == [dst EXCEPT !.status = st, !.log = l, !.timed = tm, !.aux = ax]
<1>1. /\ dst.status \in {"absent", "importing"}
      /\ done => Verify(l)
      /\ RestoreAuxGuard(page # {}, done)
      /\ Publish(new)
      /\ uploads' = uploads
    BY Zenon DEF Import
<1>2. Target(dst) /\ archive.complete
    BY <1>1 DEF IndRestore, Publish
<1>3. /\ LogShape(dst.log) /\ AuxShape(dst) /\ RefsLinked(dst.log.rows)
      /\ created => dst = Absent
      /\ ~created => dst.log.settings = archive.log.settings
      /\ dst.aux.page # 0 =>
             /\ dst.aux.begun
             /\ dst.log.head = archive.log.head /\ dst.log.used_bytes = archive.log.used_bytes
      /\ \A q \in 1..dst.aux.page : q <= Len(archive.pages) /\ TimesRight(dst.log.rows, archive.pages[q])
      /\ dst.aux.done => dst.aux.page = Len(archive.pages) /\ dst.aux.page # 0
                         /\ dst.log.rows[Tokens] = Archived(Tokens)
    BY <1>2, Zenon DEF Target
<1>4. LogShape(log) /\ RefsLinked(log.rows) /\ log.settings = archive.log.settings
    <2>1. CASE created
        <3> DEFINE p == Plan.settings
        <3>1. p = archive.log.settings
            BY PlanParts
        <3> HIDE DEF p
        <3>2. log = [head |-> 0, retained_from |-> 1, used_bytes |-> 0, settings |-> p, rows |-> Blank]
            BY <2>1 DEF NewLog, p
        <3>3. RefsLinked(Blank) /\ IsTable(Blank)
            BY SectionCases DEF Blank, RefsLinked, IsTable
        <3> HIDE DEF log
        <3> QED
            BY <3>1, <3>2, <3>3 DEF LogShape
    <2>2. CASE ~created
        BY <1>3, <2>2
    <2> QED
        BY <2>1, <2>2
<1>5. /\ created => dst.aux.page = 0 /\ dst.aux.done = FALSE
      /\ ~created => log = dst.log
    <2>1. Absent.aux.page = 0 /\ Absent.aux.done = FALSE
        BY DEF Absent, NoAux
    <2> QED
        BY <1>3, <2>1
<1>6. ASSUME dst.aux.page # 0
      PROVE  page = {} /\ ~created /\ Q = dst.log.rows /\ h = dst.log.head /\ u = dst.log.used_bytes
    <2>1. dst.aux.begun /\ ~created /\ log = dst.log
        BY <1>3, <1>5, <1>6
    <2>2. page = {}
        BY <1>1, <1>6, <2>1 DEF RestoreAuxGuard
    <2>3. X = {} /\ {log.head} \cup {i.key : i \in page} = {log.head}
        BY <2>2
    <2>4. log.head \in Nat /\ log.used_bytes \in Int
        BY <1>3, <1>6, <2>1, PlanParts
    <2>5. h = log.head
        <3> HIDE DEF log
        <3> QED
            BY <2>3, <2>4 DEF Max
    <2>6. u = log.used_bytes
        <3>1. Cardinality(page) = 0
            BY <2>2, FS_EmptySet
        <3> QED
            BY <2>4, <3>1
    <2>7. Q = log.rows
        <3> HIDE DEF X, log
        <3> QED
            BY <1>4, <2>3, InsertNone DEF LogShape
    <2> QED
        BY <2>1, <2>2, <2>5, <2>6, <2>7
<1>7. RefsLinked(Q) /\ IsTable(Q)
    <2> DEFINE R == log.rows
    <2>1. IsTable(R) /\ RefsLinked(R)
        BY <1>4, Zenon DEF LogShape
    <2> HIDE DEF X, log, R
    <2>2. IsTable(InsertItems(R, X)) /\ RefsLinked(InsertItems(R, X))
        BY <2>1, LinkedItems, InsertItemsRows, Zenon
    <2> QED
        BY <2>2, Zenon DEF R
<1> HIDE DEF X, h, u, Q
<1>8. /\ l.head = h /\ l.retained_from = f /\ l.used_bytes = u /\ l.settings = log.settings
      /\ l.rows = Q
      /\ l \in [head : {l.head}, retained_from : {l.retained_from}, used_bytes : {l.used_bytes},
                settings : {l.settings}, rows : {l.rows}]
    <2> HIDE DEF log, f
    <2> QED
        BY <1>4 DEF LogShape
<1> HIDE DEF l, log
<1>9. l.settings = archive.log.settings /\ LogShape(l)
    <2> HIDE DEF f
    <2> QED
        BY <1>4, <1>7, <1>8 DEF LogShape
<1>10. /\ new.status = st /\ new.log = l /\ new.aux = ax /\ new.timed = tm
       /\ new \in [status : {new.status}, log : {new.log}, aux : {new.aux}, timed : {new.timed}]
    <2> HIDE DEF st, ax, tm
    <2> QED
        BY <1>3 DEF AuxShape
<1>11. /\ ax \in [begun : {ax.begun}, page : {ax.page}, done : {ax.done}]
       /\ ax.begun \in BOOLEAN /\ ax.page \in Nat /\ ax.done \in BOOLEAN
       /\ done => ax.page = 0 /\ ax.done = FALSE
       /\ ~done => ax = dst.aux
    BY <1>3 DEF AuxShape, NoAux
<1>12. /\ ax.page # 0 =>
             /\ ax.begun
             /\ l.head = archive.log.head /\ l.used_bytes = archive.log.used_bytes
             /\ l.rows = dst.log.rows
       /\ \A q \in 1..ax.page : q <= Len(archive.pages) /\ TimesRight(l.rows, archive.pages[q])
       /\ ax.done => ax.page = Len(archive.pages) /\ ax.page # 0 /\ l.rows[Tokens] = Archived(Tokens)
    <2>1. CASE ax.page = 0
        <3>1. ax.done = FALSE
            BY <1>3, <1>11, <2>1
        <3>2. 1..ax.page = {}
            BY <2>1
        <3> QED
            BY <2>1, <3>1, <3>2
    <2>2. CASE ax.page # 0
        <3>1. ~done /\ ax = dst.aux
            BY <1>11, <2>2
        <3>2. l.rows = dst.log.rows /\ l.head = dst.log.head /\ l.used_bytes = dst.log.used_bytes
            BY <1>6, <1>8, <2>2, <3>1
        <3> QED
            BY <1>3, <2>2, <3>1, <3>2
    <2> QED
        BY <2>1, <2>2
<1>13. ASSUME done
       PROVE  Restored(new)
    <2>1. l.retained_from = archive.log.retained_from
        BY <1>8, <1>13, PlanParts
    <2>2. /\ [l EXCEPT !.rows = Blank] = [archive.log EXCEPT !.rows = Blank]
          /\ \A s \in Sections \ {Tokens} : BareRows(s, l.rows[s]) = BareRows(s, archive.log.rows[s])
        BY <1>1, <1>2, <1>7, <1>8, <1>9, <1>13, <2>1, GoLive
    <2>3. ASSUME tm
          PROVE  \A s \in {Items, Objects, Tokens} : l.rows[s] = archive.log.rows[s]
        <3>1. dst.aux.done
            BY <1>1, <1>13, <2>3 DEF RestoreAuxGuard
        <3>2. dst.aux.page # 0 /\ dst.aux.page = Len(archive.pages) /\ dst.log.rows[Tokens] = Archived(Tokens)
            BY <1>3, <3>1
        <3>3. l.rows = dst.log.rows
            BY <1>6, <1>8, <3>2
        <3>4. l.rows[Tokens] = archive.log.rows[Tokens]
            BY <1>2, <3>2, <3>3, ArchiveParts, SectionCases
        <3>5. \A q \in 1..Len(archive.pages) : TimesRight(l.rows, archive.pages[q])
            BY <1>3, <3>2, <3>3
        <3>6. ASSUME NEW s \in {Items, Objects}
              PROVE  l.rows[s] = archive.log.rows[s]
            <4>1. s \in Sections \ {Tokens}
                BY <3>6, SectionCases, Distinct
            <4> QED
                BY <1>2, <2>2, <3>5, <3>6, <4>1, TimesAll
        <3> QED
            BY <3>4, <3>6
    <2>4. new.log = l /\ new.timed = tm
        BY <1>10
    <2> HIDE DEF new, tm
    <2> QED
        BY <2>2, <2>3, <2>4 DEF Restored
<1>14. new.status = st /\ new.log = l /\ new.aux = ax /\ new.timed = tm /\ st \in {"live", "importing"}
       /\ (st = "live" => done)
    <2>1. st \in {"live", "importing"} /\ (st = "live" => done)
        OBVIOUS
    <2> HIDE DEF st, ax, tm
    <2> QED
        BY <1>10, <2>1
<1>15. AuxShape(new)
    <2> HIDE DEF st, ax, tm, new
    <2> QED
        BY <1>10, <1>11, <1>14 DEF AuxShape
<1> HIDE DEF new, st, ax, tm
<1>16. Target(new)
    BY <1>7, <1>8, <1>9, <1>12, <1>13, <1>14, <1>15 DEF Target
<1> QED
    BY <1>1, <1>14, <1>16, PublishTarget

\* Before its auxiliary pages a target that is not live has little to keep.
LEMMA EarlyTarget ==
    ASSUME NEW d, LogShape(d.log), AuxShape(d), RefsLinked(d.log.rows), d.status # "absent",
           d.status # "live", d.log.settings = archive.log.settings, d.aux.page = 0, ~d.aux.done
    PROVE  Target(d)
<1>1. 1..d.aux.page = {}
    OBVIOUS
<1> QED
    BY <1>1 DEF Target

\* An object: the accounting refuses it once the auxiliary pages have begun.
LEMMA RecordObjectTarget ==
    ASSUME IndBackup, IndRestore, NEW a, RecordObject(a)
    PROVE  IndRestore'
<1> DEFINE u == dst.log.used_bytes + 1
           Q == InsertObject(dst.log.rows, a, RestoreTime)
           new == [dst EXCEPT !.log.used_bytes = u, !.log.rows = Q]
<1>1. /\ a \in uploads /\ u <= Plan.used_bytes /\ Publish(new) /\ uploads' = uploads \ {a}
      /\ dst.status # "gone"
    BY DEF RecordObject
<1>2. Target(dst) /\ dst.status # "absent"
    BY <1>1 DEF IndRestore
<1>3. /\ LogShape(dst.log) /\ AuxShape(dst) /\ RefsLinked(dst.log.rows)
      /\ dst.log.settings = archive.log.settings
      /\ dst.aux.page # 0 => dst.log.used_bytes = archive.log.used_bytes
      /\ dst.aux.done => dst.aux.page # 0
      /\ dst.status = "live" => Restored(dst)
    BY <1>2, Zenon DEF Target
<1>4. Plan.used_bytes = archive.log.used_bytes /\ archive.log.used_bytes \in Int /\ LogShape(archive.log)
    BY PlanParts
<1>5. dst.log.used_bytes # archive.log.used_bytes
    BY <1>1, <1>4
<1>6. dst.aux.page = 0 /\ ~dst.aux.done
    BY <1>3, <1>5
<1>7. dst.status # "live"
    <2> SUFFICES ASSUME dst.status = "live" PROVE FALSE
        OBVIOUS
    <2> DEFINE B == Blank
    <2>1. [dst.log EXCEPT !.rows = B] = [archive.log EXCEPT !.rows = B]
        BY <1>3 DEF Restored
    <2> HIDE DEF B
    <2>2. /\ [dst.log EXCEPT !.rows = B].used_bytes = dst.log.used_bytes
          /\ [archive.log EXCEPT !.rows = B].used_bytes = archive.log.used_bytes
        BY <1>3, <1>4 DEF LogShape
    <2> QED
        BY <1>5, <2>1, <2>2
<1>8. RefsLinked(Q) /\ IsTable(Q)
    <2> DEFINE R == dst.log.rows
    <2>1. IsTable(R) /\ RefsLinked(R)
        BY <1>3, Zenon DEF LogShape
    <2> HIDE DEF R
    <2>2. /\ IsTable(InsertObject(R, a, RestoreTime))
          /\ \A s \in Sections \ {Objects} : InsertObject(R, a, RestoreTime)[s] = R[s]
        BY <2>1, InsertObjectRows
    <2>3. Q = InsertObject(R, a, RestoreTime)
        BY DEF R
    <2> HIDE DEF Q
    <2>4. Q[Items] = R[Items] /\ Q[Refs] = R[Refs] /\ Q[Snapshots] = R[Snapshots]
        BY <2>2, <2>3, SectionCases, Distinct
    <2>5. RefsLinked(Q)
        BY <2>1, <2>4, LinkedSame
    <2> QED
        BY <2>2, <2>3, <2>5
<1> HIDE DEF u, Q
<1>9. /\ new.status = dst.status /\ new.aux = dst.aux /\ new.timed = dst.timed
      /\ new \in [status : {new.status}, log : {new.log}, aux : {new.aux}, timed : {new.timed}]
      /\ new.log = [dst.log EXCEPT !.used_bytes = u, !.rows = Q]
    BY <1>3 DEF AuxShape
<1> HIDE DEF new
<1> DEFINE l == [dst.log EXCEPT !.used_bytes = u, !.rows = Q]
<1>10. /\ l \in [head : {l.head}, retained_from : {l.retained_from}, used_bytes : {l.used_bytes},
                 settings : {l.settings}, rows : {l.rows}]
       /\ l.rows = Q /\ l.settings = dst.log.settings
    BY <1>3 DEF LogShape
<1> HIDE DEF l
<1>11. new.log = l
    BY <1>9 DEF l
<1>12. LogShape(new.log) /\ AuxShape(new)
    BY <1>3, <1>8, <1>9, <1>10, <1>11 DEF LogShape, AuxShape
<1>13. Target(new)
    BY <1>2, <1>3, <1>6, <1>7, <1>8, <1>9, <1>10, <1>11, <1>12, EarlyTarget
<1> QED
    BY <1>1, <1>2, <1>9, <1>13, PublishTarget

\* A snapshot: it is refused once the auxiliary pages have begun.
LEMMA ImportSnapshotTarget ==
    ASSUME IndBackup, IndRestore, NEW x, ImportSnapshot(x)
    PROVE  IndRestore'
<1> DEFINE A == EdgesOf(x)
           Q == InsertSnapshot(dst.log.rows, x, A, RestoreTime)
           new == [dst EXCEPT !.log.rows = Q]
<1>1. /\ dst.status = "importing" /\ RestoreAuxGuard(TRUE, FALSE) /\ Publish(new)
      /\ uploads' = uploads
    BY DEF ImportSnapshot
<1>2. Target(dst)
    BY DEF IndRestore
<1>3. /\ LogShape(dst.log) /\ AuxShape(dst) /\ RefsLinked(dst.log.rows)
      /\ dst.log.settings = archive.log.settings
      /\ dst.aux.page # 0 => dst.aux.begun
      /\ dst.aux.done => dst.aux.page # 0
    BY <1>1, <1>2 DEF Target
<1>4. dst.aux.page = 0 /\ ~dst.aux.done
    BY <1>1, <1>3 DEF RestoreAuxGuard
<1>5. RefsLinked(Q) /\ IsTable(Q)
    <2> DEFINE R == dst.log.rows
    <2>1. IsTable(R) /\ RefsLinked(R)
        BY <1>3, Zenon DEF LogShape
    <2> HIDE DEF R, A
    <2>2. /\ RefsLinked(InsertSnapshot(R, x, A, RestoreTime))
          /\ IsTable(InsertSnapshot(R, x, A, RestoreTime))
        BY <2>1, LinkedSnapshot, InsertSnapshotRows, Zenon
    <2> QED
        BY <2>2, Zenon DEF R
<1> HIDE DEF Q
<1>6. /\ new.status = dst.status /\ new.aux = dst.aux /\ new.timed = dst.timed
      /\ new \in [status : {new.status}, log : {new.log}, aux : {new.aux}, timed : {new.timed}]
      /\ new.log = [dst.log EXCEPT !.rows = Q]
    BY <1>3 DEF AuxShape
<1> HIDE DEF new
<1> DEFINE l == [dst.log EXCEPT !.rows = Q]
<1>7. /\ l \in [head : {l.head}, retained_from : {l.retained_from}, used_bytes : {l.used_bytes},
                settings : {l.settings}, rows : {l.rows}]
      /\ l.rows = Q /\ l.settings = dst.log.settings
    BY <1>3 DEF LogShape
<1> HIDE DEF l
<1>8. new.log = l
    BY <1>6 DEF l
<1>9. LogShape(new.log) /\ AuxShape(new)
    BY <1>3, <1>5, <1>6, <1>7, <1>8 DEF LogShape, AuxShape
<1>10. Target(new)
    BY <1>1, <1>3, <1>4, <1>5, <1>6, <1>7, <1>8, <1>9, EarlyTarget
<1> QED
    BY <1>1, <1>6, <1>10, PublishTarget

LEMMA RestoreAuxBeginTarget ==
    ASSUME IndBackup, IndRestore, RestoreAuxBegin
    PROVE  IndRestore'
<1> DEFINE new == [dst EXCEPT !.aux.begun = TRUE]
<1>1. dst.status = "importing" /\ ~dst.aux.begun /\ Publish(new) /\ uploads' = uploads
    BY DEF RestoreAuxBegin
<1>2. Target(dst)
    BY DEF IndRestore
<1>3. /\ LogShape(dst.log) /\ AuxShape(dst) /\ RefsLinked(dst.log.rows)
      /\ dst.log.settings = archive.log.settings
      /\ dst.aux.page # 0 => dst.aux.begun
      /\ dst.aux.done => dst.aux.page # 0
    BY <1>1, <1>2 DEF Target
<1>4. dst.aux.page = 0 /\ ~dst.aux.done
    BY <1>1, <1>3
<1>5. /\ new.status = dst.status /\ new.log = dst.log
      /\ new.aux.page = dst.aux.page /\ new.aux.done = dst.aux.done /\ AuxShape(new)
    BY <1>3 DEF AuxShape
<1> HIDE DEF new
<1>6. Target(new)
    BY <1>1, <1>3, <1>4, <1>5, EarlyTarget
<1> QED
    BY <1>1, <1>5, <1>6, PublishTarget

\* An auxiliary page over the accounting of the plan; the last one brings the tokens.
LEMMA RestoreAuxPageTarget ==
    ASSUME IndBackup, IndRestore, RestoreAuxPage
    PROVE  IndRestore'
<1> DEFINE n == dst.aux.page + 1
           page == archive.pages[n]
           last == n = Len(archive.pages)
           rows == Timed(dst.log.rows, page)
           taken == Archived(Tokens)
           Q == IF last THEN [rows EXCEPT ![Tokens] = taken] ELSE rows
           ax == [begun |-> TRUE, page |-> n, done |-> last]
           new == [dst EXCEPT !.aux = ax, !.log.rows = Q]
<1>1. /\ dst.status = "importing" /\ dst.aux.begun /\ dst.aux.page < Len(archive.pages)
      /\ <<dst.log.head, dst.log.used_bytes>> = <<Plan.head, Plan.used_bytes>>
      /\ Matches(page)
      /\ Publish(new) /\ uploads' = uploads
    BY Zenon DEF RestoreAuxPage
<1>2. Target(dst) /\ archive.complete
    BY <1>1 DEF IndRestore, Publish
<1>3. /\ LogShape(dst.log) /\ AuxShape(dst) /\ RefsLinked(dst.log.rows)
      /\ dst.log.settings = archive.log.settings
      /\ \A q \in 1..dst.aux.page : TimesRight(dst.log.rows, archive.pages[q])
    BY <1>1, <1>2 DEF Target
<1>4. dst.aux.page \in Nat /\ Len(archive.pages) \in Nat
    <2>1. dst.aux.page \in Nat
        BY <1>3 DEF AuxShape
    <2>2. Len(archive.pages) \in Nat
        BY <1>2, ArchiveParts
    <2> QED
        BY <2>1, <2>2
<1>5. n \in 1..Len(archive.pages) /\ n # 0 /\ n \in Nat /\ n - 1 = dst.aux.page
    BY <1>1, <1>4
<1>6. dst.log.head = archive.log.head /\ dst.log.used_bytes = archive.log.used_bytes
    <2>1. \A a, b, c, d : <<a, b>> = <<c, d>> => a = c /\ b = d
        OBVIOUS
    <2>2. dst.log.head = Plan.head /\ dst.log.used_bytes = Plan.used_bytes
        BY <1>1, <2>1, Zenon
    <2> QED
        BY <2>2, PlanParts
<1>7. /\ IsTable(rows) /\ RefsLinked(rows)
      /\ \A q \in 1..n : TimesRight(rows, archive.pages[q])
    <2> DEFINE R == dst.log.rows
    <2>1. IsTable(R) /\ RefsLinked(R)
        BY <1>3, Zenon DEF LogShape
    <2>2. page.section # Tokens =>
              BareRows(page.section, page.rows) \subseteq BareRows(page.section, R[page.section])
        BY <1>1, Zenon DEF Matches
    <2>3. \A q \in 1..(n - 1) : TimesRight(R, archive.pages[q])
        BY <1>3, <1>5
    <2> HIDE DEF R, n
    <2>4. /\ IsTable(Timed(R, archive.pages[n]))
          /\ RefsLinked(Timed(R, archive.pages[n]))
          /\ \A q \in 1..n : TimesRight(Timed(R, archive.pages[n]), archive.pages[q])
        BY <1>2, <1>5, <2>1, <2>2, <2>3, TimedRight, Zenon
    <2> QED
        BY <2>4, Zenon DEF R
<1> HIDE DEF rows, page, taken
<1>8. /\ IsTable(Q) /\ RefsLinked(Q)
      /\ \A q \in 1..n : TimesRight(Q, archive.pages[q])
      /\ last => Q[Tokens] = taken
    <2>1. CASE ~last
        BY <1>7, <2>1
    <2>2. CASE last
        <3>1. Q = [s \in Sections |-> IF s = Tokens THEN taken ELSE rows[s]]
            BY <1>7, <2>2, SectionCases DEF IsTable
        <3> HIDE DEF Q
        <3>2. /\ IsTable(Q) /\ Q[Tokens] = taken
              /\ Q[Items] = rows[Items] /\ Q[Refs] = rows[Refs] /\ Q[Snapshots] = rows[Snapshots]
              /\ Q[Objects] = rows[Objects]
            BY <3>1, SectionCases, Distinct DEF IsTable
        <3>3. RefsLinked(Q)
            BY <1>7, <3>2, LinkedSame
        <3>4. \A q \in 1..n : TimesRight(Q, archive.pages[q])
            <4> SUFFICES ASSUME NEW q \in 1..n PROVE TimesRight(Q, archive.pages[q])
                OBVIOUS
            <4>1. TimesRight(rows, archive.pages[q])
                BY <1>7
            <4>2. archive.pages[q].section \in {Items, Objects} =>
                      Q[archive.pages[q].section] = rows[archive.pages[q].section]
                BY <3>2
            <4> QED
                BY <4>1, <4>2 DEF TimesRight
        <3> QED
            BY <3>2, <3>3, <3>4
    <2> QED
        BY <2>1, <2>2
<1> HIDE DEF Q
<1>9. /\ ax \in [begun : {ax.begun}, page : {ax.page}, done : {ax.done}]
      /\ ax.begun = TRUE /\ ax.page = n /\ ax.done \in BOOLEAN /\ (ax.done => last)
    OBVIOUS
<1> HIDE DEF ax
<1>10. /\ new.status = dst.status /\ new.aux = ax /\ new.timed = dst.timed
       /\ new \in [status : {new.status}, log : {new.log}, aux : {new.aux}, timed : {new.timed}]
       /\ new.log = [dst.log EXCEPT !.rows = Q]
    BY <1>3 DEF AuxShape
<1> HIDE DEF new
<1> DEFINE l == [dst.log EXCEPT !.rows = Q]
<1>11. /\ l \in [head : {l.head}, retained_from : {l.retained_from}, used_bytes : {l.used_bytes},
                 settings : {l.settings}, rows : {l.rows}]
       /\ l.rows = Q /\ l.settings = dst.log.settings
       /\ l.head = dst.log.head /\ l.used_bytes = dst.log.used_bytes
    BY <1>3 DEF LogShape
<1> HIDE DEF l
<1>12. new.log = l
    BY <1>10 DEF l
<1>13. LogShape(new.log) /\ AuxShape(new)
    <2>1. LogShape(l)
        BY <1>8, <1>11 DEF LogShape
    <2>2. AuxShape(new)
        BY <1>5, <1>9, <1>10 DEF AuxShape
    <2> QED
        BY <1>12, <2>1, <2>2
<1>14. \A q \in 1..n : q <= Len(archive.pages)
    BY <1>4, <1>5
<1>15. ax.done => ax.page = Len(archive.pages) /\ l.rows[Tokens] = Archived(Tokens)
    BY <1>8, <1>9, <1>11 DEF taken
<1> HIDE DEF n, last
<1>16. Target(new)
    <2>1. new.status = "importing"
        BY <1>1, <1>10
    <2>2. new.aux.begun = TRUE /\ new.aux.page = n /\ new.log = l /\ new.aux = ax
        BY <1>9, <1>10, <1>12
    <2>3. RefsLinked(new.log.rows) /\ new.log.settings = archive.log.settings
          /\ new.log.head = archive.log.head /\ new.log.used_bytes = archive.log.used_bytes
        BY <1>3, <1>6, <1>8, <1>11, <2>2
    <2>4. \A q \in 1..new.aux.page : q <= Len(archive.pages) /\ TimesRight(new.log.rows, archive.pages[q])
        BY <1>8, <1>11, <1>14, <2>2
    <2>5. new.aux.done => new.aux.page = Len(archive.pages) /\ new.aux.page # 0
                          /\ new.log.rows[Tokens] = Archived(Tokens)
        BY <1>5, <1>15, <2>2
    <2> QED
        BY <1>13, <2>1, <2>2, <2>3, <2>4, <2>5 DEF Target
<1> QED
    BY <1>1, <1>10, <1>16, PublishTarget

\* An empty target is one, whatever the archive.
LEMMA AbsentTarget == Target(Absent) /\ Target(Absent)'
<1>1. /\ Absent.status = "absent" /\ Absent.log = NewLog /\ Absent.aux = NoAux
      /\ AuxShape(Absent)
    BY DEF Absent, NoAux, AuxShape
<1>2. RefsLinked(Blank) /\ IsTable(Blank)
    BY SectionCases DEF Blank, RefsLinked, IsTable
<1>3. NewLog.rows = Blank /\ LogShape(NewLog)
    <2> DEFINE B == Blank
    <2>1. IsTable(B) /\ NewLog.rows = B
        BY <1>2 DEF NewLog
    <2> HIDE DEF B
    <2>2. NewLog \in [head : {NewLog.head}, retained_from : {NewLog.retained_from},
                      used_bytes : {NewLog.used_bytes}, settings : {NewLog.settings},
                      rows : {NewLog.rows}]
        BY DEF NewLog
    <2> QED
        BY <2>1, <2>2 DEF LogShape, B
<1>4. NoAux.page = 0 /\ NoAux.done = FALSE /\ 1..0 = {}
    BY DEF NoAux
<1> HIDE DEF Absent
<1> QED
    BY <1>1, <1>2, <1>3, <1>4 DEF Target

\* A step after which the target, what waits and the uploads are in order.
LEMMA KeepRestore ==
    ASSUME NEW d, NEW w, archive' = archive, dst' = d, writer' = w, Target(d),
           w # None => Target(w) /\ w.status # "absent",
           uploads' # {} => d.status # "absent",
           ~archive.complete => d = Absent /\ w = None /\ uploads' = {}
    PROVE  IndRestore'
<1>1. Target(d)' /\ (w # None => Target(w)')
    BY SameTarget
<1>2. Target(dst)' /\ (w # None => Target(writer)')
    BY <1>1, Zenon DEF Target, Archived, Restored
<1> QED
    BY <1>2 DEF IndRestore

\* Every step keeps the target in order.
LEMMA NextRestore ==
    ASSUME IndBackup, IndLinked, IndRestore, [Next]_vars
    PROVE  IndRestore'
<1>1. PICK d, w : d = dst /\ w = writer
    OBVIOUS
<1>2. /\ Target(d)
      /\ w # None => Target(w) /\ w.status # "absent"
      /\ uploads # {} => d.status # "absent"
      /\ ~archive.complete => d = Absent /\ w = None /\ uploads = {}
    BY <1>1 DEF IndRestore
<1>3. ASSUME archive' = archive, dst' = dst, writer' = writer, uploads' \subseteq uploads
      PROVE  IndRestore'
    BY <1>1, <1>2, <1>3, KeepRestore
<1>4. CASE UNCHANGED vars
    BY <1>3, <1>4 DEF vars, sourceVars, targetVars
<1>5. CASE SourceStep
    BY <1>3, <1>5 DEF SourceStep, Append1, PutObject, Gc, PutSnapshot, EndorseSnapshot, Compact,
       SetQuota, Write, targetVars
<1>6. CASE BackupStep
    <2>1. CASE LoseSource
        BY <1>3, <2>1 DEF LoseSource, targetVars
    <2>2. CASE Cut
        <3>1. dst' = Absent /\ writer' = None /\ uploads' = {}
            BY <1>1, <1>2, <2>2 DEF Cut, targetVars
        <3>2. Target(dst)'
            BY <3>1, AbsentTarget, Zenon DEF Target, Archived, Restored
        <3> QED
            BY <3>1, <3>2 DEF IndRestore
    <2> QED
        BY <1>6, <2>1, <2>2 DEF BackupStep, BackupBegin, BackupPage, BackupFinish, BackupPageAgain,
           BackupAbort
<1>7. CASE RestoreStep
    <2>1. ASSUME NEW page, NEW done \in BOOLEAN, Import(page, done)
          PROVE  IndRestore'
        BY <2>1, ImportTarget
    <2>2. ASSUME NEW a \in 1..MaxObject, ImportObject(a)
          PROVE  IndRestore'
        <3>1. /\ archive.complete /\ dst.status = "importing" /\ archive' = archive /\ dst' = dst
              /\ writer' = writer
            BY <2>2 DEF ImportObject, sourceVars
        <3> QED
            BY <1>1, <1>2, <3>1, KeepRestore
    <2>3. ASSUME NEW a \in 1..MaxObject, ObjectDone(a)
          PROVE  IndRestore'
        <3>1. archive' = archive /\ dst' = dst /\ writer' = writer /\ uploads' \subseteq uploads
            BY <2>3 DEF ObjectDone, sourceVars
        <3> QED
            BY <1>3, <3>1
    <2>4. CASE Commit
        <3>1. /\ w # None /\ writer' = None /\ dst' = (IF denied THEN d ELSE w)
              /\ archive' = archive /\ uploads' = uploads
            BY <1>1, <2>4 DEF Commit, sourceVars
        <3>2. archive.complete
            BY <1>2, <3>1
        <3>3. CASE denied
            <4>1. dst' = d
                BY <3>1, <3>3
            <4> QED
                BY <1>2, <3>1, <3>2, <4>1, KeepRestore
        <3>4. CASE ~denied
            <4>1. dst' = w
                BY <3>1, <3>4
            <4> QED
                BY <1>2, <3>1, <3>2, <4>1, KeepRestore
        <3> QED
            BY <3>3, <3>4
    <2>5. CASE Cancel
        <3>1. /\ w # None /\ writer' = None /\ dst' = d /\ archive' = archive /\ uploads' = uploads
            BY <1>1, <2>5 DEF Cancel, sourceVars
        <3>2. archive.complete
            BY <1>2, <3>1
        <3> QED
            BY <1>2, <3>1, <3>2, KeepRestore
    <2> QED
        BY <1>7, <2>1, <2>2, <2>3, <2>4, <2>5, RecordObjectTarget, ImportSnapshotTarget,
           RestoreAuxBeginTarget, RestoreAuxPageTarget DEF RestoreStep
<1>8. CASE DeletionStep
    <2>1. CASE DeleteLog
        <3> DEFINE g == [d EXCEPT !.status = "gone"]
        <3>1. /\ dst' = g /\ d.status # "absent" /\ w = None /\ writer' = w /\ archive' = archive
              /\ uploads' = uploads
            BY <1>1, <2>1 DEF DeleteLog, sourceVars
        <3>2. archive.complete
            BY <1>2, <3>1 DEF Absent
        <3>3. /\ g.status = "gone" /\ g.log = d.log /\ g.aux = d.aux
              /\ g \in [status : {g.status}, log : {g.log}, aux : {g.aux}, timed : {g.timed}]
            BY <1>2 DEF Target, AuxShape
        <3> HIDE DEF g
        <3>4. Target(g)
            BY <1>2, <3>1, <3>3 DEF Target, AuxShape
        <3> QED
            BY <1>2, <3>1, <3>2, <3>3, <3>4, KeepRestore
    <2> QED
        BY <1>3, <1>8, <2>1 DEF DeletionStep, RecordCollectionDeletion, BeginCollectionClosing,
           DestinationClose, sourceVars, targetVars
<1> QED
    BY <1>4, <1>5, <1>6, <1>7, <1>8 DEF Next

\* A target that goes live after a strict restore is the source at the cut, whatever was written
\* to the source during the backup, and however the calls of the restore were repeated, mixed,
\* cancelled or denied (import, import_object, import_snapshot, restore_aux_page, DoTxn::commit).
THEOREM RestoredAlwaysCut == Spec => []RestoredIsCut
<1>1. Init => IndBackup /\ IndLinked /\ IndRestore
    <2> SUFFICES ASSUME Init PROVE IndBackup /\ IndLinked /\ IndRestore
        OBVIOUS
    <2>1. dst = Absent /\ writer = None /\ uploads = {}
        BY DEF Init
    <2>2. Target(dst)
        BY <2>1, AbsentTarget
    <2> QED
        BY <2>1, <2>2, InitBackup, InitLinked DEF IndRestore
<1>2. IndBackup /\ IndLinked /\ IndRestore /\ [Next]_vars => (IndBackup /\ IndLinked /\ IndRestore)'
    BY NextBackup, NextLinked, NextRestore
<1>3. IndRestore => RestoredIsCut
    BY Zenon DEF IndRestore, Target, Restored, RestoredIsCut
<1> QED
    BY <1>1, <1>2, <1>3, PTL DEF Spec
=============================================================================
