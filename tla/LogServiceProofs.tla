-------------------------- MODULE LogServiceProofs --------------------------
(***************************************************************************)
(* Theorems about LogService, for every set of devices, accounts, tokens   *)
(* and batches and every value of the bounds.                              *)
(*                                                                         *)
(* The inductive invariants are layered: IndType is inductive by itself,   *)
(* the others are inductive relative to it.                                *)
(***************************************************************************)
EXTENDS LogService, LogPolicyProofs, FiniteSetTheorems

\* Clients only seal well-formed batches.
NetOk == \A m \in 1..Len(net) : WellFormed(net[m])

\* The item an open transaction is at, once its policy header was checked.
HeaderChecked ==
    /\ tx.i <= Len(Request.items)
    /\ CurrentItem.kind = "policy"
    /\ CurrentItem.policy.root \in PinnedRoots
    /\ CurrentSeq = 1 => /\ CurrentItem.policy.ops[1].op = "genesis"
                         /\ CurrentItem.policy.ops[1].root = CurrentItem.policy.root

\* An open transaction is for the current head: the head cannot move while it is open.
TxOk ==
    tx.mid # 0 =>
        /\ HeadOk(tx.mid)
        /\ tx.i \in 1..(Len(Request.items) + 1)
        /\ tx.j > 0 => HeaderChecked

KeptOk == kept \subseteq 1..head

IndType == TypeOK /\ NetOk /\ TxOk /\ KeptOk

-----------------------------------------------------------------------------
\* What the item under check is: a typed payload at a position.
LEMMA CurrentItemTyped ==
  ASSUME IndType, tx.mid # 0, tx.i <= Len(Request.items)
  PROVE  /\ Request \in Requests
         /\ CurrentItem \in Payloads
         /\ CurrentItem.epoch \in Nat
         /\ CurrentSeq \in Nat \ {0}
         /\ CurrentSeq = Request.first + tx.i - 1
         /\ CurrentItem.kind = "policy" => /\ CurrentItem.policy \in Policies
                                           /\ CurrentItem.policy.issued_at \in Nat
                                           /\ CurrentItem.policy.ops \in Seq(PolicyOps)
         /\ CurrentItem.kind # "policy" => CurrentItem.signer \in Devices
<1>1. tx.mid \in 1..Len(net) /\ Request \in Requests
  BY DEF IndType, TypeOK, Request
<1>2. tx.i \in 1..Len(Request.items)
  BY DEF IndType, TxOk, TypeOK
<1>3. CurrentItem \in Payloads
  BY <1>1, <1>2 DEF CurrentItem, Requests
<1>4. CurrentSeq \in Nat \ {0} /\ CurrentSeq = Request.first + tx.i - 1
  BY <1>1, <1>2 DEF CurrentSeq, Requests
<1>5. WellFormed(Request)
  BY <1>1 DEF IndType, NetOk, Request
<1>6. CurrentItem.kind = "policy" => CurrentItem.policy \in Policies
  BY <1>2, <1>3, <1>5 DEF WellFormed, CurrentItem, Payloads
<1>7. CurrentItem.kind # "policy" => CurrentItem.signer \in Devices
  BY <1>2, <1>3, <1>5 DEF WellFormed, CurrentItem, Payloads
<1>8. \A p \in Policies : p.issued_at \in Nat /\ p.ops \in Seq(PolicyOps)
  BY DEF Policies
<1>9. CurrentItem.epoch \in Nat
  BY <1>3 DEF Payloads
<1> QED
  BY <1>1, <1>3, <1>4, <1>6, <1>7, <1>8, <1>9

\* The initial state.
LEMMA InitType == Init => IndType
<1> SUFFICES ASSUME Init PROVE IndType
  OBVIOUS
<1> USE DEF Init
<1>1. BlankState \in TransportState
  BY BlankTyped
<1>2. NoTx \in [mid: Nat, now: Nat, ws: TransportState, i: Nat, j: Nat,
                revoked: SUBSET Revocations]
  BY <1>1 DEF NoTx
<1>3. TypeOK
  BY <1>1, <1>2, ServiceAssumption DEF TypeOK, NoTx
<1>4. NetOk /\ TxOk /\ KeptOk
  BY DEF NetOk, TxOk, KeptOk, NoTx, head
<1> QED
  BY <1>3, <1>4 DEF IndType

TxType == [mid: Nat, now: Nat, ws: TransportState, i: Nat, j: Nat, revoked: SUBSET Revocations]

\* A step that changes only the transaction keeps the type invariant when the new
\* transaction is well typed and at a valid place of its request.
LEMMA TxStepType ==
  ASSUME IndType, tx' \in TxType, tx'.mid \in 0..Len(net), TxOk',
         UNCHANGED <<clientVars, durableVars, acks, revs>>
  PROVE  IndType'
<1>1. TypeOK'
  BY DEF IndType, TypeOK, TxType, clientVars, durableVars
<1>2. NetOk'
  BY DEF IndType, NetOk, clientVars
<1>3. KeptOk'
  BY DEF IndType, KeptOk, head, durableVars
<1> QED
  BY <1>1, <1>2, <1>3 DEF IndType

\* A reading of the clock is a natural number.
LEMMA RecentNat == ASSUME TypeOK PROVE Recent \subseteq Nat
  BY DEF Recent, TypeOK

\* The closed transaction is a transaction record.
LEMMA NoTxTyped == NoTx \in TxType
  BY BlankTyped DEF NoTx, TxType

\* How a transaction record is updated.
LEMMA TxUpdate ==
  ASSUME NEW t \in TxType
  PROVE  /\ \A w \in TransportState, i \in Nat : [t EXCEPT !.ws = w, !.i = i] \in TxType
         /\ \A w \in TransportState, i \in Nat, j \in Nat :
                [t EXCEPT !.ws = w, !.i = i, !.j = j] \in TxType
         /\ \A w \in TransportState, j \in Nat, R \in SUBSET Revocations :
                [t EXCEPT !.ws = w, !.j = j, !.revoked = t.revoked \cup R] \in TxType
         /\ \A m \in Nat, now \in Nat : [t EXCEPT !.mid = m, !.now = now] \in TxType
         /\ \A m \in Nat, now \in Nat, w \in TransportState :
                [t EXCEPT !.mid = m, !.now = now, !.ws = w] \in TxType
  BY DEF TxType

\* An append that is opened.
LEMMA OpenType ==
  ASSUME IndType, NEW m \in 1..Len(net), AppendBegin(m) \/ CreateLog(m)
  PROVE  IndType'
<1>1. PICK now \in Recent : tx' = [NoTx EXCEPT !.mid = m, !.now = now, !.ws = st]
                             \/ tx' = [NoTx EXCEPT !.mid = m, !.now = now]
  BY DEF AppendBegin, CreateLog
<1>2. UNCHANGED <<clientVars, durableVars, acks, revs>>
  BY DEF AppendBegin, CreateLog
<1>3. now \in Nat /\ m \in Nat /\ st \in TransportState
  BY RecentNat DEF IndType, TypeOK
<1>4. tx' \in TxType /\ tx'.mid = m /\ tx'.i = 1 /\ tx'.j = 0
  <2>1. tx' \in TxType
    <3>1. [NoTx EXCEPT !.mid = m, !.now = now] \in TxType
      BY <1>3, NoTxTyped, TxUpdate, Zenon
    <3>2. [NoTx EXCEPT !.mid = m, !.now = now, !.ws = st] \in TxType
      BY <1>3, NoTxTyped, TxUpdate, Zenon
    <3> QED
      BY <1>1, <3>1, <3>2, Zenon
  <2> QED
    BY <2>1, <1>1 DEF NoTx
<1>5. HeadOk(m)
  <2>1. CASE CreateLog(m)
    <3>1. head = 0 /\ net[m].first = 1 /\ net[m].prev = ChainZero
      BY <2>1 DEF CreateLog, head
    <3> QED
      BY <3>1 DEF HeadOk, ChainAt
  <2>2. CASE AppendBegin(m)
    BY <2>2 DEF AppendBegin
  <2> QED
    BY <2>1, <2>2
<1>6. net' = net /\ log' = log
  BY <1>2 DEF clientVars, durableVars
<1>7. net[m].items \in Seq(Payloads)
  <2>1. net[m] \in Requests
    BY DEF IndType, TypeOK
  <2> QED
    BY <2>1 DEF Requests
<1>8. TxOk'
  BY <1>4, <1>5, <1>6, <1>7 DEF TxOk, HeadOk, head, ChainAt, Request
<1> QED
  BY <1>2, <1>4, <1>8, TxStepType

\* An item, or a part of one, that is checked.
LEMMA CheckType ==
  ASSUME IndType, CheckDeviceItem \/ CheckPolicyHeader \/ ApplyPolicyOp \/ FinishPolicy
  PROVE  IndType'
<1>1. tx.mid # 0 /\ tx.i <= Len(Request.items) /\ UNCHANGED <<clientVars, durableVars, acks, revs>>
  BY DEF CheckDeviceItem, CheckPolicyHeader, ApplyPolicyOp, FinishPolicy
<1>2. net' = net /\ log' = log
  BY <1>1 DEF clientVars, durableVars
<1>3. tx \in TxType /\ tx.ws \in TransportState /\ tx.i \in Nat /\ tx.mid \in 1..Len(net)
      /\ HeadOk(tx.mid) /\ tx.i \in 1..(Len(Request.items) + 1)
  BY <1>1 DEF IndType, TypeOK, TxType, TxOk
<1>4. Len(Request.items) \in Nat
  BY <1>1, CurrentItemTyped DEF Requests
<1>5. CASE CheckDeviceItem
  <2>1. DeviceItemEffect(tx.ws, CurrentItem) \in TransportState
    BY <1>1, <1>3, CurrentItemTyped, DeviceItemTyped
  <2>2. tx.j = 0
    BY <1>1, <1>5 DEF IndType, TypeOK, TxOk, HeaderChecked, CheckDeviceItem
  <2>3. tx' \in TxType /\ tx'.mid = tx.mid /\ tx'.i = tx.i + 1 /\ tx'.j = 0
    <3>1. tx' = [tx EXCEPT !.ws = DeviceItemEffect(tx.ws, CurrentItem), !.i = tx.i + 1]
      BY <1>5 DEF CheckDeviceItem
    <3>2. tx' \in TxType
      <4>1. tx.i + 1 \in Nat /\ 0 \in Nat
        BY <1>3
      <4> QED
        BY <4>1, <3>1, <2>1, <1>3, TxUpdate, Zenon
    <3> QED
      BY <3>1, <3>2, <2>2, <1>3 DEF TxType
  <2>4. TxOk'
    BY <2>3, <1>1, <1>2, <1>3, <1>4 DEF TxOk, HeadOk, head, ChainAt, Request
  <2> QED
    BY <2>3, <2>4, <1>1, <1>3, TxStepType
<1>6. CASE CheckPolicyHeader
  <2>1. tx' \in TxType /\ tx'.mid = tx.mid /\ tx'.i = tx.i /\ tx'.j = 1
    BY <1>3, <1>6 DEF TxType, CheckPolicyHeader
  <2>2. HeaderChecked
    BY <1>6 DEF CheckPolicyHeader, PolicyHeaderOk, HeaderChecked
  <2>3. HeaderChecked'
    BY <2>1, <2>2, <1>2 DEF HeaderChecked, Request, CurrentItem, CurrentSeq
  <2>4. TxOk'
    BY <2>1, <2>3, <1>1, <1>2, <1>3 DEF TxOk, HeadOk, head, ChainAt, Request
  <2> QED
    BY <2>1, <2>4, <1>1, <1>3, TxStepType
<1>7. CASE ApplyPolicyOp
  <2> DEFINE o == CurrentItem.policy.ops[tx.j]
             new == {[device |-> d, seq |-> CurrentSeq, epoch |-> tx.ws.epoch] :
                        d \in OpRevokes(tx.ws, o)}
  <2>1. o \in PolicyOps /\ OpOk(tx.ws, o, CurrentSeq, tx.j) /\ tx.j \in Nat \ {0}
    BY <1>1, <1>7, CurrentItemTyped DEF ApplyPolicyOp
  <2>2. HeaderChecked
    BY <1>1, <2>1 DEF IndType, TxOk
  <2>3. RootPinned(o)
    BY <2>1, <2>2 DEF RootPinned, HeaderChecked, OpOk
  <2>4. OpEffect(tx.ws, o) \in TransportState
    BY <2>1, <2>3, <1>3, OpTyped
  <2>5. new \subseteq Revocations
    <3>1. \A d \in OpRevokes(tx.ws, o) : d \in Devices
      BY <2>1, <1>3, OpRevocation
    <3>2. CurrentSeq \in Nat /\ tx.ws.epoch \in Nat
      BY <1>1, <1>3, CurrentItemTyped DEF TransportState
    <3> QED
      BY <3>1, <3>2 DEF Revocations
  <2>6. tx' = [tx EXCEPT !.ws = OpEffect(tx.ws, o), !.j = tx.j + 1, !.revoked = tx.revoked \cup new]
    BY <1>7 DEF ApplyPolicyOp
  <2> HIDE DEF o, new
  <2>7. tx' \in TxType /\ tx'.mid = tx.mid /\ tx'.i = tx.i
    <3>1. tx' \in TxType
      <4>1. tx.j + 1 \in Nat /\ new \in SUBSET Revocations
        BY <2>1, <2>5
      <4> QED
        BY <4>1, <2>4, <2>6, <1>3, TxUpdate, Zenon
    <3> QED
      BY <3>1, <2>6, <1>3 DEF TxType
  <2>8. HeaderChecked'
    BY <2>7, <2>2, <1>2 DEF HeaderChecked, Request, CurrentItem, CurrentSeq
  <2>9. TxOk'
    BY <2>7, <2>8, <1>1, <1>2, <1>3 DEF TxOk, HeadOk, head, ChainAt, Request
  <2> QED
    BY <2>7, <2>9, <1>1, <1>3, TxStepType
<1>8. CASE FinishPolicy
  <2>1. PolicyEnd(tx.ws, CurrentItem.policy) \in TransportState
    BY <1>1, <1>3, <1>8, CurrentItemTyped, PolicyEndTyped DEF FinishPolicy
  <2>2. tx' \in TxType /\ tx'.mid = tx.mid /\ tx'.i = tx.i + 1 /\ tx'.j = 0
    <3>1. tx' = [tx EXCEPT !.ws = PolicyEnd(tx.ws, CurrentItem.policy),
                           !.i = tx.i + 1, !.j = 0]
      BY <1>8 DEF FinishPolicy
    <3>2. tx' \in TxType
      <4>1. tx.i + 1 \in Nat /\ 0 \in Nat
        BY <1>3
      <4> QED
        BY <4>1, <3>1, <2>1, <1>3, TxUpdate, Zenon
    <3> QED
      BY <3>1, <3>2, <1>3 DEF TxType
  <2>3. TxOk'
    BY <2>2, <1>1, <1>2, <1>3, <1>4 DEF TxOk, HeadOk, head, ChainAt, Request
  <2> QED
    BY <2>2, <2>3, <1>1, <1>3, TxStepType
<1> QED
  BY <1>5, <1>6, <1>7, <1>8

\* What a commit stores: the request's items, right after the head.
LEMMA CommitShape ==
  ASSUME IndType, AppendCommit
  PROVE  /\ tx.mid \in 1..Len(net)
         /\ Request \in Requests
         /\ Request = net[tx.mid]
         /\ Len(Request.items) \in Nat \ {0}
         /\ head \in Nat
         /\ Request.first = head + 1
         /\ Request.prev = ChainAt(head)
         /\ LastOf(tx.mid) = head + Len(Request.items)
         /\ log' \in Seq(Items)
         /\ Len(log') = head + Len(Request.items)
         /\ \A p \in 1..head : log'[p] = log[p]
         /\ \A ix \in 1..Len(Request.items) :
                log'[head + ix] = [id |-> <<tx.mid, ix>>,
                                   prev |-> IF ix = 1 THEN Request.prev ELSE <<tx.mid, ix - 1>>,
                                   body |-> Request.items[ix],
                                   at |-> tx.now]
<1> DEFINE m == tx.mid
           n == Len(Request.items)
<1>1. m \in 1..Len(net) /\ Request \in Requests /\ Request = net[m]
  BY DEF AppendCommit, IndType, TypeOK, Request
<1>2. WellFormed(Request)
  BY <1>1 DEF IndType, NetOk
<1>3. n \in Nat \ {0} /\ head \in Nat
  BY <1>1, <1>2 DEF WellFormed, Requests, IndType, TypeOK, head
<1>4. Request.first = head + 1 /\ Request.prev = ChainAt(head)
  <2>1. tx.mid # 0
    BY DEF AppendCommit
  <2> QED
    BY <2>1 DEF IndType, TxOk, HeadOk, Request
<1>5. LastOf(m) = head + n
  <2>1. LastOf(m) = Request.first + n - 1
    BY DEF LastOf, Request
  <2>2. \A a, b \in Nat : a + 1 + b - 1 = a + b
    OBVIOUS
  <2>3. Request.first = head + 1 /\ head \in Nat /\ n \in Nat
    BY <1>3, <1>4
  <2> HIDE DEF n
  <2> QED
    BY <2>1, <2>2, <2>3
<1>6. log' = [p \in 1..(head + n) |-> IF p <= head THEN log[p] ELSE ItemAt(m, p, tx.now)]
  BY <1>5 DEF AppendCommit
<1>7. \A p \in 1..(head + n) : p > head =>
          ItemAt(m, p, tx.now) =
              [id |-> <<m, p - head>>,
               prev |-> IF p - head = 1 THEN Request.prev ELSE <<m, (p - head) - 1>>,
               body |-> Request.items[p - head],
               at |-> tx.now]
  BY <1>1, <1>3, <1>4 DEF ItemAt
<1>8. \A p \in 1..(head + n) : p > head => ItemAt(m, p, tx.now) \in Items
  <2> SUFFICES ASSUME NEW p \in 1..(head + n), p > head
               PROVE  ItemAt(m, p, tx.now) \in Items
    OBVIOUS
  <2>1. p - head \in 1..n /\ (p - head) - 1 \in Nat
    BY <1>3
  <2>2. Request.items[p - head] \in Payloads
    BY <2>1, <1>1 DEF Requests
  <2>3. Request.prev \in Ids /\ m \in Nat /\ tx.now \in Nat
    BY <1>1 DEF Requests, IndType, TypeOK
  <2>4. <<m, p - head>> \in Ids
        /\ (IF p - head = 1 THEN Request.prev ELSE <<m, (p - head) - 1>>) \in Ids
    BY <2>1, <2>3 DEF Ids
  <2>5. ItemAt(m, p, tx.now) =
            [id |-> <<m, p - head>>,
             prev |-> IF p - head = 1 THEN Request.prev ELSE <<m, (p - head) - 1>>,
             body |-> Request.items[p - head],
             at |-> tx.now]
    BY <1>7
  <2> QED
    BY <2>2, <2>3, <2>4, <2>5 DEF Items
<1>9. \A p \in 1..head : log[p] \in Items
  BY DEF IndType, TypeOK, head
<1> HIDE DEF m, n
<1>10. log' \in Seq(Items) /\ Len(log') = head + n
  BY <1>3, <1>6, <1>8, <1>9
<1>11. \A p \in 1..head : log'[p] = log[p]
  BY <1>3, <1>6
<1>12. \A ix \in 1..n : log'[head + ix] = ItemAt(m, head + ix, tx.now) /\ (head + ix) - head = ix
                         /\ head + ix \in 1..(head + n) /\ head + ix > head
  BY <1>3, <1>6
<1>13. \A ix \in 1..n : log'[head + ix] = [id |-> <<m, ix>>,
                                   prev |-> IF ix = 1 THEN Request.prev ELSE <<m, ix - 1>>,
                                   body |-> Request.items[ix],
                                   at |-> tx.now]
  BY <1>7, <1>12
<1> QED
  BY <1>1, <1>3, <1>4, <1>5, <1>10, <1>11, <1>13 DEF m, n

\* The same, field by field.
LEMMA CommitFields ==
  ASSUME IndType, AppendCommit, NEW ix \in 1..Len(Request.items)
  PROVE  /\ log'[head + ix].id = <<tx.mid, ix>>
         /\ log'[head + ix].prev = IF ix = 1 THEN Request.prev ELSE <<tx.mid, ix - 1>>
         /\ log'[head + ix].body = Request.items[ix]
         /\ log'[head + ix].at = tx.now
<1>1. log'[head + ix] = [id |-> <<tx.mid, ix>>,
                         prev |-> IF ix = 1 THEN Request.prev ELSE <<tx.mid, ix - 1>>,
                         body |-> Request.items[ix],
                         at |-> tx.now]
  BY CommitShape
<1> QED
  BY <1>1

\* The position a commit indexes a token under is a position of the batch.
LEMMA CommitTokenSeq ==
  ASSUME IndType, AppendCommit, NEW t \in BatchTokens(tx.mid)
  PROVE  (CHOOSE p \in net[tx.mid].first..LastOf(tx.mid) :
              net[tx.mid].items[p - net[tx.mid].first + 1].idem = t) \in Nat
<1> DEFINE m == tx.mid
           n == Len(Request.items)
<1>1. /\ Request = net[m] /\ n \in Nat \ {0} /\ head \in Nat
      /\ Request.first = head + 1 /\ LastOf(m) = head + n
  BY CommitShape
<1>2. net[m].first..LastOf(m) \subseteq Nat
  <2>1. net[m].first \in Nat /\ LastOf(m) \in Nat
    BY <1>1
  <2> QED
    BY <2>1
<1> SUFFICES \E p \in net[m].first..LastOf(m) : net[m].items[p - net[m].first + 1].idem = t
  BY <1>2, Zenon
<1>3. PICK ix \in 1..n : Request.items[ix].idem = t
  BY <1>1 DEF BatchTokens
<1>4. head + ix \in net[m].first..LastOf(m) /\ (head + ix) - net[m].first + 1 = ix
  <2>1. \A h, k \in Nat : \A x \in 1..k : h + x \in (h + 1)..(h + k) /\ (h + x) - (h + 1) + 1 = x
    OBVIOUS
  <2>2. head + ix \in (head + 1)..(head + n) /\ (head + ix) - (head + 1) + 1 = ix
    BY <1>1, <2>1, Zenon
  <2>3. net[m].first = head + 1 /\ LastOf(m) = head + n
    BY <1>1, Zenon
  <2> QED
    BY <2>2, <2>3, Zenon
<1> QED
  BY <1>1, <1>3, <1>4, Zenon

\* The commit of an append (step 11) keeps the typed state: the new log, tokens, receipt.
LEMMA CommitType == ASSUME IndType, AppendCommit PROVE IndType'
<1> DEFINE m == tx.mid
           n == Len(Request.items)
<1>1. /\ m \in 1..Len(net) /\ Request \in Requests /\ Request = net[m] /\ n \in Nat \ {0}
      /\ head \in Nat /\ Request.first = head + 1 /\ LastOf(m) = head + n
      /\ log' \in Seq(Items) /\ Len(log') = head + n
  BY CommitShape
<1>2. tx' = NoTx /\ net' = net /\ clock' = clock
      /\ UNCHANGED <<retained_from, snaps, archived, storage_bytes>>
  BY DEF AppendCommit, clientVars, retentionVars
<1>3. st' \in TransportState /\ used_bytes' \in Nat /\ revs' \in SUBSET Revocations
  <2>1. st' = tx.ws /\ used_bytes' = used_bytes + n /\ revs' = revs \cup tx.revoked
    BY DEF AppendCommit
  <2>2. tx.ws \in TransportState /\ used_bytes \in Nat /\ tx.revoked \subseteq Revocations
        /\ revs \subseteq Revocations
    BY DEF IndType, TypeOK
  <2> QED
    BY <2>1, <2>2, <1>1
<1>4. kept' \subseteq 1..(head + n)
  <2>1. kept' = kept \cup (head + 1)..(head + n)
    BY <1>1 DEF AppendCommit
  <2>2. kept \subseteq 1..head
    BY DEF IndType, KeptOk
  <2>3. \A h, k \in Nat : 1..h \subseteq 1..(h + k) /\ (h + 1)..(h + k) \subseteq 1..(h + k)
    OBVIOUS
  <2>4. head \in Nat /\ n \in Nat
    BY <1>1
  <2> HIDE DEF n
  <2> QED
    BY <2>1, <2>2, <2>3, <2>4
<1>5. tokens' \in [Tokens -> [seq: Nat, exp: Nat] \cup {None}]
  <2>1. tx.now + TokenRetention \in Nat
    BY ServiceAssumption DEF IndType, TypeOK
  <2>2. \A t \in BatchTokens(m) :
            (CHOOSE p \in net[m].first..LastOf(m) :
                 net[m].items[p - net[m].first + 1].idem = t) \in Nat
    BY CommitTokenSeq
  <2>3. tokens \in [Tokens -> [seq: Nat, exp: Nat] \cup {None}]
    BY DEF IndType, TypeOK
  <2>4. tokens' = InsertTokens(m, tx.now)
    BY DEF AppendCommit
  <2> QED
    BY <2>1, <2>2, <2>3, <2>4 DEF InsertTokens
<1>6. acks' \in SUBSET [mid: Nat, last: Nat, head_chain: Ids, at: Nat]
  <2>1. acks' = acks \cup {[mid |-> m, last |-> LastOf(m), head_chain |-> <<m, n>>, at |-> tx.now]}
    BY DEF AppendCommit
  <2>2. m \in Nat /\ LastOf(m) \in Nat /\ <<m, n>> \in Ids /\ tx.now \in Nat
    BY <1>1 DEF Ids, IndType, TypeOK
  <2>3. acks \in SUBSET [mid: Nat, last: Nat, head_chain: Ids, at: Nat]
    BY DEF IndType, TypeOK
  <2> HIDE DEF m, n
  <2>4. [mid |-> m, last |-> LastOf(m), head_chain |-> <<m, n>>, at |-> tx.now]
            \in [mid: Nat, last: Nat, head_chain: Ids, at: Nat]
    BY <2>2
  <2> QED
    BY <2>1, <2>3, <2>4
<1>7. TypeOK'
  <2>1. tx' \in TxType /\ tx'.mid = 0
    BY <1>2, NoTxTyped DEF NoTx
  <2>2. kept' \in SUBSET Nat
    BY <1>1, <1>4
  <2>3. net' \in Seq(Requests) /\ clock' \in Nat /\ retained_from' \in Nat
        /\ snaps' \in SUBSET [seq: Nat, author: Devices, at: Nat, endorsed: BOOLEAN]
        /\ archived' \in SUBSET Nat /\ storage_bytes' \in Nat
    BY <1>2 DEF IndType, TypeOK
  <2>4. tx'.mid \in 0..Len(net')
    BY <2>1, <2>3
  <2> QED
    BY <2>1, <2>2, <2>3, <2>4, <1>1, <1>3, <1>5, <1>6 DEF TypeOK, TxType
<1>8. NetOk' /\ TxOk' /\ KeptOk'
  BY <1>1, <1>2, <1>4 DEF IndType, NetOk, TxOk, KeptOk, head, NoTx
<1> QED
  BY <1>7, <1>8 DEF IndType

\* Chain hashes are identities.
LEMMA ChainTyped ==
  ASSUME IndType
  PROVE  head \in Nat /\ \A p \in 0..head : ChainAt(p) \in Ids
<1>1. head \in Nat
  BY DEF IndType, TypeOK, head
<1>2. \A p \in 1..head : log[p] \in Items
  BY DEF IndType, TypeOK, head
<1>3. \A p \in 1..head : log[p].id \in Ids
  BY <1>2 DEF Items
<1>4. ChainZero \in Ids
  BY DEF ChainZero, Ids
<1> QED
  BY <1>1, <1>3, <1>4 DEF ChainAt

\* What a client seals is a request.
LEMMA SealType == ASSUME IndType, NEW b \in Batches, Seal(b) PROVE IndType'
<1>1. b \in [by: Principals, items: Seq(Payloads)] /\ WellFormed(b)
  BY ServiceAssumption
<1>2. PICK base \in {<<head, ChainAt(head)>>} \cup
                    {<<LastOf(m), <<m, Len(net[m].items)>> >> :
                        m \in {x \in 1..Len(net) : Pipelining}} :
          net' = Append(net, [by |-> b.by, items |-> b.items,
                              first |-> base[1] + 1, prev |-> base[2]])
  BY DEF Seal
<1>3. base[1] \in Nat /\ base[2] \in Ids
  <2>1. head \in Nat /\ ChainAt(head) \in Ids
    BY ChainTyped
  <2>2. \A m \in 1..Len(net) : LastOf(m) \in Nat /\ <<m, Len(net[m].items)>> \in Ids
    <3> SUFFICES ASSUME NEW m \in 1..Len(net)
                 PROVE  LastOf(m) \in Nat /\ <<m, Len(net[m].items)>> \in Ids
      OBVIOUS
    <3>1. net[m] \in Requests /\ m \in Nat
      BY DEF IndType, TypeOK
    <3>2. net[m].first \in Nat \ {0} /\ Len(net[m].items) \in Nat
      BY <3>1 DEF Requests
    <3> QED
      BY <3>1, <3>2 DEF LastOf, Ids
  <2> QED
    BY <1>2, <2>1, <2>2
<1> DEFINE r == [by |-> b.by, items |-> b.items, first |-> base[1] + 1, prev |-> base[2]]
<1>4. r \in Requests /\ r.items = b.items /\ r.by = b.by
  BY <1>1, <1>3 DEF Requests
<1>5. net' = Append(net, r) /\ net \in Seq(Requests)
  BY <1>2 DEF IndType, TypeOK
<1> HIDE DEF r
<1>6. net' \in Seq(Requests) /\ Len(net') = Len(net) + 1 /\ net'[Len(net) + 1] = r
      /\ \A m \in 1..Len(net) : net'[m] = net[m]
  BY <1>4, <1>5
<1>7. NetOk'
  <2>1. WellFormed(r)
    BY <1>1, <1>4 DEF WellFormed
  <2>2. \A m \in 1..(Len(net) + 1) : m \in 1..Len(net) \/ m = Len(net) + 1
    BY <1>5
  <2>3. \A m \in 1..(Len(net) + 1) : WellFormed(net'[m])
    BY <2>1, <2>2, <1>6 DEF IndType, NetOk
  <2> QED
    BY <2>3, <1>6 DEF NetOk, WellFormed
<1>8. tx.mid = 0 /\ tx' = tx /\ UNCHANGED <<clock, durableVars, acks, revs>>
  BY DEF Seal
<1>9. TypeOK'
  BY <1>6, <1>8 DEF IndType, TypeOK, durableVars
<1>10. TxOk' /\ KeptOk'
  BY <1>8 DEF IndType, TxOk, KeptOk, head, durableVars
<1> QED
  BY <1>7, <1>9, <1>10 DEF IndType

\* A request the service answers as a replay is in the log, every item of it.
LEMMA ReplayShape ==
  ASSUME IndType, NEW m \in 1..Len(net), Replayed(m)
  PROVE  /\ net[m] \in Requests
         /\ Len(net[m].items) \in Nat \ {0}
         /\ LastOf(m) \in 1..head
         /\ \A ix \in 1..Len(net[m].items) :
                net[m].first + ix - 1 \in 1..head /\ log[net[m].first + ix - 1].id = <<m, ix>>
<1>1. net[m] \in Requests /\ WellFormed(net[m])
  BY DEF IndType, TypeOK, NetOk
<1>2. Len(net[m].items) \in Nat \ {0}
  BY <1>1 DEF WellFormed, Requests
<1>3. \A ix \in 1..Len(net[m].items) :
          net[m].first + ix - 1 \in 1..head /\ log[net[m].first + ix - 1].id = <<m, ix>>
  BY DEF Replayed, IndType, KeptOk
<1>4. LastOf(m) = net[m].first + Len(net[m].items) - 1
  BY DEF LastOf
<1>5. Len(net[m].items) \in 1..Len(net[m].items)
  BY <1>2
<1> QED
  BY <1>1, <1>2, <1>3, <1>4, <1>5

\* Answering a replay (step 4) keeps the typed state: only a receipt is added.
LEMMA ReplayType == ASSUME IndType, NEW m \in 1..Len(net), AppendReplay(m) PROVE IndType'
<1>1. Replayed(m) /\ acks' = acks \cup {Receipt(m)}
      /\ UNCHANGED <<clientVars, durableVars, tx, revs>>
  BY DEF AppendReplay
<1>2. m \in Nat /\ LastOf(m) \in Nat /\ <<m, Len(net[m].items)>> \in Ids
      /\ log[LastOf(m)] \in Items
  <2>1. LastOf(m) \in 1..head /\ Len(net[m].items) \in Nat /\ m \in Nat
    BY <1>1, ReplayShape
  <2> QED
    BY <2>1 DEF Ids, IndType, TypeOK, head
<1>3. log[LastOf(m)].at \in Nat
  BY <1>2 DEF Items
<1>4. Receipt(m) \in [mid: Nat, last: Nat, head_chain: Ids, at: Nat]
  BY <1>2, <1>3 DEF Receipt
<1>5. TypeOK'
  BY <1>1, <1>4 DEF IndType, TypeOK, clientVars, durableVars
<1>6. NetOk' /\ TxOk' /\ KeptOk'
  BY <1>1 DEF IndType, NetOk, TxOk, KeptOk, HeaderChecked, HeadOk, ChainAt, head, Request,
              CurrentItem, CurrentSeq, clientVars, durableVars
<1> QED
  BY <1>5, <1>6 DEF IndType

\* The steps that leave the requests, the log and the transaction alone.
LEMMA QuietType ==
  ASSUME IndType, TypeOK', kept' \subseteq kept,
         net' = net, log' = log, tx' = tx
  PROVE  IndType'
<1>1. NetOk' /\ KeptOk'
  BY DEF IndType, NetOk, KeptOk, head
<1>2. TxOk'
  BY DEF IndType, TxOk, HeaderChecked, HeadOk, ChainAt, head, Request, CurrentItem, CurrentSeq
<1> QED
  BY <1>1, <1>2 DEF IndType

\* Snapshots, compaction and quotas keep the typed state.
LEMMA RetentionType ==
  ASSUME IndType,
         \/ Tick \/ Compact \/ CompactFails
         \/ \E d \in Publishers, p \in 1..head : PutSnapshot(d, p)
         \/ \E d \in Endorsers, s \in snaps : EndorseSnapshot(d, s)
         \/ \E q \in StorageQuotas : SetQuota(q)
  PROVE  IndType'
<1> USE DEF clientVars, durableVars
<1>1. CASE Tick
  <2>1. TypeOK' /\ kept' = kept /\ net' = net /\ log' = log /\ tx' = tx
    BY <1>1 DEF Tick, IndType, TypeOK
  <2> QED
    BY <2>1, QuietType
<1>2. CASE Compact
  <2>1. PICK now \in Recent, cp \in 1..head :
            /\ archived' = archived \cup Archivable(cp)
            /\ kept' = kept \ EntriesThrough(cp)
            /\ tokens' = PruneTokens(now, kept')
            /\ retained_from' = cp + 1
            /\ used_bytes' = Monus(used_bytes, FreedBytes(cp))
            /\ UNCHANGED <<net, clock, st, log, snaps, storage_bytes, tx, acks, revs>>
    BY <1>2 DEF Compact
  <2>2. cp \in Nat /\ kept \subseteq 1..head /\ head \in Nat
    BY ChainTyped DEF IndType, KeptOk
  <2>3. EntriesThrough(cp) \subseteq kept
    BY DEF EntriesThrough
  <2>4. FreedBytes(cp) \in Nat
    <3>1. IsFiniteSet(1..head)
      BY <2>2, FS_Interval
    <3>2. EntriesThrough(cp) \in SUBSET (1..head)
      BY <2>2, <2>3
    <3>3. IsFiniteSet(EntriesThrough(cp))
      BY <3>1, <3>2, FS_Subset
    <3> QED
      BY <3>3, FS_CardinalityType DEF FreedBytes
  <2>5. used_bytes' \in Nat
    BY <2>1, <2>4 DEF Monus, IndType, TypeOK
  <2>6. kept' \subseteq kept /\ archived' \in SUBSET Nat
    BY <2>1, <2>2, <2>3 DEF Archivable, IndType, TypeOK
  <2>7. tokens' \in [Tokens -> [seq: Nat, exp: Nat] \cup {None}]
    BY <2>1 DEF PruneTokens, IndType, TypeOK
  <2>8. UNCHANGED <<net, clock, st, log, snaps, storage_bytes, tx, acks, revs>>
        /\ retained_from' \in Nat /\ kept' \in SUBSET Nat
    <3>1. cp + 1 \in Nat
      BY <2>2
    <3>2. kept \in SUBSET Nat
      BY DEF IndType, TypeOK
    <3> QED
      BY <3>1, <3>2, <2>1, <2>6, Zenon
  <2>9. TypeOK'
    BY <2>5, <2>6, <2>7, <2>8 DEF IndType, TypeOK
  <2> QED
    BY <2>6, <2>8, <2>9, QuietType
<1>3. CASE CompactFails
  <2>1. PICK cp \in 1..head : \E last \in Archivable(cp) :
            archived' = archived \cup {p \in Archivable(cp) : p <= last}
    BY <1>3 DEF CompactFails
  <2>2. Archivable(cp) \subseteq Nat
    BY DEF Archivable, EntriesThrough, IndType, TypeOK
  <2>3. archived' \in SUBSET Nat
    BY <2>1, <2>2 DEF IndType, TypeOK
  <2>4. TypeOK' /\ kept' = kept /\ net' = net /\ log' = log /\ tx' = tx
    BY <2>3, <1>3 DEF CompactFails, IndType, TypeOK
  <2> QED
    BY <2>4, QuietType
<1>4. CASE \E d \in Publishers, p \in 1..head : PutSnapshot(d, p)
  <2>1. PICK d \in Publishers, p \in 1..head : PutSnapshot(d, p)
    BY <1>4
  <2>2. PICK now \in Recent :
            snaps' = NewestOf(snaps)
                         \cup {[seq |-> p, author |-> d, at |-> now, endorsed |-> FALSE]}
    BY <2>1 DEF PutSnapshot
  <2>3. p \in Nat /\ d \in Devices /\ now \in Nat
    BY ChainTyped, RecentNat, ServiceAssumption DEF IndType
  <2>4. [seq |-> p, author |-> d, at |-> now, endorsed |-> FALSE]
            \in [seq: Nat, author: Devices, at: Nat, endorsed: BOOLEAN]
    BY <2>3
  <2>5. snaps' \in SUBSET [seq: Nat, author: Devices, at: Nat, endorsed: BOOLEAN]
    BY <2>2, <2>4 DEF NewestOf, IndType, TypeOK
  <2>6. TypeOK' /\ kept' = kept /\ net' = net /\ log' = log /\ tx' = tx
    BY <2>1, <2>5 DEF PutSnapshot, IndType, TypeOK
  <2> QED
    BY <2>6, QuietType
<1>5. CASE \E d \in Endorsers, s \in snaps : EndorseSnapshot(d, s)
  <2>1. PICK d \in Endorsers, s \in snaps : EndorseSnapshot(d, s)
    BY <1>5
  <2>2. \A x \in [seq: Nat, author: Devices, at: Nat, endorsed: BOOLEAN] :
            [x EXCEPT !.endorsed = TRUE] \in [seq: Nat, author: Devices, at: Nat, endorsed: BOOLEAN]
    OBVIOUS
  <2>3. snaps' = (snaps \ {s}) \cup {[s EXCEPT !.endorsed = TRUE]}
    BY <2>1 DEF EndorseSnapshot
  <2>4. snaps' \in SUBSET [seq: Nat, author: Devices, at: Nat, endorsed: BOOLEAN]
    BY <2>2, <2>3 DEF IndType, TypeOK
  <2>5. TypeOK' /\ kept' = kept /\ net' = net /\ log' = log /\ tx' = tx
    BY <2>1, <2>4 DEF EndorseSnapshot, IndType, TypeOK
  <2> QED
    BY <2>5, QuietType
<1>6. CASE \E q \in StorageQuotas : SetQuota(q)
  <2>1. TypeOK' /\ kept' = kept /\ net' = net /\ log' = log /\ tx' = tx
    BY <1>6, ServiceAssumption DEF SetQuota, IndType, TypeOK
  <2> QED
    BY <2>1, QuietType
<1> QED
  BY <1>1, <1>2, <1>3, <1>4, <1>5, <1>6

\* Dropping the transaction keeps the typed state.
LEMMA AbortType == ASSUME IndType, Abort PROVE IndType'
<1>1. tx' = NoTx /\ UNCHANGED <<clientVars, durableVars, acks, revs>>
  BY DEF Abort
<1>2. tx' \in TxType /\ tx'.mid = 0
  BY <1>1, NoTxTyped DEF NoTx
<1>3. tx'.mid \in 0..Len(net) /\ TxOk'
  BY <1>2 DEF TxOk, IndType, TypeOK
<1> QED
  BY <1>1, <1>2, <1>3, TxStepType

\* A step that changes nothing keeps the typed state.
LEMMA StutterType == ASSUME IndType, UNCHANGED vars PROVE IndType'
<1>1. TypeOK' /\ kept' = kept /\ net' = net /\ log' = log /\ tx' = tx
  BY DEF IndType, TypeOK, vars
<1> QED
  BY <1>1, QuietType

\* Every step of the service keeps the typed state.
LEMMA NextType == IndType /\ [Next]_vars => IndType'
<1> SUFFICES ASSUME IndType, [Next]_vars PROVE IndType'
  OBVIOUS
<1>1. CASE \E b \in Batches : Seal(b)
  BY <1>1, SealType
<1>2. CASE \E m \in 1..Len(net) : AppendReplay(m) \/ AppendBegin(m) \/ CreateLog(m)
  BY <1>2, ReplayType, OpenType
<1>3. CASE CheckDeviceItem \/ CheckPolicyHeader \/ ApplyPolicyOp \/ FinishPolicy
  BY <1>3, CheckType
<1>4. CASE AppendCommit
  BY <1>4, CommitType
<1>5. CASE Abort
  BY <1>5, AbortType
<1>6. CASE UNCHANGED vars
  BY <1>6, StutterType
<1> QED
  BY <1>1, <1>2, <1>3, <1>4, <1>5, <1>6, RetentionType DEF Next, Serve

\* Type correctness of the service, the roots it accepts included: whatever requests
\* arrive, the governing root is one of the pinned ones (append, apply_policy).
THEOREM TypeCorrect == Spec => []TypeOK
<1>1. Spec => []IndType
  BY InitType, NextType, PTL DEF Spec
<1>2. IndType => TypeOK
  BY DEF IndType
<1> QED
  BY <1>1, <1>2, PTL

-----------------------------------------------------------------------------
(***************************************************************************)
(* Membership.  The working copy of an open append satisfies what the      *)
(* durable state does, except that a founding append has no owner before   *)
(* its genesis op.                                                         *)
(***************************************************************************)
Founded == head # 0 \/ tx.i > 1 \/ tx.j > 1

IndPolicy ==
    /\ log # << >> => HasOwner(st)
    /\ DevicesBelong(st)
    /\ tx.mid # 0 => /\ DevicesBelong(tx.ws)
                     /\ Founded => HasOwner(tx.ws)
                     /\ ~Founded => tx.ws = BlankState

\* Only the steps of an append touch the transport state, the log or the transaction.
LEMMA StateSteps ==
  ASSUME [Next]_vars
  PROVE  \/ UNCHANGED <<st, log, tx, revs>>
         \/ \E m \in 1..Len(net) : AppendBegin(m) \/ CreateLog(m)
         \/ CheckDeviceItem \/ CheckPolicyHeader \/ ApplyPolicyOp \/ FinishPolicy
         \/ AppendCommit
         \/ Abort
<1>1. CASE UNCHANGED vars
  BY <1>1 DEF vars
<1>2. CASE Tick
  BY <1>2 DEF Tick, durableVars
<1>3. CASE \E b \in Batches : Seal(b)
  BY <1>3 DEF Seal, durableVars
<1>4. CASE \E m \in 1..Len(net) : AppendReplay(m)
  BY <1>4 DEF AppendReplay, durableVars
<1>5. CASE Compact \/ CompactFails
  BY <1>5 DEF Compact, CompactFails
<1>6. CASE \E d \in Publishers, p \in 1..head : PutSnapshot(d, p)
  BY <1>6 DEF PutSnapshot
<1>7. CASE \E d \in Endorsers, s \in snaps : EndorseSnapshot(d, s)
  BY <1>7 DEF EndorseSnapshot
<1>8. CASE \E q \in StorageQuotas : SetQuota(q)
  BY <1>8 DEF SetQuota
<1> QED
  BY <1>1, <1>2, <1>3, <1>4, <1>5, <1>6, <1>7, <1>8 DEF Next, Serve

\* Before the genesis item no device is active.
LEMMA BlankPolicy == DevicesBelong(BlankState) /\ \A d \in Devices : ~Active(BlankState, d)
  BY DEF DevicesBelong, BlankState, Active

\* A log is empty when its head is 0.
LEMMA EmptyLog == ASSUME IndType PROVE log = << >> <=> head = 0
  BY DEF IndType, TypeOK, head

\* The empty log satisfies the membership invariant.
LEMMA InitPolicy == Init => IndPolicy
  BY BlankPolicy DEF Init, IndPolicy, NoTx

\* Every step keeps owners and memberships, in the live state and in the working copy.
LEMMA NextPolicy == IndType /\ IndPolicy /\ [Next]_vars => IndPolicy'
<1> SUFFICES ASSUME IndType, IndPolicy, [Next]_vars PROVE IndPolicy'
  OBVIOUS
<1>1. CASE UNCHANGED <<st, log, tx, revs>>
  BY <1>1 DEF IndPolicy, Founded, head, DevicesBelong, HasOwner, Active, RoleOf
<1>2. ASSUME NEW m \in 1..Len(net), AppendBegin(m) PROVE IndPolicy'
  <2>1. log # << >> /\ log' = log /\ st' = st
    BY <1>2 DEF AppendBegin, durableVars
  <2>2. tx'.ws = st /\ tx'.i = 1 /\ tx'.j = 0
    BY <1>2 DEF AppendBegin, NoTx
  <2>3. HasOwner(st) /\ DevicesBelong(st) /\ head # 0
    BY <2>1, EmptyLog DEF IndPolicy
  <2> QED
    BY <2>1, <2>2, <2>3 DEF IndPolicy, Founded, head, DevicesBelong, HasOwner, Active, RoleOf
<1>3. ASSUME NEW m \in 1..Len(net), CreateLog(m) PROVE IndPolicy'
  <2>1. log = << >> /\ log' = log /\ st' = st
    BY <1>3 DEF CreateLog, durableVars
  <2>2. tx'.ws = BlankState /\ tx'.i = 1 /\ tx'.j = 0
    BY <1>3 DEF CreateLog, NoTx
  <2>3. head = 0
    BY <2>1, EmptyLog
  <2>4. ~Founded'
    BY <2>1, <2>2, <2>3 DEF Founded, head
  <2>5. DevicesBelong(st)'
    BY <2>1 DEF IndPolicy, DevicesBelong, Active, RoleOf
  <2>6. DevicesBelong(tx.ws)'
    BY <2>2, BlankPolicy DEF DevicesBelong, Active, RoleOf
  <2>7. BlankState' = BlankState
    BY DEF BlankState
  <2> QED
    BY <2>1, <2>2, <2>4, <2>5, <2>6, <2>7 DEF IndPolicy
<1>4. CASE CheckDeviceItem \/ CheckPolicyHeader \/ ApplyPolicyOp \/ FinishPolicy
  <2>1. tx.mid # 0 /\ tx.i <= Len(Request.items) /\ st' = st /\ log' = log /\ tx'.mid = tx.mid
        /\ tx \in TxType /\ head' = head
    <3>1. tx \in TxType
      BY DEF IndType, TypeOK, TxType
    <3> QED
      BY <1>4, <3>1 DEF CheckDeviceItem, CheckPolicyHeader, ApplyPolicyOp, FinishPolicy, durableVars,
                 head, TxType
  <2>2. (log # << >> => HasOwner(st))' /\ DevicesBelong(st)'
    BY <2>1 DEF IndPolicy, DevicesBelong, HasOwner, Active, RoleOf
  <2>3. tx.ws \in TransportState /\ tx.i \in Nat \ {0} /\ tx.j \in Nat
    BY <2>1 DEF IndType, TypeOK, TxOk, TxType
  <2>4. DevicesBelong(tx.ws) /\ (Founded => HasOwner(tx.ws)) /\ (~Founded => tx.ws = BlankState)
    BY <2>1 DEF IndPolicy
  <2> SUFFICES DevicesBelong(tx'.ws) /\ (Founded' => HasOwner(tx'.ws))
               /\ (~Founded' => tx'.ws = BlankState)
    <3>1. DevicesBelong(tx'.ws) = DevicesBelong(tx.ws)' /\ HasOwner(tx'.ws) = HasOwner(tx.ws)'
          /\ BlankState' = BlankState
      BY DEF DevicesBelong, HasOwner, Active, RoleOf, BlankState
    <3> QED
      BY <2>2, <3>1 DEF IndPolicy
  <2>5. CASE CheckDeviceItem
    <3>1. Active(tx.ws, CurrentItem.signer) /\ tx'.ws = DeviceItemEffect(tx.ws, CurrentItem)
          /\ tx'.i = tx.i + 1
      BY <2>1, <2>5 DEF CheckDeviceItem, DeviceItemOk, TxType
    <3>2. tx'.ws.members = tx.ws.members /\ tx'.ws.acl = tx.ws.acl
      BY <3>1, <2>3 DEF DeviceItemEffect, Rekey, TransportState
    <3>3. CurrentItem.signer \in Devices
      BY <3>1 DEF Active
    <3>4. Founded
      BY <2>4, <3>1, <3>3, BlankPolicy
    <3>5. Founded'
      BY <2>3, <3>1 DEF Founded
    <3> QED
      BY <2>4, <3>2, <3>4, <3>5 DEF DevicesBelong, HasOwner, Active, RoleOf
  <2>6. CASE CheckPolicyHeader
    <3>1. tx'.ws = tx.ws /\ tx.j = 0 /\ tx'.j = 1 /\ tx'.i = tx.i
      BY <2>1, <2>6 DEF CheckPolicyHeader, TxType
    <3>2. Founded' <=> Founded
      BY <3>1, <2>1 DEF Founded
    <3> QED
      BY <2>4, <3>1, <3>2
  <2>7. CASE ApplyPolicyOp
    <3> DEFINE o == CurrentItem.policy.ops[tx.j]
    <3>1. tx'.ws = OpEffect(tx.ws, o) /\ tx'.j = tx.j + 1 /\ OpOk(tx.ws, o, CurrentSeq, tx.j)
      BY <2>1, <2>7 DEF ApplyPolicyOp, TxType
    <3>2. o \in PolicyOps /\ tx.j \in Nat \ {0}
      BY <2>1, <2>7, CurrentItemTyped DEF ApplyPolicyOp
    <3>3. Founded'
      BY <3>1, <3>2 DEF Founded
    <3>4. Founded \/ o.op = "genesis"
      <4> SUFFICES ASSUME ~Founded PROVE o.op = "genesis"
        OBVIOUS
      <4>1. tx.j = 1 /\ tx.i = 1 /\ head = 0
        BY <3>2, <2>3 DEF Founded
      <4>2. HeaderChecked
        BY <2>1, <3>2 DEF IndType, TxOk
      <4>3. CurrentSeq = 1
        BY <4>1, <2>1 DEF CurrentSeq, Request, IndType, TxOk, HeadOk
      <4> QED
        BY <4>1, <4>2, <4>3 DEF HeaderChecked
    <3> HIDE DEF o
    <3>5. HasOwner(OpEffect(tx.ws, o)) /\ DevicesBelong(OpEffect(tx.ws, o))
      BY <2>3, <2>4, <3>1, <3>2, <3>4, OpOwner, OpMembership
    <3> QED
      BY <3>1, <3>3, <3>5
  <2>8. CASE FinishPolicy
    <3>1. tx'.ws = PolicyEnd(tx.ws, CurrentItem.policy) /\ tx'.i = tx.i + 1
          /\ tx.j = Len(CurrentItem.policy.ops) + 1 /\ CurrentItem.kind = "policy"
      BY <2>1, <2>8 DEF FinishPolicy, TxType
    <3>2. tx'.ws.members = tx.ws.members /\ tx'.ws.acl = tx.ws.acl
      BY <3>1, <2>3 DEF PolicyEnd, TransportState
    <3>3. Len(CurrentItem.policy.ops) \in Nat \ {0}
      <4>1. tx.mid \in 1..Len(net) /\ tx.i \in 1..Len(Request.items)
        BY <2>1, <2>3 DEF IndType, TypeOK, TxOk
      <4>2. WellFormed(Request) /\ MaxOps \in Nat
        BY <4>1, ServiceAssumption DEF IndType, NetOk, Request
      <4>3. Len(CurrentItem.policy.ops) \in 1..MaxOps
        BY <4>1, <4>2, <3>1 DEF WellFormed, CurrentItem
      <4> QED
        BY <4>2, <4>3
    <3>4. Founded /\ Founded'
      BY <2>3, <3>1, <3>3 DEF Founded
    <3> QED
      BY <2>4, <3>2, <3>4 DEF DevicesBelong, HasOwner, Active, RoleOf
  <2> QED
    BY <1>4, <2>5, <2>6, <2>7, <2>8
<1>5. CASE AppendCommit
  <2>1. st' = tx.ws /\ tx'.mid = 0 /\ tx.mid # 0 /\ tx.i = Len(Request.items) + 1
    BY <1>5 DEF AppendCommit, NoTx
  <2>2. Len(Request.items) \in Nat \ {0}
    BY <1>5, CommitShape
  <2>3. Founded
    BY <2>1, <2>2 DEF Founded
  <2> QED
    BY <2>1, <2>3 DEF IndPolicy, DevicesBelong, HasOwner, Active, RoleOf
<1>6. CASE Abort
  BY <1>6 DEF Abort, NoTx, durableVars, IndPolicy, DevicesBelong, HasOwner, Active, RoleOf
<1> QED
  BY <1>1, <1>2, <1>3, <1>4, <1>5, <1>6, StateSteps

\* A collection always has an owner, for every set of accounts, devices and requests
\* (is_only_owner, apply_policy).
THEOREM OwnerAlways == Spec => []OwnerRemains
<1>1. Spec => [](IndType /\ IndPolicy)
  BY InitType, NextType, InitPolicy, NextPolicy, PTL DEF Spec
<1>2. IndPolicy => OwnerRemains
  BY DEF IndPolicy, OwnerRemains, HasOwner
<1> QED
  BY <1>1, <1>2, PTL

\* Every active personal device belongs to a member (member-remove, device-enrol).
THEOREM MembersAlways == Spec => []ActiveDevicesAreMembers
<1>1. Spec => [](IndType /\ IndPolicy)
  BY InitType, NextType, InitPolicy, NextPolicy, PTL DEF Spec
<1>2. IndPolicy => ActiveDevicesAreMembers
  BY DEF IndPolicy, ActiveDevicesAreMembers, DevicesBelong
<1> QED
  BY <1>1, <1>2, PTL

-----------------------------------------------------------------------------
(***************************************************************************)
(* Revocations.  A revocation r is settled in a state s when the device    *)
(* can do nothing there and no later key is one it holds.  The working     *)
(* copy settles the revocations of the log and those of its own batch.     *)
(***************************************************************************)
Settled(s, r) ==
    /\ s.acl[r.device] = "revoked"
    /\ r.epoch <= s.epoch
    /\ s.rekey_required \/ r.epoch < s.epoch

\* What EpochSeparation and RevocationIsFinal ask of an item after r.
ItemSafe(it, r) ==
    /\ it.kind \in SealedKinds => r.epoch < it.epoch
    /\ it.kind # "policy" => /\ it.signer # r.device
                             /\ it.kind = "rekey" => r.device \notin it.wraps

IndRevoke ==
    /\ \A r \in revs : head # 0 /\ Settled(st, r)
    /\ \A p \in 1..head, r \in revs : r.seq < p => ItemSafe(log[p].body, r)
    /\ tx.mid # 0 =>
           /\ \A r \in revs \cup tx.revoked : Settled(tx.ws, r)
           /\ \A r \in tx.revoked : r.seq > head
           /\ \A ix \in 1..(tx.i - 1), r \in revs \cup tx.revoked :
                  r.seq < head + ix => ItemSafe(Request.items[ix], r)

\* An item that passes the gate is safe with respect to every settled revocation, and
\* the revocation stays settled (check_item, apply_rekey).
LEMMA GateSafe ==
  ASSUME NEW s \in TransportState, NEW it \in Payloads, it.kind # "policy",
         it.signer \in Devices, DeviceItemOk(s, it),
         NEW r \in Revocations, Settled(s, r)
  PROVE  ItemSafe(it, r) /\ Settled(DeviceItemEffect(s, it), r)
<1>1. it.kind \in DeviceItemKinds /\ it.epoch \in Nat
      /\ r.epoch \in Nat /\ r.device \in Devices /\ s.epoch \in Nat
  BY DEF Payloads, Revocations, TransportState
<1>2. it.signer # r.device
  BY DEF DeviceItemOk, Active, Settled
<1>3. it.kind \in SealedKinds => r.epoch < it.epoch
  BY <1>1 DEF DeviceItemOk, ContentOk, KeyGrantOk, GrantApprovalOk, SealedKinds, Settled
<1>4. it.kind = "rekey" => /\ it.epoch = s.epoch
                           /\ \A d \in it.wraps : Active(s, d)
  BY DEF DeviceItemOk, RekeyOk
<1>5. it.kind = "rekey" => r.device \notin it.wraps
  BY <1>4 DEF Active, Settled
<1>6. Settled(DeviceItemEffect(s, it), r)
  BY <1>1, <1>4 DEF DeviceItemEffect, Rekey, Settled, TransportState
<1> QED
  BY <1>2, <1>3, <1>5, <1>6 DEF ItemSafe

\* The empty log satisfies the revocation invariant.
LEMMA InitRevoke == Init => IndRevoke
  BY DEF Init, IndRevoke, NoTx, head

\* Every step keeps the revocation invariant: what an open transaction has checked so far
\* is safe with respect to the revocations committed and to those it is about to commit.
LEMMA NextRevoke == IndType /\ IndRevoke /\ [Next]_vars => IndRevoke'
<1> SUFFICES ASSUME IndType, IndRevoke, [Next]_vars PROVE IndRevoke'
  OBVIOUS
<1> USE DEF Settled, ItemSafe
<1>0. revs \subseteq Revocations /\ tx.revoked \subseteq Revocations /\ tx \in TxType
      /\ head \in Nat
  BY ChainTyped DEF IndType, TypeOK, TxType
<1>1. CASE UNCHANGED <<st, log, tx, revs>>
  <2>1. tx.mid # 0 => Request' = Request
    <3>1. CASE \E b \in Batches : Seal(b)
      BY <3>1 DEF Seal
    <3>2. CASE net' = net
      BY <1>1, <3>2 DEF Request
    <3>3. net' = net \/ \E b \in Batches : Seal(b)
      BY DEF Next, Serve, vars, Tick, AppendReplay, AppendBegin, CreateLog, CheckDeviceItem,
             CheckPolicyHeader, ApplyPolicyOp, FinishPolicy, AppendCommit, Abort, PutSnapshot,
             EndorseSnapshot, Compact, CompactFails, SetQuota, clientVars
    <3> QED
      BY <3>1, <3>2, <3>3
  <2> QED
    BY <1>1, <2>1 DEF IndRevoke, head
<1>2. ASSUME NEW m \in 1..Len(net), AppendBegin(m) PROVE IndRevoke'
  <2>1. log' = log /\ st' = st /\ revs' = revs /\ tx'.ws = st /\ tx'.i = 1 /\ tx'.revoked = {}
    BY <1>2 DEF AppendBegin, durableVars, NoTx
  <2> QED
    BY <2>1 DEF IndRevoke, head
<1>3. ASSUME NEW m \in 1..Len(net), CreateLog(m) PROVE IndRevoke'
  <2>1. log' = log /\ st' = st /\ revs' = revs /\ tx'.i = 1 /\ tx'.revoked = {} /\ log = << >>
    BY <1>3 DEF CreateLog, durableVars, NoTx
  <2>2. revs = {}
    BY <2>1, EmptyLog DEF IndRevoke
  <2> QED
    BY <2>1, <2>2 DEF IndRevoke, head
<1>4. CASE CheckDeviceItem \/ CheckPolicyHeader \/ ApplyPolicyOp \/ FinishPolicy
  <2>1. tx.mid # 0 /\ tx.i <= Len(Request.items) /\ st' = st /\ log' = log /\ tx'.mid = tx.mid
        /\ revs' = revs /\ head' = head /\ Request' = Request
    BY <1>0, <1>4 DEF CheckDeviceItem, CheckPolicyHeader, ApplyPolicyOp, FinishPolicy, clientVars,
                      durableVars, head, TxType, Request
  <2>2. tx.ws \in TransportState /\ tx.i \in Nat \ {0} /\ tx.j \in Nat
    BY <1>0, <2>1 DEF IndType, TypeOK, TxOk, TxType
  <2>3. /\ \A r \in revs \cup tx.revoked : Settled(tx.ws, r)
        /\ \A r \in tx.revoked : r.seq > head
        /\ \A ix \in 1..(tx.i - 1), r \in revs \cup tx.revoked :
               r.seq < head + ix => ItemSafe(Request.items[ix], r)
    BY <2>1 DEF IndRevoke
  <2> SUFFICES /\ \A r \in revs \cup tx'.revoked : Settled(tx'.ws, r)
               /\ \A r \in tx'.revoked : r.seq > head
               /\ \A ix \in 1..(tx'.i - 1), r \in revs \cup tx'.revoked :
                      r.seq < head + ix => ItemSafe(Request.items[ix], r)
    BY <2>1 DEF IndRevoke
  <2> HIDE DEF Settled, ItemSafe
  <2>5. CASE CheckDeviceItem
    <3>1. tx'.ws = DeviceItemEffect(tx.ws, CurrentItem) /\ tx'.i = tx.i + 1
          /\ tx'.revoked = tx.revoked /\ DeviceItemOk(tx.ws, CurrentItem)
          /\ CurrentItem.kind # "policy"
      BY <1>0, <2>5 DEF CheckDeviceItem, TxType
    <3>2. CurrentItem \in Payloads /\ CurrentItem.signer \in Devices
      BY <2>1, <3>1, CurrentItemTyped
    <3>3. \A r \in revs \cup tx.revoked : ItemSafe(CurrentItem, r) /\ Settled(tx'.ws, r)
      BY <1>0, <2>2, <2>3, <3>1, <3>2, GateSafe
    <3>4. \A ix \in 1..(tx'.i - 1) : ix \in 1..(tx.i - 1) \/ ix = tx.i
      BY <2>2, <3>1
    <3> QED
      BY <2>3, <3>1, <3>3, <3>4 DEF CurrentItem
  <2>6. CASE CheckPolicyHeader
    <3>1. tx'.ws = tx.ws /\ tx'.i = tx.i /\ tx'.revoked = tx.revoked
      BY <1>0, <2>6 DEF CheckPolicyHeader, TxType
    <3> QED
      BY <2>3, <3>1
  <2>7. CASE ApplyPolicyOp
    <3> DEFINE o == CurrentItem.policy.ops[tx.j]
               new == {[device |-> d, seq |-> CurrentSeq, epoch |-> tx.ws.epoch] :
                          d \in OpRevokes(tx.ws, o)}
    <3>1. tx'.ws = OpEffect(tx.ws, o) /\ tx'.i = tx.i /\ tx'.revoked = tx.revoked \cup new
          /\ OpOk(tx.ws, o, CurrentSeq, tx.j)
      BY <1>0, <2>7 DEF ApplyPolicyOp, TxType
    <3>2. o \in PolicyOps
      BY <2>1, <2>7, CurrentItemTyped DEF ApplyPolicyOp
    <3>3. CurrentSeq = head + tx.i
      <4>1. Request.first = head + 1 /\ CurrentSeq = Request.first + tx.i - 1
        BY <2>1, CurrentItemTyped DEF IndType, TxOk, HeadOk, Request
      <4> QED
        BY <4>1, <1>0, <2>2
    <3>4. /\ OpEffect(tx.ws, o).epoch = tx.ws.epoch
          /\ tx.ws.rekey_required => OpEffect(tx.ws, o).rekey_required
          /\ \A d \in Devices : tx.ws.acl[d] = "revoked" => OpEffect(tx.ws, o).acl[d] = "revoked"
          /\ \A d \in OpRevokes(tx.ws, o) : OpEffect(tx.ws, o).acl[d] = "revoked"
                                            /\ OpEffect(tx.ws, o).rekey_required
      BY <2>2, <3>1, <3>2, OpRevocation
    <3> HIDE DEF o
    <3>5. \A r \in revs \cup tx.revoked : r.device \in Devices
      BY <1>0 DEF Revocations
    <3>6. \A r \in revs \cup tx.revoked : Settled(tx'.ws, r)
      BY <2>3, <3>1, <3>4, <3>5 DEF Settled
    <3>7. tx.ws.epoch \in Nat
      BY <2>2 DEF TransportState
    <3>8. \A r \in new : Settled(tx'.ws, r) /\ r.seq = head + tx.i
      BY <3>1, <3>3, <3>4, <3>7 DEF Settled
    <3> HIDE DEF new
    <3>9. \A ix \in 1..(tx.i - 1) : ~(head + tx.i < head + ix)
      BY <1>0, <2>2
    <3>10. head + tx.i > head
      BY <1>0, <2>2
    <3> QED
      BY <2>3, <3>1, <3>6, <3>8, <3>9, <3>10
  <2>8. CASE FinishPolicy
    <3>1. tx'.i = tx.i + 1 /\ tx'.revoked = tx.revoked /\ CurrentItem.kind = "policy"
          /\ tx'.ws = PolicyEnd(tx.ws, CurrentItem.policy)
      BY <1>0, <2>8 DEF FinishPolicy, TxType
    <3>2. tx'.ws.acl = tx.ws.acl /\ tx'.ws.epoch = tx.ws.epoch
          /\ tx'.ws.rekey_required = tx.ws.rekey_required
      BY <3>1, <2>2 DEF PolicyEnd, TransportState
    <3>3. \A ix \in 1..(tx'.i - 1) : ix \in 1..(tx.i - 1) \/ ix = tx.i
      BY <2>2, <3>1
    <3>4. \A r : ItemSafe(CurrentItem, r)
      BY <3>1 DEF ItemSafe, SealedKinds
    <3>5. \A r \in revs \cup tx.revoked : Settled(tx'.ws, r)
      BY <2>3, <3>2 DEF Settled
    <3> QED
      BY <2>3, <3>1, <3>3, <3>4, <3>5 DEF CurrentItem
  <2> QED
    BY <1>4, <2>5, <2>6, <2>7, <2>8
<1>5. CASE AppendCommit
  <2> DEFINE n == Len(Request.items)
  <2>1. st' = tx.ws /\ tx'.mid = 0 /\ tx.mid # 0 /\ tx.i = n + 1 /\ revs' = revs \cup tx.revoked
    BY <1>5 DEF AppendCommit, NoTx
  <2>2. n \in Nat \ {0} /\ head' = head + n
    BY <1>5, CommitShape DEF head
  <2>3. /\ \A p \in 1..head : log'[p] = log[p]
        /\ \A ix \in 1..n : log'[head + ix].body = Request.items[ix]
    BY <1>5, CommitShape, CommitFields
  <2> HIDE DEF Settled, ItemSafe, n
  <2>4. \A r \in revs' : head' # 0 /\ Settled(st', r)
    BY <1>0, <2>1, <2>2 DEF IndRevoke
  <2>5. \A r \in revs' : r.seq \in Nat
    BY <1>0, <2>1 DEF Revocations
  <2>6. ASSUME NEW p \in 1..head', NEW r \in revs', r.seq < p
        PROVE  ItemSafe(log'[p].body, r)
    <3>1. CASE p \in 1..head
      <4>1. r \in revs
        BY <1>0, <2>1, <2>5, <2>6, <3>1 DEF IndRevoke
      <4> QED
        BY <4>1, <2>3, <2>6, <3>1 DEF IndRevoke
    <3>2. CASE p \notin 1..head
      <4>1. PICK ix \in 1..n : p = head + ix
        <5>1. p - head \in 1..n /\ p = head + (p - head)
          BY <1>0, <2>2, <2>6, <3>2
        <5> QED
          BY <5>1
      <4>2. ix \in 1..(tx.i - 1)
        BY <2>1, <2>2
      <4>3. ItemSafe(Request.items[ix], r)
        BY <4>1, <4>2, <2>1, <2>6 DEF IndRevoke
      <4> QED
        BY <4>1, <4>3, <2>3
    <3> QED
      BY <3>1, <3>2
  <2> QED
    BY <2>1, <2>4, <2>6 DEF IndRevoke, Settled, ItemSafe
<1>6. CASE Abort
  BY <1>6 DEF Abort, NoTx, durableVars, IndRevoke, head
<1> QED
  BY <1>1, <1>2, <1>3, <1>4, <1>5, <1>6, StateSteps

\* For every number of devices, revocations and rekeys: nothing after a revocation is
\* sealed, or keyed, under an epoch the revoked device holds (check_item).
THEOREM EpochsSeparated == Spec => []EpochSeparation
<1>1. Spec => [](IndType /\ IndRevoke)
  BY InitType, NextType, InitRevoke, NextRevoke, PTL DEF Spec
<1>2. IndRevoke => EpochSeparation
  BY DEF IndRevoke, EpochSeparation, ItemSafe
<1> QED
  BY <1>1, <1>2, PTL

\* A revoked device signs nothing later and no later rekey wraps a key for it.
THEOREM RevocationsFinal == Spec => []RevocationIsFinal
<1>1. Spec => [](IndType /\ IndRevoke)
  BY InitType, NextType, InitRevoke, NextRevoke, PTL DEF Spec
<1>2. IndRevoke => RevocationIsFinal
  BY DEF IndRevoke, RevocationIsFinal, ItemSafe
<1> QED
  BY <1>1, <1>2, PTL

-----------------------------------------------------------------------------
(***************************************************************************)
(* The chain, the receipts and the shared log.                             *)
(***************************************************************************)

\* Only a client, a replay and a commit touch what the shared log is made of.
LEMMA SharedSteps ==
  ASSUME [Next]_vars
  PROVE  \/ UNCHANGED <<net, log, acks>>
         \/ \E b \in Batches : Seal(b)
         \/ \E m \in 1..Len(net) : AppendReplay(m)
         \/ AppendCommit
  BY DEF Next, Serve, vars, Tick, AppendBegin, CreateLog, CheckDeviceItem, CheckPolicyHeader,
         ApplyPolicyOp, FinishPolicy, Abort, PutSnapshot, EndorseSnapshot, Compact,
         CompactFails, SetQuota, clientVars, durableVars

\* Sealing adds one request and leaves the others alone.
LEMMA SealShape ==
  ASSUME IndType, NEW b \in Batches, Seal(b)
  PROVE  /\ Len(net') = Len(net) + 1
         /\ \A m \in 1..Len(net) : net'[m] = net[m]
         /\ UNCHANGED <<log, acks>>
  BY DEF Seal, IndType, TypeOK, durableVars

\* The abstract log's end is the chain hash of the service's head.
LEMMA EndOfLogIsHead == ASSUME IndType PROVE SL!EndOfLog = ChainAt(head)
  BY EmptyLog DEF SL!EndOfLog, ChainAt, ChainZero, head

\* Every step of the service is a step of the shared log or leaves it alone.
LEMMA StepSimulation == ASSUME IndType, [Next]_vars PROVE [SL!Next]_(SL!vars)
<1>1. CASE UNCHANGED <<net, log, acks>>
  BY <1>1 DEF SL!vars
<1>2. CASE \E b \in Batches : Seal(b)
  <2>1. SL!Seal
    BY <1>2, SealShape DEF SL!Seal
  <2> QED
    BY <2>1 DEF SL!Next
<1>3. ASSUME NEW m \in 1..Len(net), AppendReplay(m) PROVE SL!Next
  <2>1. Replayed(m) /\ acks' = acks \cup {Receipt(m)} /\ net' = net /\ log' = log
    BY <1>3 DEF AppendReplay, clientVars, durableVars
  <2>2. SL!Acknowledge(m)
    <3>1. SL!Last(m) = LastOf(m)
      BY DEF SL!Last, LastOf
    <3>2. SL!Last(m) <= Len(log)
      BY <3>1, <2>1, ReplayShape DEF head
    <3>3. \A ix \in 1..Len(net[m].items) : log[net[m].first + ix - 1].id = <<m, ix>>
      BY <2>1, ReplayShape
    <3> QED
      BY <2>1, <3>1, <3>2, <3>3 DEF SL!Acknowledge, Receipt
  <2> QED
    BY <2>2 DEF SL!Next
<1>4. CASE AppendCommit
  <2> DEFINE m == tx.mid
             n == Len(net[m].items)
  <2>1. /\ m \in 1..Len(net) /\ Request = net[m] /\ n \in Nat \ {0} /\ head \in Nat
        /\ net[m].first = head + 1 /\ net[m].prev = ChainAt(head)
        /\ LastOf(m) = head + n /\ Len(log') = head + n
        /\ \A p \in 1..head : log'[p] = log[p]
    BY <1>4, CommitShape
  <2>2. \A ix \in 1..n : /\ log'[head + ix].id = <<m, ix>>
                          /\ log'[head + ix].body = net[m].items[ix]
                          /\ log'[head + ix].at = tx.now
    BY <1>4, <2>1, CommitFields
  <2>3. SL!Last(m) = head + n
    BY <2>1 DEF SL!Last, LastOf
  <2>4. acks' = acks \cup {[mid |-> m, last |-> head + n, head_chain |-> <<m, n>>, at |-> tx.now]}
        /\ net' = net
    BY <1>4, <2>1 DEF AppendCommit, clientVars
  <2>5. log'[SL!Last(m)].at = tx.now
    <3>1. n \in 1..n
      BY <2>1
    <3> QED
      BY <3>1, <2>2, <2>3
  <2>6. SL!Commit(m)
    BY <2>1, <2>2, <2>3, <2>4, <2>5, EndOfLogIsHead DEF SL!Commit, head
  <2> QED
    BY <2>1, <2>6 DEF SL!Next
<1> QED
  BY <1>1, <1>2, <1>3, <1>4, SharedSteps

\* The service implements the shared log: every behaviour of append, its replays, its
\* aborts and of compaction is one of SharedLog, whatever the requests are.
THEOREM Refinement == Spec => ImplementsSharedLog
<1>1. Init => SL!Init
  BY DEF Init, SL!Init
<1>2. IndType /\ [Next]_vars => [SL!Next]_(SL!vars)
  BY StepSimulation
<1>3. Spec => []IndType
  BY InitType, NextType, PTL DEF Spec
<1> QED
  BY <1>1, <1>2, <1>3, PTL DEF Spec, ImplementsSharedLog, SL!Spec

\* A receipt names a request, and is the one its place in the log determines.
InLog(m) ==
    /\ m \in 1..Len(net)
    /\ LastOf(m) \in 1..head
    /\ \A ix \in 1..Len(net[m].items) :
           net[m].first + ix - 1 \in 1..head /\ log[net[m].first + ix - 1].id = <<m, ix>>

IndAcks == \A r \in acks : InLog(r.mid) /\ r = Receipt(r.mid)

\* The empty log is a chain, and nothing is acknowledged.
LEMMA InitChain == Init => ChainIntact /\ IndAcks
  BY DEF Init, ChainIntact, IndAcks, head

\* Every step keeps the log one hash chain: only a commit extends it, after its own head check.
LEMMA NextChain == IndType /\ ChainIntact /\ [Next]_vars => ChainIntact'
<1> SUFFICES ASSUME IndType, ChainIntact, [Next]_vars PROVE ChainIntact'
  OBVIOUS
<1>1. CASE log' = log
  BY <1>1 DEF ChainIntact, ChainAt, head
<1>2. CASE AppendCommit
  <2> DEFINE n == Len(Request.items)
  <2>1. /\ n \in Nat \ {0} /\ head \in Nat /\ head' = head + n /\ Request.prev = ChainAt(head)
        /\ \A p \in 1..head : log'[p] = log[p]
    BY <1>2, CommitShape DEF head
  <2>2. \A ix \in 1..n :
            /\ log'[head + ix].id = <<tx.mid, ix>>
            /\ log'[head + ix].prev = IF ix = 1 THEN Request.prev ELSE <<tx.mid, ix - 1>>
    BY <1>2, CommitFields
  <2> HIDE DEF n
  <2>3. \A p \in 0..head : ChainAt(p)' = ChainAt(p)
    BY <2>1 DEF ChainAt, ChainZero
  <2>4. ASSUME NEW p \in 1..head' PROVE log'[p].prev = ChainAt(p - 1)'
    <3>1. CASE p \in 1..head
      <4>1. p - 1 \in 0..head
        BY <2>1, <3>1
      <4> QED
        BY <4>1, <3>1, <2>1, <2>3 DEF ChainIntact
    <3>2. CASE p = head + 1
      <4>1. 1 \in 1..n /\ head \in 0..head /\ p - 1 = head
        BY <2>1, <3>2
      <4> QED
        BY <4>1, <3>2, <2>1, <2>2, <2>3
    <3>3. CASE p > head + 1
      <4>1. p - head \in 1..n /\ (p - head) - 1 \in 1..n /\ p = head + (p - head) /\ p - head # 1
            /\ p - 1 = head + ((p - head) - 1) /\ p - 1 # 0
        BY <2>1, <3>3
      <4>2. log'[p].prev = <<tx.mid, (p - head) - 1>>
        BY <4>1, <2>2
      <4>3. log'[p - 1].id = <<tx.mid, (p - head) - 1>>
        BY <4>1, <2>2
      <4> QED
        BY <4>1, <4>2, <4>3 DEF ChainAt
    <3> QED
      BY <3>1, <3>2, <3>3, <2>1
  <2> QED
    BY <2>4 DEF ChainIntact
<1> QED
  BY <1>1, <1>2, SharedSteps DEF Seal, AppendReplay, durableVars

\* Every step keeps every receipt true: the log only grows, and receipts are only given for
\* requests that are in it.
LEMMA NextAcks == IndType /\ IndAcks /\ [Next]_vars => IndAcks'
<1> SUFFICES ASSUME IndType, IndAcks, [Next]_vars PROVE IndAcks'
  OBVIOUS
<1>1. CASE UNCHANGED <<net, log, acks>>
  BY <1>1 DEF IndAcks, InLog, LastOf, Receipt, head
<1>2. CASE \E b \in Batches : Seal(b)
  <2>1. \A m \in 1..Len(net) : net'[m] = net[m] /\ m \in 1..Len(net')
    BY <1>2, SealShape DEF IndType, TypeOK
  <2>2. UNCHANGED <<log, acks>>
    BY <1>2, SealShape
  <2> QED
    BY <2>1, <2>2 DEF IndAcks, InLog, LastOf, Receipt, head
<1>3. ASSUME NEW m \in 1..Len(net), AppendReplay(m) PROVE IndAcks'
  <2>1. Replayed(m) /\ acks' = acks \cup {Receipt(m)} /\ net' = net /\ log' = log
    BY <1>3 DEF AppendReplay, clientVars, durableVars
  <2>2. InLog(m) /\ Receipt(m).mid = m
    BY <2>1, ReplayShape DEF InLog, Receipt
  <2>3. \A r \in acks' : InLog(r.mid) /\ r = Receipt(r.mid)
    BY <2>1, <2>2 DEF IndAcks
  <2> QED
    BY <2>1, <2>3 DEF IndAcks, InLog, LastOf, Receipt, head
<1>4. CASE AppendCommit
  <2>a. PICK m \in 1..Len(net) : m = tx.mid
    BY <1>4, CommitShape
  <2>b. PICK n \in Nat \ {0} : n = Len(net[m].items)
    BY <1>4, <2>a, CommitShape
  <2>1. /\ m \in 1..Len(net) /\ Request = net[m] /\ n \in Nat \ {0} /\ head \in Nat
        /\ net[m].first = head + 1 /\ LastOf(m) = head + n /\ head' = head + n
        /\ \A p \in 1..head : log'[p] = log[p]
    BY <1>4, <2>a, <2>b, CommitShape DEF head
  <2>2. \A ix \in 1..n : log'[head + ix].id = <<m, ix>> /\ log'[head + ix].at = tx.now
    BY <1>4, <2>a, <2>b, <2>1, CommitFields
  <2>3. acks' = acks \cup {[mid |-> m, last |-> head + n, head_chain |-> <<m, n>>, at |-> tx.now]}
        /\ net' = net
    BY <1>4, <2>a, <2>b, <2>1 DEF AppendCommit, clientVars
  <2>4. \A x : LastOf(x)' = LastOf(x)
    BY <2>3 DEF LastOf
  <2>5. ASSUME NEW r \in acks PROVE InLog(r.mid)' /\ r = Receipt(r.mid)'
    <3>1. InLog(r.mid) /\ r = Receipt(r.mid)
      BY DEF IndAcks
    <3>2. \A p \in 1..head : p \in 1..head' /\ log'[p] = log[p]
      BY <2>1
    <3> QED
      BY <3>1, <3>2, <2>3, <2>4 DEF InLog, Receipt
  <2>6. InLog(m)'
    <3>1. \A ix \in 1..n : net[m].first + ix - 1 = head + ix /\ head + ix \in 1..head'
      <4>1. \A h, k \in Nat : \A ix \in 1..k : h + 1 + ix - 1 = h + ix /\ h + ix \in 1..(h + k)
        OBVIOUS
      <4> QED
        BY <4>1, <2>1
    <3>2. LastOf(m) \in 1..head'
      BY <2>1
    <3> QED
      BY <3>1, <3>2, <2>b, <2>1, <2>2, <2>3, <2>4 DEF InLog
  <2>7. Receipt(m)' = [mid |-> m, last |-> head + n, head_chain |-> <<m, n>>, at |-> tx.now]
    <3>1. n \in 1..n
      BY <2>1
    <3>2. log'[head + n].at = tx.now
      BY <3>1, <2>2
    <3> QED
      BY <3>2, <2>b, <2>1, <2>3, <2>4 DEF Receipt
  <2> QED
    BY <2>3, <2>5, <2>6, <2>7 DEF IndAcks
<1> QED
  BY <1>1, <1>2, <1>3, <1>4, SharedSteps

\* The log is one hash chain, for every history of races, retries and aborts.
THEOREM ChainAlways == Spec => []ChainIntact
  BY InitType, NextType, InitChain, NextChain, PTL DEF Spec

\* Every acknowledged request is in the log, where it was sealed for, for ever.
THEOREM AcksAlways == Spec => []AcksDurable
<1>1. Spec => [](IndType /\ IndAcks)
  BY InitType, NextType, InitChain, NextAcks, PTL DEF Spec
<1>2. IndType /\ IndAcks => AcksDurable
  <2> SUFFICES ASSUME IndType, IndAcks, NEW r \in acks
               PROVE  /\ r.last = LastOf(r.mid)
                      /\ r.last <= head
                      /\ \A ix \in 1..Len(net[r.mid].items) :
                             log[net[r.mid].first + ix - 1].id = <<r.mid, ix>>
    BY DEF AcksDurable
  <2>1. InLog(r.mid) /\ r = Receipt(r.mid) /\ head \in Nat
    BY ChainTyped DEF IndAcks
  <2>2. r.last = LastOf(r.mid)
    BY <2>1 DEF Receipt
  <2>3. LastOf(r.mid) \in 1..head
        /\ \A ix \in 1..Len(net[r.mid].items) : log[net[r.mid].first + ix - 1].id = <<r.mid, ix>>
    BY <2>1 DEF InLog
  <2>4. r.last <= head
    BY <2>1, <2>2, <2>3
  <2> QED
    BY <2>2, <2>3, <2>4
<1> QED
  BY <1>1, <1>2, PTL

\* All receipts for a request are the same, however often it is repeated.
THEOREM ReceiptsAlwaysAgree == Spec => []ReceiptsAgree
<1>1. Spec => [](IndType /\ IndAcks)
  BY InitType, NextType, InitChain, NextAcks, PTL DEF Spec
<1>2. IndAcks => ReceiptsAgree
  BY DEF IndAcks, ReceiptsAgree
<1> QED
  BY <1>1, <1>2, PTL
=============================================================================
