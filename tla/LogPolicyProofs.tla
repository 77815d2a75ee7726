-------------------------- MODULE LogPolicyProofs --------------------------
(***************************************************************************)
(* Facts about the policy gate, for every set of devices, accounts, keys   *)
(* and roots: what one op, or one device-signed item, does to the          *)
(* transport state.  LogServiceProofs cites them.                          *)
(***************************************************************************)
EXTENDS LogPolicy, TLAPS

\* A root the governing one may be handed to, or the genesis item may name.
RootPinned(o) == o.op = "genesis" => o.root \in PinnedRoots

HasOwner(s) == \E a \in Accounts : s.members[a] = "owner"

DevicesBelong(s) ==
    \A d \in Devices : Active(s, d) /\ KindOf[d] \notin ServiceKinds => RoleOf(s, d) # "none"

-----------------------------------------------------------------------------
\* The state before the genesis item is a transport state (CollectionMeta::new).
LEMMA BlankTyped == BlankState \in TransportState
  BY DEF BlankState, TransportState, Roles

\* A valid op leads from a transport state to a transport state (apply_policy).
LEMMA OpTyped ==
  ASSUME NEW s \in TransportState, NEW o \in PolicyOps, NEW seq, NEW j,
         OpOk(s, o, seq, j), RootPinned(o)
  PROVE  OpEffect(s, o) \in TransportState
<1> USE DEF TransportState
<1>1. CASE o.op = "genesis"
  BY <1>1 DEF PolicyOps, OpEffect, Genesis, RootPinned, Roles
<1>2. CASE o.op = "device-enrol"
  BY <1>2 DEF PolicyOps, OpEffect, Enrol
<1>3. CASE o.op = "device-revoke"
  BY <1>3 DEF PolicyOps, OpEffect, DeviceRevoke
<1>4. CASE o.op = "member-set"
  BY <1>4 DEF PolicyOps, OpEffect, MemberSet
<1>5. CASE o.op = "member-remove"
  <2>1. o.account \in Accounts
    BY <1>5 DEF PolicyOps
  <2>2. \A b \in [Devices -> {"absent", "active", "revoked"}] :
            [s EXCEPT !.members[o.account] = "none", !.acl = b,
                      !.rekey_required = TRUE] \in TransportState
    BY <2>1 DEF Roles
  <2>3. [d \in Devices |-> IF d \in DevicesOf(s, o.account) THEN "revoked" ELSE s.acl[d]]
            \in [Devices -> {"absent", "active", "revoked"}]
    OBVIOUS
  <2> QED
    BY <2>2, <2>3, <1>5 DEF OpEffect, MemberRemove
<1>6. CASE o.op = "collection-state"
  BY <1>6 DEF PolicyOps, OpEffect
<1>7. CASE o.op = "cp-key-revoke"
  BY <1>7 DEF PolicyOps, OpEffect
<1>8. CASE o.op = "freeze"
  BY <1>8 DEF PolicyOps, OpEffect
<1>9. CASE o.op = "root-handover"
  BY <1>9 DEF PolicyOps, OpEffect, OpOk, RootHandoverOk
<1>10. CASE o.op = "migration-cutover"
  BY <1>10 DEF PolicyOps, OpEffect
<1>11. CASE o.op = "grant"
  BY <1>11 DEF PolicyOps, OpEffect
<1> QED
  BY <1>1, <1>2, <1>3, <1>4, <1>5, <1>6, <1>7, <1>8, <1>9, <1>10, <1>11 DEF PolicyOps

\* A device-signed item that passes the gate does too (check_item).
LEMMA DeviceItemTyped ==
  ASSUME NEW s \in TransportState, NEW it, it.epoch \in Nat
  PROVE  DeviceItemEffect(s, it) \in TransportState
<1>1. it.epoch + 1 \in Nat
  OBVIOUS
<1>2. \A e \in Nat : [s EXCEPT !.epoch = e, !.rekey_required = FALSE] \in TransportState
  BY DEF TransportState
<1> QED
  BY <1>1, <1>2 DEF DeviceItemEffect, Rekey

\* So does the end of a policy item.
LEMMA PolicyEndTyped ==
  ASSUME NEW s \in TransportState, NEW p, p.issued_at \in Nat
  PROVE  PolicyEnd(s, p) \in TransportState
  BY DEF TransportState, PolicyEnd

-----------------------------------------------------------------------------
\* What an op can never do to epochs and revocations (apply_policy): the epoch stays, a
\* required rekey stays required, a revoked device stays revoked, and the devices the op
\* revokes are revoked with a rekey required.
LEMMA OpRevocation ==
  ASSUME NEW s \in TransportState, NEW o \in PolicyOps, NEW seq, NEW j,
         OpOk(s, o, seq, j)
  PROVE  /\ OpEffect(s, o).epoch = s.epoch
         /\ s.rekey_required => OpEffect(s, o).rekey_required
         /\ \A d \in Devices : s.acl[d] = "revoked" => OpEffect(s, o).acl[d] = "revoked"
         /\ \A d \in OpRevokes(s, o) :
                /\ d \in Devices
                /\ OpEffect(s, o).acl[d] = "revoked"
                /\ OpEffect(s, o).rekey_required
<1> USE DEF TransportState
<1>1. CASE o.op = "genesis"
  BY <1>1 DEF PolicyOps, OpEffect, OpRevokes, Genesis
<1>2. CASE o.op = "device-enrol"
  BY <1>2 DEF PolicyOps, OpEffect, OpRevokes, Enrol, OpOk, EnrolOk
<1>3. CASE o.op = "device-revoke"
  BY <1>3 DEF PolicyOps, OpEffect, OpRevokes, DeviceRevoke
<1>4. CASE o.op = "member-set"
  BY <1>4 DEF PolicyOps, OpEffect, OpRevokes, MemberSet
<1>5. CASE o.op = "member-remove"
  BY <1>5 DEF PolicyOps, OpEffect, OpRevokes, MemberRemove, DevicesOf
<1>6. CASE o.op = "collection-state"
  BY <1>6 DEF PolicyOps, OpEffect, OpRevokes
<1>7. CASE o.op = "cp-key-revoke"
  BY <1>7 DEF PolicyOps, OpEffect, OpRevokes
<1>8. CASE o.op = "freeze"
  BY <1>8 DEF PolicyOps, OpEffect, OpRevokes
<1>9. CASE o.op = "root-handover"
  BY <1>9 DEF PolicyOps, OpEffect, OpRevokes
<1>10. CASE o.op \in {"migration-cutover", "grant"}
  BY <1>10 DEF PolicyOps, OpEffect, OpRevokes
<1> QED
  BY <1>1, <1>2, <1>3, <1>4, <1>5, <1>6, <1>7, <1>8, <1>9, <1>10 DEF PolicyOps

\* No op takes the last owner away, and a genesis op makes one (is_only_owner).
LEMMA OpOwner ==
  ASSUME NEW s \in TransportState, NEW o \in PolicyOps, NEW seq, NEW j,
         OpOk(s, o, seq, j), HasOwner(s) \/ o.op = "genesis"
  PROVE  HasOwner(OpEffect(s, o))
<1> USE DEF TransportState, HasOwner
<1>1. CASE o.op = "genesis"
  BY <1>1 DEF PolicyOps, OpEffect, Genesis
<1>2. CASE o.op = "member-set"
  BY <1>2 DEF PolicyOps, OpEffect, OpOk, MemberSetOk, MemberSet, IsOnlyOwner
<1>3. CASE o.op = "member-remove"
  BY <1>3 DEF PolicyOps, OpEffect, OpOk, MemberRemoveOk, MemberRemove, IsOnlyOwner
<1>4. CASE o.op \notin {"genesis", "member-set", "member-remove"}
  <2>1. OpEffect(s, o).members = s.members
    BY <1>4 DEF PolicyOps, OpEffect, Enrol, DeviceRevoke
  <2> QED
    BY <2>1, <1>4
<1> QED
  BY <1>1, <1>2, <1>3, <1>4

\* No op leaves a personal device active whose account is not a member.
LEMMA OpMembership ==
  ASSUME NEW s \in TransportState, NEW o \in PolicyOps, NEW seq, NEW j,
         OpOk(s, o, seq, j), DevicesBelong(s)
  PROVE  DevicesBelong(OpEffect(s, o))
<1> USE PolicyAssumption DEF TransportState, DevicesBelong, Active, RoleOf
<1>1. CASE o.op = "genesis"
  BY <1>1 DEF PolicyOps, OpEffect, Genesis
<1>2. CASE o.op = "member-set"
  BY <1>2 DEF PolicyOps, OpEffect, MemberSet
<1>3. CASE o.op = "member-remove"
  BY <1>3 DEF PolicyOps, OpEffect, MemberRemove, DevicesOf
<1>4. CASE o.op = "device-enrol"
  BY <1>4 DEF PolicyOps, OpEffect, OpOk, EnrolOk, Enrol
<1>5. CASE o.op = "device-revoke"
  BY <1>5 DEF PolicyOps, OpEffect, DeviceRevoke
<1>6. CASE o.op \notin {"genesis", "member-set", "member-remove", "device-enrol", "device-revoke"}
  BY <1>6 DEF PolicyOps, OpEffect
<1> QED
  BY <1>1, <1>2, <1>3, <1>4, <1>5, <1>6
=============================================================================
