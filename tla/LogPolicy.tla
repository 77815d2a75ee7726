----------------------------- MODULE LogPolicy -----------------------------
(***************************************************************************)
(* The transport state a log service derives from a collection's control   *)
(* items, and the gate every item passes before it is appended             *)
(* (log-service/src/policy.rs, check_item in log-service/src/service.rs).   *)
(*                                                                         *)
(* Everything here is a pure operator on one record, the CollectionState   *)
(* of the code: LogService applies them to the working copy of an append.  *)
(* Each policy op is a pair  <Op>Ok(s, o)  (the code's early returns) and  *)
(* <Op>(s, o)  (its assignments).                                          *)
(*                                                                         *)
(* Signatures are ideal: an item or certificate whose signature does not   *)
(* verify is refused without effect, so none is ever constructed.          *)
(***************************************************************************)
EXTENDS Integers, Sequences

CONSTANTS
    Devices,      \* device IDs, whatever their kind
    Accounts,     \* account IDs
    ZeroAccount,  \* the all-zero account ID, which service devices enrol under
    KindOf,       \* the kind a device's enrolment states
    AccountOf,    \* the account a device's enrolment states
    PolicyKeys,   \* control-plane policy-signing keys
    Roots,        \* root keys
    PinnedRoots,  \* the ones the service pins (Config.roots)
    None          \* the absent value of an optional field

DeviceKinds == {"user", "recovery", "hosted", "escrow"}

ASSUME PolicyAssumption ==
    /\ ZeroAccount \in Accounts
    /\ KindOf \in [Devices -> DeviceKinds]
    /\ AccountOf \in [Devices -> Accounts]
    /\ PinnedRoots \subseteq Roots
    /\ None \notin Devices \cup Nat \cup Roots

Roles == {"none", "viewer", "editor", "owner"}

\* device_kind::HOSTED and device_kind::ESCROW: the kinds of the zero account.
ServiceKinds == {"hosted", "escrow"}

(***************************************************************************)
(* The transport state.  acl[d] is "absent" before enrolment; an entry is  *)
(* never removed, only made inactive.  members[a] = "none" is a missing    *)
(* row.  revoked_cp_keys[k] = None is a key that was not revoked.          *)
(***************************************************************************)
TransportState ==
    [members: [Accounts -> Roles],
     acl: [Devices -> {"absent", "active", "revoked"}],
     cstate: {"e2e", "cloud-copy"},
     epoch: Nat,
     rekey_required: BOOLEAN,
     frozen: BOOLEAN,
     cutover: BOOLEAN,
     root: PinnedRoots \cup {None},
     last_issued_at: Int,
     revoked_cp_keys: [PolicyKeys -> Nat \cup {None}]]

\* CollectionMeta::new with an empty ACL: before the genesis item.  The code's
\* i64::MIN for last_issued_at is any value below every issuing time.
BlankState ==
    [members |-> [a \in Accounts |-> "none"],
     acl |-> [d \in Devices |-> "absent"],
     cstate |-> "e2e",
     epoch |-> 0,
     rekey_required |-> FALSE,
     frozen |-> FALSE,
     cutover |-> FALSE,
     root |-> None,
     last_issued_at |-> -1,
     revoked_cp_keys |-> [k \in PolicyKeys |-> None]]

Active(s, d) == d \in Devices /\ s.acl[d] = "active"

RoleOf(s, d) == s.members[AccountOf[d]]

Writer(s, d) == RoleOf(s, d) \in {"editor", "owner"}

ActiveServices(s) == {d \in Devices : Active(s, d) /\ KindOf[d] \in ServiceKinds}

-----------------------------------------------------------------------------
(***************************************************************************)
(* Policy ops.                                                             *)
(***************************************************************************)
PolicyOps ==
    [op: {"genesis"}, owner: Accounts, state: {"e2e", "cloud-copy"}, root: Roots]
    \cup [op: {"device-enrol", "device-revoke"}, device: Devices]
    \cup [op: {"member-set"}, account: Accounts, role: Roles \ {"none"}]
    \cup [op: {"member-remove"}, account: Accounts]
    \cup [op: {"collection-state"}, state: {"e2e", "cloud-copy"}]
    \cup [op: {"cp-key-revoke"}, key: PolicyKeys, from: Nat]
    \cup [op: {"freeze"}, frozen: BOOLEAN]
    \cup [op: {"root-handover"}, device: Devices, root: Roots]
    \cup [op: {"migration-cutover", "grant"}]

\* Mutant: counts members instead of owners.
OnlyMember(s, a) ==
    s.members[a] = "owner" /\ \A b \in Accounts : s.members[b] # "none" => b = a

IsOnlyOwner(s, a) ==
    /\ s.members[a] = "owner"
    /\ \A b \in Accounts : s.members[b] = "owner" => b = a

Genesis(s, o) ==
    [s EXCEPT !.root = o.root, !.cstate = o.state, !.members[o.owner] = "owner"]

\* A device is enrolled at most once, even after it was revoked.
EnrolOk(s, o) ==
    /\ s.acl[o.device] = "absent"
    /\ IF AccountOf[o.device] = ZeroAccount
       THEN KindOf[o.device] \in ServiceKinds
       ELSE KindOf[o.device] \notin ServiceKinds /\ RoleOf(s, o.device) # "none"

Enrol(s, o) == [s EXCEPT !.acl[o.device] = "active"]

\* Mutant: leaves rekey_required as it is.
DeviceRevokeNoRekey(s, o) == [s EXCEPT !.acl[o.device] = "revoked"]

DeviceRevoke(s, o) == [s EXCEPT !.acl[o.device] = "revoked", !.rekey_required = TRUE]

MemberSetOk(s, o) == o.role # "owner" => ~IsOnlyOwner(s, o.account)

MemberSet(s, o) == [s EXCEPT !.members[o.account] = o.role]

MemberRemoveOk(s, o) == s.members[o.account] # "none" /\ ~IsOnlyOwner(s, o.account)

\* The devices a member-remove deactivates.
DevicesOf(s, a) == {d \in Devices : AccountOf[d] = a /\ Active(s, d)}

\* Mutant: leaves the account's devices active.
MemberRemoveKeepsDevices(s, o) ==
    [s EXCEPT !.members[o.account] = "none", !.rekey_required = TRUE]

MemberRemove(s, o) ==
    [s EXCEPT !.members[o.account] = "none",
              !.acl = [d \in Devices |->
                          IF d \in DevicesOf(s, o.account) THEN "revoked" ELSE s.acl[d]],
              !.rekey_required = TRUE]

CollectionStateOk(s, o) ==
    o.state = "cloud-copy" => \E d \in ActiveServices(s) : KindOf[d] = "escrow"

\* Mutant: any root may take over.
RootHandoverAnywhere(s, o) == Active(s, o.device) /\ RoleOf(s, o.device) = "owner"

\* The device consents for its owner account; the target is a pinned root.
RootHandoverOk(s, o) ==
    Active(s, o.device) /\ RoleOf(s, o.device) = "owner" /\ o.root \in PinnedRoots

\* Whether op o is valid in state s, at index j of the policy item at position seq.
OpOk(s, o, seq, j) ==
    CASE o.op = "genesis" -> seq = 1 /\ j = 1
      [] o.op = "device-enrol" -> EnrolOk(s, o)
      [] o.op = "device-revoke" -> Active(s, o.device)
      [] o.op = "member-set" -> MemberSetOk(s, o)
      [] o.op = "member-remove" -> MemberRemoveOk(s, o)
      [] o.op = "collection-state" -> CollectionStateOk(s, o)
      [] o.op = "migration-cutover" -> ~s.cutover
      [] o.op = "root-handover" -> RootHandoverOk(s, o)
      [] OTHER -> TRUE

\* The transport effect of a valid op.
OpEffect(s, o) ==
    CASE o.op = "genesis" -> Genesis(s, o)
      [] o.op = "device-enrol" -> Enrol(s, o)
      [] o.op = "device-revoke" -> DeviceRevoke(s, o)
      [] o.op = "member-set" -> MemberSet(s, o)
      [] o.op = "member-remove" -> MemberRemove(s, o)
      [] o.op = "collection-state" -> [s EXCEPT !.cstate = o.state]
      [] o.op = "cp-key-revoke" -> [s EXCEPT !.revoked_cp_keys[o.key] = o.from]
      [] o.op = "migration-cutover" -> [s EXCEPT !.cutover = TRUE]
      [] o.op = "freeze" -> [s EXCEPT !.frozen = o.frozen]
      [] o.op = "root-handover" -> [s EXCEPT !.root = o.root]
      [] OTHER -> s

\* The devices a valid op revokes.
OpRevokes(s, o) ==
    CASE o.op = "device-revoke" -> {o.device}
      [] o.op = "member-remove" -> DevicesOf(s, o.account)
      [] OTHER -> {}

-----------------------------------------------------------------------------
(***************************************************************************)
(* Policy items: the checks before the first op and after the last one.    *)
(***************************************************************************)
Policies ==
    [key: PolicyKeys, root: Roots, issued_at: Nat, ops: Seq(PolicyOps)]

\* verify_policy_crypto and the monotonicity and revocation rules.  At position
\* 1 the governing root is the one the genesis op names.
PolicyHeaderOk(s, p, seq) ==
    /\ p.ops # << >>
    /\ IF seq = 1
       THEN p.ops[1].op = "genesis" /\ p.ops[1].root = p.root
       ELSE p.root = s.root
    /\ p.root \in PinnedRoots
    /\ p.issued_at >= s.last_issued_at
    /\ s.revoked_cp_keys[p.key] # None => p.issued_at < s.revoked_cp_keys[p.key]

\* A switch to e2e is judged after the item's last op.
PolicyEndOk(s, p) ==
    (\E j \in 1..Len(p.ops) : p.ops[j].op = "collection-state" /\ p.ops[j].state = "e2e")
        => ActiveServices(s) = {}

PolicyEnd(s, p) == [s EXCEPT !.last_issued_at = p.issued_at]

-----------------------------------------------------------------------------
(***************************************************************************)
(* The other kinds.  it.epoch is the envelope's epoch of an entry, base or *)
(* grant approval, the payload's epoch of a key grant, and the epoch a     *)
(* rekey advances from.                                                    *)
(***************************************************************************)
DeviceItemKinds == {"entry", "base", "rekey", "key_grant", "grant_approval"}

\* The kinds whose contents are sealed, or keyed, under it.epoch.
SealedKinds == {"entry", "base", "key_grant", "grant_approval"}

\* Mutant: forgets the frozen flag.
ContentOkFrozen(s, it) ==
    /\ Writer(s, it.signer) \/ (KindOf[it.signer] = "hosted" /\ s.cstate = "cloud-copy")
    /\ ~s.rekey_required
    /\ it.epoch = s.epoch

ContentOk(s, it) ==
    /\ Writer(s, it.signer) \/ (KindOf[it.signer] = "hosted" /\ s.cstate = "cloud-copy")
    /\ ~s.frozen
    /\ ~s.rekey_required
    /\ it.epoch = s.epoch

\* Mutant: wraps the new key for whoever is named.
RekeyOkAnyWraps(s, it) == it.epoch = s.epoch

RekeyOk(s, it) ==
    /\ it.epoch = s.epoch
    /\ \A d \in it.wraps : Active(s, d)

Rekey(s, it) == [s EXCEPT !.epoch = it.epoch + 1, !.rekey_required = FALSE]

\* A recovery device of a member may only unlock that member's own user devices.
KeyGrantOk(s, it) ==
    LET service == KindOf[it.signer] \in ServiceKinds /\ s.cstate = "cloud-copy"
        own == /\ KindOf[it.signer] = "recovery"
               /\ RoleOf(s, it.signer) # "none"
               /\ Active(s, it.recipient)
               /\ AccountOf[it.recipient] = AccountOf[it.signer]
               /\ KindOf[it.recipient] = "user"
               /\ it.wraps = {it.recipient}
    IN  /\ Writer(s, it.signer) \/ service \/ own
        /\ ~s.rekey_required
        /\ it.epoch = s.epoch

GrantApprovalOk(s, it) ==
    /\ RoleOf(s, it.signer) # "none"
    /\ KindOf[it.signer] \notin ServiceKinds
    /\ ~s.rekey_required
    /\ it.epoch = s.epoch

\* check_item for a device-signed item.
DeviceItemOk(s, it) ==
    /\ Active(s, it.signer)
    /\ KindOf[it.signer] = "escrow" => it.kind \in {"rekey", "key_grant"}
    /\ CASE it.kind \in {"entry", "base"} -> ContentOk(s, it)
         [] it.kind = "rekey" -> RekeyOk(s, it)
         [] it.kind = "key_grant" -> KeyGrantOk(s, it)
         [] it.kind = "grant_approval" -> GrantApprovalOk(s, it)

DeviceItemEffect(s, it) == IF it.kind = "rekey" THEN Rekey(s, it) ELSE s
=============================================================================
