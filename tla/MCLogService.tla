---------------------------- MODULE MCLogService ----------------------------
(***************************************************************************)
(* LogService and LogRecovery for TLC: a collection of a1 and a2 with one  *)
(* user device each, a recovery device of a2, a hosted and an escrow       *)
(* device.  Each run picks what clients may seal.                          *)
(***************************************************************************)
EXTENDS LogRecovery

CONSTANTS d1, d2, rec, host, esc, a1, a2, zero, k1, k2, r1, r2, r3, t1, t2

MCAccounts == {a1, a2, zero}
MCPolicyKeys == {k1, k2}
MCRoots == {r1, r2, r3}
MCPinned == {r1, r2}
MCTokens == {t1, t2}

UserDevices == {d1, d2}
AllDevices == {d1, d2, rec, host, esc}
MCKindOf ==
    [d \in Devices |-> CASE d = rec -> "recovery" [] d = host -> "hosted"
                         [] d = esc -> "escrow" [] OTHER -> "user"]
MCAccountOf == [d \in Devices |-> CASE d = d1 -> a1 [] d \in {d2, rec} -> a2 [] OTHER -> zero]

Item(kind, signer, epoch, idem) ==
    [kind |-> kind, signer |-> signer, epoch |-> epoch, idem |-> idem, wraps |-> {},
     recipient |-> None, policy |-> None]

Entry(d, epoch, t) == Item("entry", d, epoch, t)
RekeyItem(d, from, wraps) == [Item("rekey", d, from, None) EXCEPT !.wraps = wraps]
KeyGrant(d, epoch, to) ==
    [Item("key_grant", d, epoch, None) EXCEPT !.wraps = {to}, !.recipient = to]

PolicyItem(key, root, issued, ops) ==
    [Item("policy", None, 0, None) EXCEPT
        !.policy = [key |-> key, root |-> root, issued_at |-> issued, ops |-> ops]]

\* A request of the control plane with one policy item.
Govern(issued, ops) == [by |-> CP, items |-> <<PolicyItem(k1, r1, issued, ops)>>]

GenesisOp == [op |-> "genesis", owner |-> a1, state |-> "e2e", root |-> r1]
EnrolOp(d) == [op |-> "device-enrol", device |-> d]
RevokeOp(d) == [op |-> "device-revoke", device |-> d]
SetOp(a, role) == [op |-> "member-set", account |-> a, role |-> role]
RemoveOp(a) == [op |-> "member-remove", account |-> a]
StateOp(s) == [op |-> "collection-state", state |-> s]
FreezeOp(f) == [op |-> "freeze", frozen |-> f]
HandoverOp(d, r) == [op |-> "root-handover", device |-> d, root |-> r]
KeyRevokeOp(k, from) == [op |-> "cp-key-revoke", key |-> k, from |-> from]

\* Revocation and rekeying while content is in flight.
RevocationBatches ==
    {Govern(0, <<GenesisOp, SetOp(a2, "editor"), EnrolOp(d1), EnrolOp(d2)>>),
     Govern(1, <<RevokeOp(d2)>>),
     Govern(1, <<RemoveOp(a2)>>),
     [by |-> d1, items |-> <<RekeyItem(d1, 0, {d1}), Entry(d1, 1, None)>>],
     [by |-> d1, items |-> <<RekeyItem(d1, 0, {d1, d2})>>],
     [by |-> d1, items |-> <<Entry(d1, 0, None)>>],
     [by |-> d2, items |-> <<Entry(d2, 0, None)>>]}

\* Membership, services, freezing and control-plane keys.
GovernanceBatches ==
    {Govern(0, <<GenesisOp, SetOp(a2, "owner"), EnrolOp(d1), EnrolOp(d2), EnrolOp(rec)>>),
     Govern(1, <<EnrolOp(esc), EnrolOp(host), StateOp("cloud-copy"), FreezeOp(TRUE)>>),
     Govern(1, <<FreezeOp(FALSE), [op |-> "migration-cutover"]>>),
     Govern(1, <<SetOp(a1, "viewer")>>),
     Govern(1, <<RemoveOp(a2)>>),
     Govern(1, <<RevokeOp(esc), RevokeOp(host), StateOp("e2e")>>),
     Govern(1, <<HandoverOp(d1, r2), [op |-> "grant"]>>),
     Govern(1, <<HandoverOp(d1, r3)>>),
     Govern(1, <<KeyRevokeOp(k1, 1)>>),
     [by |-> d1, items |-> <<PolicyItem(k2, r2, 1, <<SetOp(a2, "viewer")>>)>>],
     [by |-> d1, items |-> <<Item("grant_approval", d2, 0, None), Item("base", d1, 0, None)>>],
     [by |-> d2, items |-> <<KeyGrant(rec, 0, d2)>>],
     [by |-> host, items |-> <<Entry(host, 0, None)>>],
     [by |-> esc, items |-> <<RekeyItem(esc, 0, {d1, host})>>]}

PolicyBatches == RevocationBatches \cup GovernanceBatches

\* Every request sealed so far is one of the family.
SealedFrom(family) ==
    \A i \in 1..Len(net) : [by |-> net[i].by, items |-> net[i].items] \in family

\* Clients of one family at a time, the larger one with a request less.
OneFamilyNext ==
    \/ Serve
    \/ SealedFrom(RevocationBatches) /\ \E b \in RevocationBatches : Seal(b)
    \/ /\ SealedFrom(GovernanceBatches) /\ Len(net) < MaxRequests - 1
       /\ \E b \in GovernanceBatches : Seal(b)

PolicySpec == Init /\ [][OneFamilyNext]_vars

\* A chatty collection: tokens, snapshots, compaction and quotas.
RetentionBatches ==
    {Govern(0, <<GenesisOp, SetOp(a2, "editor"), EnrolOp(d1), EnrolOp(d2)>>),
     [by |-> d1, items |-> <<Entry(d1, 0, t1), PolicyItem(k1, r1, 1, <<[op |-> "grant"]>>),
                             Entry(d1, 0, None)>>],
     [by |-> d2, items |-> <<Entry(d2, 0, t1)>>]}
=============================================================================
