----------------------------- MODULE LogRecovery -----------------------------
(***************************************************************************)
(* Rebuilding the transport state from the stored control items            *)
(* (rebuild_state, log-service/src/service.rs): the state a collection has *)
(* after a failover, from what survives of a log that was compacted.       *)
(***************************************************************************)
EXTENDS LogService

\* Mutant: reads the policy items only.
PolicyItems == {p \in kept : log[p].body.kind = "policy"}

\* The stored control items.
ControlItems == {p \in kept : log[p].body.kind # "entry"}

\* The next op of a policy item; ok = FALSE is the error return.
NextOp(acc, pol, seq, j) ==
    IF acc.ok /\ OpOk(acc.s, pol.ops[j], seq, j)
    THEN [acc EXCEPT !.s = OpEffect(acc.s, pol.ops[j])]
    ELSE [acc EXCEPT !.ok = FALSE]

\* apply_policy on a whole item.
ApplyPolicy(s, pol, seq) ==
    LET f[j \in 0..Len(pol.ops)] ==
            IF j = 0 THEN [ok |-> PolicyHeaderOk(s, pol, seq), s |-> s]
            ELSE NextOp(f[j-1], pol, seq, j)
        end == f[Len(pol.ops)]
    IN  [ok |-> end.ok /\ PolicyEndOk(end.s, pol), s |-> PolicyEnd(end.s, pol)]

\* check_item.
CheckItem(s, it, seq) ==
    IF it.kind = "policy"
    THEN ApplyPolicy(s, it.policy, seq)
    ELSE [ok |-> DeviceItemOk(s, it), s |-> DeviceItemEffect(s, it)]

NextItem(acc, p) ==
    IF p \in ControlItems /\ acc.ok THEN CheckItem(acc.s, log[p].body, p) ELSE acc

\* In order.
RebuildState ==
    LET f[p \in 0..head] ==
            IF p = 0 THEN [ok |-> TRUE, s |-> BlankState] ELSE NextItem(f[p-1], p)
    IN  f[head]

\* The stored control items alone give the live transport state back, without an
\* error: nothing the service decides on is lost by compaction or depends on an entry
\* (rebuild_state against the state append maintains).
RebuildMatches == tx.mid = 0 => RebuildState = [ok |-> TRUE, s |-> st]
=============================================================================
