------------------------------- MODULE Replica -------------------------------
(***************************************************************************)
(* The replicas of one collection and the log service between them: each   *)
(* replica captures writes, appends them at the head it has applied,       *)
(* applies what the log holds and settles its writes' receipts             *)
(* (replica/append.rs, apply.rs), and when the service turns out to have   *)
(* lost a tail it probes for the last common position and appends its      *)
(* retained bytes again, or rolls back and replays (lost_tail.rs).         *)
(*                                                                         *)
(* A chain hash commits to everything before it, so it is modelled as the  *)
(* prefix it stands for; an item is <<author, write, salt>>, the salt      *)
(* telling two sealings of one write apart.  A replica is a record: its    *)
(* handlers are operators from the record to the record, in the order of   *)
(* the code.  A session answers its calls in order (conn_loop), so `calls` *)
(* is a queue; a call whose reply will be ignored has cur = FALSE in place *)
(* of call ids and repair generations.  Timers have no clock: Tick is the  *)
(* wake-up that finds them all due.                                        *)
(***************************************************************************)
EXTENDS Integers, Sequences, FiniteSets, FiniteSetsExt, SequencesExt

CONSTANTS
    Replicas,
    Writes,        \* bound: the writes clients make, <<replica, capture order>>
    Contended,     \* the capture numbers at which a head accepts one author's write only
    BatchItems,    \* tuning.max_items, and MAX_ITEMS of a repair
    BackoffAfter,  \* tuning.backoff_after
    MinTail,       \* tail_retention.min_positions, with a threshold of 1
    Rollback,      \* ROLLBACK_ENABLED
    Parallel,      \* other sessions' commits run between a handler's end and its reply
    MaxLosses,     \* bound: tails the service loses
    MaxCuts,       \* bound: sessions lost
    MaxCrashes,    \* bound: restarts of a replica
    MaxBusy,       \* bound: calls answered unavailable or rate_limited
    MaxFaults      \* bound: all of these together

ASSUME ReplicaAssumption ==
    /\ Writes \subseteq Replicas \X Nat
    /\ {BackoffAfter, MaxLosses, MaxCuts, MaxCrashes, MaxBusy, MaxFaults} \subseteq Nat
    /\ {BatchItems, MinTail} \subseteq Nat \ {0}
    /\ Contended \subseteq Nat
    /\ {Rollback, Parallel} \subseteq BOOLEAN

VARIABLES
    log,     \* the service's chain
    subs,    \* replicas with a live subscription
    out,     \* the frames on their way to each replica: pushes and replies
    late,    \* appends of ended sessions the service may still execute
    lost,    \* writes the service lost, ever
    count,   \* how often each bounded fault happened
    rep      \* the replicas

vars == <<log, subs, out, late, lost, count, rep>>

WritesOf(r) == {w[2] : w \in {v \in Writes : v[1] = r}}

WriteOf(a) == <<a[1], a[2]>>
WritesIn(c) == {WriteOf(c[p]) : p \in DOMAIN c}
Prefix(c, n) == SubSeq(c, 1, n)

\* A frame: the positions from `from` to the end of log; or the reply to the oldest call.
Reply == [log |-> << >>, from |-> 0]

-----------------------------------------------------------------------------
(***************************************************************************)
(* Calls.                                                                  *)
(***************************************************************************)
Wait == [t |-> "wait", log |-> << >>, upto |-> 0]

Call(k, base, items, p) ==
    [k |-> k, base |-> base, items |-> items, p |-> p, cur |-> TRUE, ans |-> Wait]

Queue(s, c) == [s EXCEPT !.calls = Append(@, c)]

\* Replies to earlier calls of these kinds no longer count.
Stale(s, kinds) ==
    [s EXCEPT !.calls = [j \in DOMAIN @ |->
        IF @[j].k \in kinds THEN [@[j] EXCEPT !.cur = FALSE] ELSE @[j]]]

HeadFetch(s) == Queue(s, Call("subscribe", << >>, << >>, 0))

Head_(s) == Len(s.chain)

\* A lost-tail repair holds the loop; a replay may read.
RequestRead(s) ==
    IF s.reading \/ s.repair.phase \in {"probing", "repairing", "held"} THEN s
    ELSE Queue([s EXCEPT !.reading = TRUE], Call("read", s.chain, << >>, 0))

-----------------------------------------------------------------------------
(***************************************************************************)
(* The append loop's batches.                                              *)
(***************************************************************************)
NoBatch == [st |-> "idle", base |-> << >>, items |-> << >>]

InFlight(s) == s.append.st \in {"flight", "retry"}

\* The batch is given up; a later sealing of its writes is other bytes.
GiveUp(s, st) == [Stale(s, {"append"}) EXCEPT !.append = [NoBatch EXCEPT !.st = st],
                                              !.salt = @ + 1]

\* send_append: the same bytes under a new call.
SendAppend(s, base, items) ==
    Queue([Stale(s, {"append"}) EXCEPT
              !.append = [st |-> "flight", base |-> base, items |-> items]],
          Call("append", base, items, 0))

\* The planner at the head: a contended write loses to another author's, except when it
\* is this replica's own acknowledged write being resurrected.
Rejected(s, c, i) ==
    /\ i \in Contended \ s.resurrected
    /\ \E w \in WritesIn(c) : w[1] # s.me /\ w[2] = i

\* The rows of a batch: the first pending ones in capture order.  Each is planned on the
\* head and the ones before it; those are the replica's own, so only the head may reject.
FirstRows(s) == {i \in s.pending : Cardinality({j \in s.pending : j < i}) < BatchItems}
ConfirmedRows(s) == {i \in FirstRows(s) : <<s.me, i>> \in WritesIn(s.chain)}
RejectedRows(s) == {i \in FirstRows(s) \ ConfirmedRows(s) : Rejected(s, s.chain, i)}

Ascending(S) ==
    CHOOSE q \in [1..Cardinality(S) -> S] :
        Range(q) = S /\ \A m, n \in DOMAIN q : m < n => q[m] < q[n]

Sealed(s) ==
    LET q == Ascending(FirstRows(s) \ (ConfirmedRows(s) \cup RejectedRows(s)))
    IN [n \in DOMAIN q |-> <<s.me, q[n], s.salt>>]

Settled(s) ==
    [s EXCEPT
        !.pending = @ \ (RejectedRows(s) \cup ConfirmedRows(s)),
        !.res = [i \in DOMAIN @ |-> IF i \in RejectedRows(s) THEN "rejected"
                                    ELSE IF i \in ConfirmedRows(s) THEN "confirmed"
                                    ELSE @[i]],
        !.resurrected = @ \ RejectedRows(s)]

\* send_batch.
SendBatch(s) ==
    IF Sealed(s) = << >> THEN Settled(s) ELSE SendAppend(Settled(s), s.chain, Sealed(s))

-----------------------------------------------------------------------------
(***************************************************************************)
(* The lost-tail repair.  lo = -1 is None.                                 *)
(***************************************************************************)
NoRepair == [phase |-> "none", from |-> 0, head |-> 0, floor |-> 0, lo |-> -1, hi |-> 0,
             busy |-> FALSE, at |-> 0, n |-> 0, wait |-> FALSE]

Repairing(s) == s.repair.phase # "none"

\* own_chain_at: what the head or the retained tail says of position p.
OwnAt(s, p) ==
    IF p = Head_(s) THEN {s.chain}
    ELSE IF p = 0 THEN {<< >>}
    ELSE {c \in s.tail : Len(c) = p}

NextProbe(floor, lo, hi) ==
    LET b == IF lo >= 0 THEN lo ELSE floor IN
    IF lo < 0 /\ floor = 0 THEN IF hi > 0 THEN hi \div 2 ELSE -1
    ELSE IF hi > b + 1 THEN b + (hi - b) \div 2 ELSE -1

ProbeAt(s, p) ==
    Queue([s EXCEPT !.repair.busy = TRUE], Call("probe", s.chain, << >>, p))

\* restart_probe: a new generation, the batch aimed at the lost head dropped.
RestartProbe(s, h) ==
    LET top == Min({h, Head_(s)})
        s1  == Stale(IF InFlight(s) THEN GiveUp(s, "idle") ELSE s, {"probe", "repair"})
    IN ProbeAt([s1 EXCEPT
                   !.repair = [NoRepair EXCEPT
                       !.phase = "probing", !.from = Head_(s), !.head = h,
                       !.floor = IF s.tail = {} THEN Head_(s)
                                 ELSE Min({Len(c) : c \in s.tail}) - 1,
                       !.hi = top + 1],
                   !.caught_up = FALSE],
               top)

\* on_lost_tail: not during a replay, and not for this replica's own repair progress.
OnLostTail(s, h, below) ==
    IF \/ s.repair.phase = "rolling"
       \/ /\ below
          /\ s.repair.phase = "repairing"
          /\ h = s.repair.at \/ (s.repair.busy /\ h = s.repair.at + s.repair.n)
    THEN s ELSE RestartProbe(s, h)

\* rollback_progress: done once the applied head reaches the target.
RollbackProgress(s) ==
    IF Head_(s) >= s.repair.head
    THEN [s EXCEPT !.repair = NoRepair, !.known = Max({@, Head_(s)})]
    ELSE RequestRead(s)

\* Mutant: takes every own acknowledged write for lost.
TryRollbackAll(s, l) ==
    IF ~Rollback THEN s
    ELSE RollbackProgress([s EXCEPT
             !.chain = << >>, !.tail = {c \in @ : Len(c) <= l}, !.own = {},
             !.pending = @ \cup {o[2] : o \in s.own},
             !.resurrected = @ \cup {o[2] : o \in s.own},
             !.known = s.repair.head, !.caught_up = FALSE,
             !.repair = [NoRepair EXCEPT !.phase = "rolling", !.head = s.repair.head]])

\* Mutant: replays the service's history and forgets the own writes it lacks.
TryRollbackForgets(s, l) ==
    IF ~Rollback THEN s
    ELSE RollbackProgress([s EXCEPT
             !.chain = << >>, !.tail = {c \in @ : Len(c) <= l},
             !.known = s.repair.head, !.caught_up = FALSE,
             !.repair = [NoRepair EXCEPT !.phase = "rolling", !.head = s.repair.head]])

\* try_rollback to genesis, with the own acknowledged writes above l pending again.
TryRollback(s, l) ==
    LET again == {o \in s.own : o[1] > l} IN
    IF ~Rollback THEN s
    ELSE RollbackProgress([s EXCEPT
             !.chain = << >>,
             !.tail = {c \in @ : Len(c) <= l},
             !.own = @ \ again,
             !.pending = @ \cup {o[2] : o \in again},
             !.resurrected = @ \cup {o[2] : o \in again},
             !.known = s.repair.head,
             !.caught_up = FALSE,
             !.repair = [NoRepair EXCEPT !.phase = "rolling", !.head = s.repair.head]])

\* probe_done: an unproven common position (lo = -1) holds for good.
ProbeDone(s, lo) ==
    LET held == [s EXCEPT !.repair = [NoRepair EXCEPT !.phase = "held", !.head = s.repair.head,
                                          !.from = s.repair.from, !.lo = lo]]
    IN IF lo < 0 THEN held ELSE TryRollback(held, lo)

\* repair_finished: the service holds this replica's head again.
RepairFinished(s) ==
    [s EXCEPT !.repair = NoRepair, !.known = Max({@, Head_(s)}), !.caught_up = TRUE]

\* send_repair: one batch of retained bytes after `at`; a hole takes the fallback.
SendRepair(s, at) ==
    LET upto == Min({at + BatchItems, s.repair.from})
        rows == {c \in s.tail : Len(c) \in at+1..upto}
        top  == CHOOSE c \in rows : Len(c) = upto
    IN IF at >= s.repair.from THEN RepairFinished(s)
       ELSE IF {Len(c) : c \in rows} # at+1..upto THEN ProbeDone(s, at)
       ELSE Queue([s EXCEPT !.repair = [@ EXCEPT !.phase = "repairing", !.at = at,
                                            !.n = upto - at, !.busy = TRUE, !.wait = FALSE]],
                  Call("repair", Prefix(top, at), SubSeq(top, at + 1, upto), 0))

\* The search narrowed to (lo, hi): the next probe, or its end.
Search(s, lo, hi) ==
    LET s1 == [s EXCEPT !.repair.lo = lo, !.repair.hi = hi, !.repair.busy = FALSE]
        p  == NextProbe(s.repair.floor, lo, hi)
    IN IF p < 0 THEN ProbeDone(s1, lo) ELSE ProbeAt(s1, p)

\* Mutant: a service that is ahead after all counts as diverged.
ProbeResultHolds(s, p, c) ==
    LET r == s.repair
        top == Min({r.head, r.from})
    IN IF c >= p /\ p = top
       THEN IF r.head <= r.from /\ OwnAt(s, p) # {} THEN SendRepair(s, p) ELSE ProbeDone(s, -1)
       ELSE Search(s, Max({r.lo, c}), IF c >= p THEN r.hi ELSE Min({p, r.hi}))

\* probe_result: c is the highest position where both chains agree, of the two compared.
ProbeResult(s, p, c) ==
    LET r == s.repair
        top == Min({r.head, r.from})
    IN IF c >= p /\ p = top
       THEN IF r.head <= r.from
            THEN IF OwnAt(s, p) = {} THEN ProbeDone(s, -1) ELSE SendRepair(s, p)
            ELSE RequestRead([s EXCEPT !.repair = NoRepair, !.known = Max({@, r.head})])
       ELSE Search(s, Max({r.lo, c}), IF c >= p THEN r.hi ELSE Min({p, r.hi}))

\* on_repair_probe: the service's head, its item above p - 1 and what that links from,
\* against this replica's own chain there.
OnProbe(s, c) ==
    LET svc   == c.ans.log
        after == Max({c.p - 1, 0})
        agree == {q \in {after, after + 1} :
                     q <= Len(svc) /\ Prefix(svc, q) \in OwnAt(s, q)}
    IN IF ~c.cur \/ ~Repairing(s) THEN s
       ELSE IF c.ans.t # "log" THEN [s EXCEPT !.repair.busy = FALSE]
       ELSE IF Len(svc) # s.repair.head THEN RestartProbe(s, Len(svc))
       ELSE IF c.base # s.chain THEN [s EXCEPT !.repair.busy = FALSE]
       ELSE ProbeResult(s, c.p, Max(agree \cup {-1}))

\* on_repair_append.
OnRepairAppend(s, c) ==
    IF ~c.cur \/ s.repair.phase # "repairing" THEN s
    ELSE LET last == s.repair.at + s.repair.n IN
         CASE c.ans.t = "ok" ->
                IF c.ans.log \in OwnAt(s, last)
                THEN SendRepair([s EXCEPT !.repair.head = last, !.repair.busy = FALSE], last)
                ELSE RestartProbe(s, Min({last, Head_(s)}))
           [] c.ans.t = "moved" -> RestartProbe(s, Len(c.ans.log))
           [] OTHER -> [s EXCEPT !.repair.busy = FALSE, !.repair.wait = TRUE]

\* repair_step.
RepairStep(s) ==
    LET r == s.repair IN
    CASE r.phase = "probing" /\ ~r.busy -> Search(s, r.lo, r.hi)
      [] r.phase = "repairing" /\ ~r.busy /\ ~r.wait -> SendRepair(s, r.at)
      [] r.phase = "rolling" -> RollbackProgress(s)
      [] OTHER -> s

-----------------------------------------------------------------------------
(***************************************************************************)
(* The loop and the apply path.                                            *)
(***************************************************************************)
Pump(s) ==
    CASE Repairing(s) -> RepairStep(s)
      [] ~Repairing(s) /\ s.known > Head_(s) -> RequestRead(s)
      [] /\ ~Repairing(s) /\ s.known <= Head_(s)
         /\ s.caught_up /\ ~s.reading /\ s.append.st = "idle" -> SendBatch(s)
      [] OTHER -> s

\* prune_retained: below this position nothing is retained once position p is.
RetainedFloor(rows, p) ==
    IF Cardinality(rows) > MinTail + 1 THEN p - MinTail + 1 ELSE 0

\* One item applied, in one transaction: the head, the retained tail and its pruning, and
\* the receipt, pending row and own row of a write captured here.
ApplyOne(s, a) ==
    LET chain == Append(s.chain, a)
        p     == Len(chain)
        mine  == IF a[1] = s.me /\ a[2] \in s.pending THEN {a[2]} ELSE {}
        rows  == {c \in s.tail : Len(c) # p} \cup {chain}
        floor == RetainedFloor(rows, p)
    IN [s EXCEPT
           !.chain = chain,
           !.tail = {c \in rows : Len(c) >= floor},
           !.own = {o \in @ \cup {<<p, i>> : i \in mine} : o[1] >= floor},
           !.pending = @ \ mine,
           !.resurrected = @ \ mine,
           !.res = [i \in DOMAIN @ |-> IF i \in mine THEN "confirmed" ELSE @[i]]]

\* One after the other.
Applied(s, items) ==
    LET f[n \in 0..Len(items)] == IF n = 0 THEN s ELSE ApplyOne(f[n-1], items[n])
    IN f[Len(items)]

\* apply_items: positions a..b of the chain c.
ApplyItems(s, c, a, b) ==
    LET h == Head_(s)
        done == Applied(s, SubSeq(c, h + 1, b))
    IN IF b < a \/ b <= h THEN s
       ELSE IF a > h + 1 THEN [s EXCEPT !.known = Max({@, a}), !.caught_up = FALSE]
       ELSE IF ~IsPrefix(s.chain, c) THEN OnLostTail(s, Max({s.known, h + 1}), FALSE)
       ELSE [done EXCEPT !.known = Max({@, b})]

\* on_append_reply, and on_stale_append_reply for a call that no longer carries the batch.
OnAppend(s, c) ==
    LET h  == Len(c.ans.log)
        s1 == [s EXCEPT !.known = Max({@, h})]
        streak == s.streak + 1
        moved == [GiveUp(s1, IF streak >= BackoffAfter THEN "wait" ELSE "idle") EXCEPT
                     !.streak = streak, !.caught_up = FALSE]
    IN CASE c.ans.t \in {"ok", "moved"} /\ ~c.cur ->
              IF s1.known > Head_(s) THEN RequestRead([s1 EXCEPT !.caught_up = FALSE]) ELSE s1
         [] c.ans.t = "ok" /\ c.cur ->
              ApplyItems([s1 EXCEPT !.append = NoBatch, !.streak = 0], c.ans.log,
                         Len(c.base) + 1, h)
         [] c.ans.t = "moved" /\ c.cur ->
              IF h < Head_(s) THEN OnLostTail(moved, h, TRUE) ELSE RequestRead(moved)
         [] c.ans.t \notin {"ok", "moved"} /\ c.cur -> [s EXCEPT !.append.st = "retry"]
         [] OTHER -> s

\* on_read_reply.
OnRead(s0, c) ==
    LET s  == [s0 EXCEPT !.reading = FALSE]
        h  == Len(c.ans.log)
        s1 == [s EXCEPT !.known = Max({@, h})]
        s2 == ApplyItems(s1, c.ans.log, Len(c.base) + 1, c.ans.upto)
        s3 == IF s2.repair.phase = "rolling" THEN RepairStep(s2) ELSE s2
        more == c.ans.upto < h
        s4 == IF ~more /\ Head_(s3) >= h
              THEN [s3 EXCEPT !.known = Max({h, Head_(s3)})] ELSE s3
    IN IF c.ans.t # "log" THEN s
       ELSE IF h < Head_(s) THEN OnLostTail(s1, h, TRUE)
       ELSE IF more \/ Head_(s4) < h THEN RequestRead(s4)
       ELSE IF Head_(s4) > h THEN s4
       ELSE IF s4.chain # c.ans.log THEN OnLostTail(s4, h, FALSE)
       ELSE [s4 EXCEPT !.caught_up = TRUE]

\* Mutant: any other head than the applied one is a lost tail.
OnSubscribedElsewhere(s, c) ==
    LET h  == Len(c.ans.log)
        s1 == [s EXCEPT !.known = Max({@, h})]
    IN IF c.ans.t # "log" THEN Pump(s)
       ELSE IF c.ans.log # s.chain THEN OnLostTail(s1, h, FALSE)
       ELSE Pump([s1 EXCEPT !.caught_up = TRUE])

\* A `subscribed` answer.  Another history of the same length returns without a pump.
OnSubscribed(s, c) ==
    LET h  == Len(c.ans.log)
        s1 == [s EXCEPT !.known = Max({@, h})]
    IN IF c.ans.t # "log" THEN Pump(s)
       ELSE IF h = Head_(s) /\ c.ans.log # s.chain THEN OnLostTail(s1, h, FALSE)
       ELSE IF h = Head_(s) THEN Pump([s1 EXCEPT !.caught_up = TRUE])
       ELSE IF h < Head_(s) THEN Pump(OnLostTail(s1, h, TRUE))
       ELSE Pump(s1)

\* dispatch_log_reply.
OnReply(s, c) ==
    CASE c.k = "subscribe" -> OnSubscribed(s, c)
      [] c.k = "read"      -> Pump(OnRead(s, c))
      [] c.k = "append"    -> Pump(OnAppend(s, c))
      [] c.k = "probe"     -> Pump(OnProbe(s, c))
      [] c.k = "repair"    -> Pump(OnRepairAppend(s, c))

\* Mutant: keeps what an ended session said of the head.
ReconnectedCaughtUp(s) ==
    LET s1 == [s EXCEPT !.up = TRUE]
    IN Pump(IF InFlight(s) THEN SendAppend(s1, s.append.base, s.append.items) ELSE s1)

\* Reconnected: the outstanding batch is resent with the same bytes, never re-planned.
Reconnected(s) ==
    LET s1 == HeadFetch([s EXCEPT !.up = TRUE, !.caught_up = FALSE])
    IN Pump(IF InFlight(s) THEN SendAppend(s1, s.append.base, s.append.items) ELSE s1)

\* The oldest call ends with NoResponse.
NoResponse(s) ==
    OnReply([s EXCEPT !.calls = Tail(@)], [Head(s.calls) EXCEPT !.ans.t = "none"])

\* retire: Disconnected, then NoResponse to every call of the session, in order.
Retired(s) ==
    LET f[n \in 0..Len(s.calls)] ==
            IF n = 0 THEN Pump([s EXCEPT !.up = FALSE]) ELSE NoResponse(f[n-1])
    IN f[Len(s.calls)]

-----------------------------------------------------------------------------
(***************************************************************************)
(* Steps of a replica.                                                     *)
(***************************************************************************)
\* open_inner on an empty store: everything volatile at its default, one head fetch queued.
Opened(s) ==
    HeadFetch([s EXCEPT
        !.up = FALSE, !.known = Head_(s), !.reading = FALSE, !.caught_up = FALSE,
        !.append = NoBatch, !.streak = 0, !.repair = NoRepair, !.calls = << >>])

NewReplica(r) ==
    Opened([me |-> r, chain |-> << >>, pending |-> {}, res |-> [i \in WritesOf(r) |-> "none"],
            own |-> {}, resurrected |-> {}, tail |-> {}, salt |-> 0,
            up |-> FALSE, known |-> 0, reading |-> FALSE, caught_up |-> FALSE,
            append |-> NoBatch, streak |-> 0, repair |-> NoRepair, calls |-> << >>])

Faults == count.loss + count.cut + count.crash + count.busy

Init ==
    /\ log = << >>
    /\ subs = {}
    /\ out = [r \in Replicas |-> << >>]
    /\ late = {}
    /\ lost = {}
    /\ count = [loss |-> 0, cut |-> 0, crash |-> 0, busy |-> 0]
    /\ rep = [r \in Replicas |-> NewReplica(r)]

\* submit_one plans the write on the local view, and commits its pending row; submit_ops
\* ends with a pump.
Submit(r, i) ==
    LET s == rep[r] IN
    /\ \A j \in WritesOf(r) : j >= i => j \notin s.pending /\ s.res[j] = "none"
    /\ ~Rejected(s, s.chain, i)
    /\ rep' = [rep EXCEPT ![r] = Pump([s EXCEPT !.pending = @ \cup {i}])]
    /\ UNCHANGED <<log, subs, out, late, lost, count>>

\* The reply to the oldest call.
Deliver(r) ==
    LET s == rep[r] IN
    /\ out[r] # << >>
    /\ Head(out[r]) = Reply
    /\ out' = [out EXCEPT ![r] = Tail(@)]
    /\ rep' = [rep EXCEPT ![r] = OnReply([s EXCEPT !.calls = Tail(@)], Head(s.calls))]
    /\ UNCHANGED <<log, subs, late, lost, count>>

\* A push, as items or (coalesced, or too large for the session) as a head.
Push(r, inline) ==
    LET s  == rep[r]
        m  == Head(out[r])
        h  == Len(m.log)
        s1 == [s EXCEPT !.known = Max({@, h})]
    IN /\ out[r] # << >>
       /\ m # Reply
       /\ out' = [out EXCEPT ![r] = Tail(@)]
       /\ rep' = [rep EXCEPT ![r] =
              Pump(IF inline /\ m.from = Head_(s) + 1 /\ ~s.reading
                   THEN ApplyItems(s1, m.log, m.from, h) ELSE s1)]
       /\ UNCHANGED <<log, subs, late, lost, count>>

\* tick, with its timers due: the batch's retry, the backoff and the repair's retry.
Tick(r) ==
    LET s  == rep[r]
        s1 == CASE s.append.st = "retry" /\ ~Repairing(s) ->
                     SendAppend(s, s.append.base, s.append.items)
                [] s.append.st = "wait" -> [s EXCEPT !.append = NoBatch]
                [] OTHER -> s
    IN /\ rep' = [rep EXCEPT ![r] = Pump([s1 EXCEPT !.repair.wait = FALSE])]
       /\ UNCHANGED <<log, subs, out, late, lost, count>>

\* A session is bound.
Connect(r) ==
    /\ ~rep[r].up
    /\ rep' = [rep EXCEPT ![r] = Reconnected(@)]
    /\ UNCHANGED <<log, subs, out, late, lost, count>>

\* What a session that ends leaves with the service: its unanswered appends.
Left(r) ==
    IF rep[r].up
    THEN {[base |-> c.base, items |-> c.items] :
             c \in {c \in Range(rep[r].calls) : c.ans.t = "wait" /\ c.k \in {"append", "repair"}}}
    ELSE {}

\* Mutant: hands the frames of the ended session to the next one.
EndSessionKeepsFrames(r, s) ==
    /\ rep' = [rep EXCEPT ![r] = s]
    /\ late' = late \cup Left(r)
    /\ subs' = subs \ {r}
    /\ UNCHANGED <<log, lost, out>>

\* retire drops what the session had on its way; the connection's close() its subscription.
EndSession(r, s) ==
    /\ rep' = [rep EXCEPT ![r] = s]
    /\ late' = late \cup Left(r)
    /\ subs' = subs \ {r}
    /\ out' = [out EXCEPT ![r] = << >>]
    /\ UNCHANGED <<log, lost>>

\* The session is lost.
Cut(r) ==
    /\ rep[r].up
    /\ count.cut < MaxCuts /\ Faults < MaxFaults
    /\ EndSession(r, Retired(rep[r]))
    /\ count' = [count EXCEPT !.cut = @ + 1]

\* The replica's process ends and opens its store again.
Crash(r) ==
    /\ count.crash < MaxCrashes /\ Faults < MaxFaults
    /\ EndSession(r, Opened([rep[r] EXCEPT !.salt = @ + 1]))
    /\ count' = [count EXCEPT !.crash = @ + 1]

-----------------------------------------------------------------------------
(***************************************************************************)
(* The log service, as its clients see it.                                 *)
(***************************************************************************)
\* The push of a commit.  The committer's own comes before its reply.
Pushed(items) == [log |-> log \o items, from |-> Len(log) + 1]

Holds(base, items) == IsPrefix(base \o items, log)

Answered(r) == {j \in DOMAIN rep[r].calls : rep[r].calls[j].ans.t # "wait"}
Replied(r) == {j \in DOMAIN out[r] : out[r][j] = Reply}

\* A session's next call: its handler starts when the reply before it is queued.
NextCall(r) == Cardinality(Answered(r)) + 1

CanServe(r) ==
    /\ rep[r].up
    /\ NextCall(r) <= Len(rep[r].calls)
    /\ Cardinality(Answered(r)) = Cardinality(Replied(r))

\* conn_loop queues the reply once the handler has returned.
SendReply(r) ==
    /\ Cardinality(Answered(r)) > Cardinality(Replied(r))
    /\ out' = [out EXCEPT ![r] = Append(@, Reply)]
    /\ UNCHANGED <<log, subs, late, lost, count, rep>>

Answer(r, t, c, upto) ==
    rep' = [rep EXCEPT ![r].calls[NextCall(r)].ans = [t |-> t, log |-> c, upto |-> upto]]

\* The frames of a handler that commits nothing.
Quiet(r) == out' = IF Parallel THEN out ELSE [out EXCEPT ![r] = Append(@, Reply)]

Subscribe(r) ==
    /\ CanServe(r)
    /\ rep[r].calls[NextCall(r)].k = "subscribe"
    /\ subs' = subs \cup {r}
    /\ Answer(r, "log", log, 0)
    /\ Quiet(r)
    /\ UNCHANGED <<log, late, lost, count>>

\* A page holds at least one item when there is one.
Read(r) ==
    LET c == rep[r].calls[NextCall(r)]
        after == Len(c.base)
    IN /\ CanServe(r)
       /\ c.k \in {"read", "probe"}
       /\ \E upto \in after..Max({after, Len(log)}) :
             /\ upto > after \/ upto >= Len(log)
             /\ c.k = "probe" => upto = Max({after, Len(log)})
             /\ Answer(r, "log", log, upto)
       /\ Quiet(r)
       /\ UNCHANGED <<log, subs, late, lost, count>>

\* The bytes are in the log already, or the head is elsewhere.
Refuse(r) ==
    LET c == rep[r].calls[NextCall(r)] IN
    /\ CanServe(r)
    /\ c.k \in {"append", "repair"}
    /\ c.base # log
    /\ IF Holds(c.base, c.items) THEN Answer(r, "ok", c.base \o c.items, 0)
       ELSE Answer(r, "moved", log, 0)
    /\ Quiet(r)
    /\ UNCHANGED <<log, subs, late, lost, count>>

Accept(r) ==
    LET c == rep[r].calls[NextCall(r)] IN
    /\ CanServe(r)
    /\ c.k \in {"append", "repair"}
    /\ c.base = log
    /\ Answer(r, "ok", c.base \o c.items, 0)
    /\ log' = log \o c.items
    /\ out' = [q \in Replicas |->
                  (IF q \in subs THEN Append(out[q], Pushed(c.items)) ELSE out[q])
                  \o (IF q = r /\ ~Parallel THEN <<Reply>> ELSE << >>)]
    /\ UNCHANGED <<subs, late, lost, count>>

\* unavailable or rate_limited.
Busy(r) ==
    /\ CanServe(r)
    /\ count.busy < MaxBusy /\ Faults < MaxFaults
    /\ Answer(r, "busy", << >>, 0)
    /\ Quiet(r)
    /\ count' = [count EXCEPT !.busy = @ + 1]
    /\ UNCHANGED <<log, subs, late, lost>>

\* An append of an ended session is executed after all.
LateAppend(a) ==
    /\ a \in late
    /\ a.base = log
    /\ log' = log \o a.items
    /\ out' = [r \in Replicas |-> IF r \in subs THEN Append(out[r], Pushed(a.items)) ELSE out[r]]
    /\ late' = late \ {a}
    /\ UNCHANGED <<subs, lost, count, rep>>

\* A failover to a copy that misses the newest items.
LoseTail(n) ==
    /\ count.loss < MaxLosses /\ Faults < MaxFaults
    /\ n < Len(log)
    /\ log' = Prefix(log, n)
    /\ lost' = lost \cup (WritesIn(log) \ WritesIn(log'))
    /\ count' = [count EXCEPT !.loss = @ + 1]
    /\ UNCHANGED <<subs, out, late, rep>>

Next ==
    \/ \E r \in Replicas :
        \/ \E i \in WritesOf(r) : Submit(r, i)
        \/ Deliver(r)
        \/ \E inline \in BOOLEAN : Push(r, inline)
        \/ Tick(r)
        \/ Connect(r)
        \/ Cut(r)
        \/ Crash(r)
        \/ Subscribe(r)
        \/ Read(r)
        \/ Refuse(r)
        \/ Accept(r)
        \/ Busy(r)
        \/ SendReply(r)
    \/ \E a \in late : LateAppend(a)
    \/ \E n \in 0..Len(log) : LoseTail(n)

Spec == Init /\ [][Next]_vars

\* The service answers, replies and pushes arrive, ticks keep coming and a lost session is
\* replaced.  Losing things is nobody's duty, and neither is executing a late append.
Arrive(r) == out[r] # << >> /\ out' = [out EXCEPT ![r] = Tail(@)]
Serve(r) == Subscribe(r) \/ Read(r) \/ Refuse(r) \/ Accept(r) \/ SendReply(r)

FairSpec ==
    /\ Spec
    /\ \A r \in Replicas :
          WF_out(Arrive(r)) /\ WF_vars(Serve(r)) /\ WF_vars(Connect(r)) /\ WF_vars(Tick(r))

-----------------------------------------------------------------------------
(***************************************************************************)
(* Properties.                                                             *)
(***************************************************************************)
\* A write, under a seal its author has used.
IsItem(a) == WriteOf(a) \in Writes /\ a[3] \in 0..rep[a[1]].salt

\* Types; and every reply on its way to a replica has its call, in the order of the calls.
ReplicaTypeOK ==
    /\ \A p \in DOMAIN log : IsItem(log[p])
    /\ subs \subseteq Replicas
    /\ lost \subseteq Writes
    /\ \A r \in Replicas :
        LET s == rep[r] IN
        /\ s.me = r
        /\ s.pending \cup s.resurrected \subseteq WritesOf(r)
        /\ \A i \in WritesOf(r) : s.res[i] \in {"none", "confirmed", "rejected"}
        /\ \A p \in DOMAIN s.chain : IsItem(s.chain[p])
        /\ s.append.st \in {"idle", "flight", "retry", "wait"}
        /\ s.repair.phase \in {"none", "probing", "repairing", "held", "rolling"}
        /\ {s.up, s.reading, s.caught_up} \subseteq BOOLEAN
        /\ Answered(r) = 1..Cardinality(Answered(r))
        /\ Cardinality(Replied(r)) <= Cardinality(Answered(r))

\* A replica takes the service to have lost something only when it has: whatever the order
\* in which replies, pushes, resent batches and late appends arrive, none of them starts a
\* repair (on_lost_tail), and what a replica has applied is a prefix of the log.
NoFalseAlarm ==
    count.loss = 0 =>
        \A r \in Replicas : ~Repairing(rep[r]) /\ IsPrefix(rep[r].chain, log)

\* While the service has lost nothing, no answer that arrives late costs a replica anything:
\* what it has applied is a prefix of the log, and a repair it starts by mistake neither
\* holds it nor rolls it back.  (Where the tail is retained from the stale head on, or the
\* first probe is answered: repair_step does not ask the same probe again.)
NoHarmWithoutLoss ==
    count.loss = 0 =>
        \A r \in Replicas :
            IsPrefix(rep[r].chain, log) /\ rep[r].repair.phase \notin {"held", "rolling"}

\* A write acknowledged as confirmed is in the log, or its author still has it: applied, or
\* pending again.  Whatever the service lost and whoever repaired it, it is never nowhere.
AckedKept ==
    \A r \in Replicas : \A i \in WritesOf(r) :
        rep[r].res[i] = "confirmed" =>
            \/ <<r, i>> \in WritesIn(log) \cup WritesIn(rep[r].chain)
            \/ i \in rep[r].pending

Receipt(w) == IF w[2] \in rep[w[1]].pending THEN "pending" ELSE rep[w[1]].res[w[2]]

CW == INSTANCE ClientWrites WITH
          published <- [p \in DOMAIN log |-> WriteOf(log[p])],
          receipt   <- [w \in Writes |-> Receipt(w)]

\* The replicas and the log implement ClientWrites: every write is published once and in
\* capture order, and no receipt moves except as that specification allows.
ImplementsClientWrites == CW!Spec

\* No captured write stays pending for ever, whatever was lost, cut, restarted or beaten to
\* the head, except at a replica held after a loss it may not roll back from.
Settles ==
    \A r \in Replicas : []<>(rep[r].pending = {} \/ rep[r].repair.phase = "held")

\* The same of a service that answers: every session that ends, every restart and every
\* append executed late is recovered from.
SettlesUnlessBusy ==
    \A r \in Replicas :
        []<>(rep[r].pending = {} \/ rep[r].repair.phase = "held" \/ count.busy > 0)
=============================================================================
