------------------------------- MODULE LogPush -------------------------------
(***************************************************************************)
(* Subscriptions and pushes of one collection: subscribe (session.rs), the *)
(* hub's subscriber table (hub.rs), each connection's bounded outbound     *)
(* queue (outbox.rs) and the gateway that carries a commit to them         *)
(* (log-server/src/lib.rs: committed, with_hub, deliver, conn_loop).       *)
(*                                                                         *)
(* A request commits first and notifies the hub afterwards, from its own   *)
(* task: between the two, and between the hub's lock and the outboxes',    *)
(* anything may happen.  An ordered host runs one task at a time from      *)
(* commit to delivery (the Durable Object); the connection tasks of the    *)
(* native gateway run in parallel.                                         *)
(*                                                                         *)
(* A frame has a size instead of bytes.  Ephemeral streams have a budget   *)
(* of their own and are not modelled.                                      *)
(***************************************************************************)
EXTENDS Integers, Sequences, FiniteSets, SequencesExt

CONSTANTS
    Sessions,     \* connections
    Devices,
    DeviceOf,     \* the device a connection authenticated as
    Inline,       \* sessions whose inline_bytes admit the items of a commit
    QueueBytes,   \* PUSH_QUEUE_BYTES
    ItemsSize,    \* the size of an items frame; the other frames have size 1
    Hosts,        \* whether the host is ordered: the values to check
    MaxHead       \* bound: commits

ASSUME PushAssumption ==
    /\ DeviceOf \in [Sessions -> Devices]
    /\ Inline \subseteq Sessions
    /\ {QueueBytes, ItemsSize, MaxHead} \subseteq Nat
    /\ Hosts \subseteq BOOLEAN

VARIABLES
    ordered,    \* the host
    head,       \* the committed head
    revoked,    \* devices the committed policy has revoked
    gone,       \* the collection was deleted
    notices,    \* commits whose notice has not reached the hub
    subs,       \* Hub.subs
    batches,    \* pushes computed by the hub and not yet in the outboxes
    handler,    \* each connection's subscribe request in progress
    outbox,     \* each connection's queue
    view,       \* what the client believes of its subscription
    known       \* the latest head the client was told of

vars == <<ordered, head, revoked, gone, notices, subs, batches, handler, outbox, view, known>>

log == <<ordered, head, revoked, gone>>
client == <<view, known>>

Allowed(s) == ~gone /\ DeviceOf[s] \notin revoked

NoRequest == [pc |-> "none", head |-> 0]

Init ==
    /\ ordered \in Hosts
    /\ head = 1
    /\ revoked = {}
    /\ gone = FALSE
    /\ notices = << >>
    /\ subs = {}
    /\ batches = << >>
    /\ handler = [s \in Sessions |-> NoRequest]
    /\ outbox = [s \in Sessions |-> << >>]
    /\ view = [s \in Sessions |-> "off"]
    /\ known = [s \in Sessions |-> 0]

-----------------------------------------------------------------------------
(***************************************************************************)
(* Commits.                                                                *)
(***************************************************************************)
Notice(h, R, g) == [head |-> h, revoked |-> R, gone |-> g]

\* An append; R is what its policy items revoke.
Commit(R) ==
    /\ ~gone
    /\ head < MaxHead
    /\ head' = head + 1
    /\ revoked' = revoked \cup R
    /\ notices' = Append(notices, Notice(head + 1, R, FALSE))
    /\ UNCHANGED <<ordered, gone, subs, batches, handler, outbox, client>>

\* delete_log.
Delete ==
    /\ ~gone
    /\ gone' = TRUE
    /\ notices' = Append(notices, Notice(0, {}, TRUE))
    /\ UNCHANGED <<ordered, head, revoked, subs, batches, handler, outbox, client>>

\* The sessions a notice closes.
ClosedBy(n) == {s \in subs : n.gone \/ DeviceOf[s] \in n.revoked}

Frame(kind, h) == [kind |-> kind, head |-> h]

\* The pushes of a notice, by session: at most one frame each.
PushesOf(n) ==
    [s \in subs |->
        IF s \in ClosedBy(n) THEN Frame("closed", 0)
        ELSE Frame(IF s \in Inline THEN "items" ELSE "head", n.head)]

\* Mutant: a notice waits for the next one.
NotifyInPairs ==
    \E i \in 1..Len(notices) :
        LET n == notices[i] IN
        /\ Len(notices) > 1
        /\ ordered => i = 1 /\ batches = << >>
        /\ notices' = RemoveAt(notices, i)
        /\ subs' = subs \ ClosedBy(n)
        /\ batches' = Append(batches, PushesOf(n))
        /\ UNCHANGED <<log, handler, outbox, client>>

\* on_commit, under the hub's lock.
Notify ==
    \E i \in 1..Len(notices) :
        LET n == notices[i] IN
        /\ ordered => i = 1 /\ batches = << >>
        /\ notices' = RemoveAt(notices, i)
        /\ subs' = subs \ ClosedBy(n)
        /\ batches' = Append(batches, PushesOf(n))
        /\ UNCHANGED <<log, handler, outbox, client>>

-----------------------------------------------------------------------------
(***************************************************************************)
(* The outbox.                                                             *)
(***************************************************************************)
SizeOf(f) == CASE f.kind = "items" -> ItemsSize
               [] f.kind = "response" -> 0
               [] OTHER -> 1

LogBytes(q) == FoldLeft(LAMBDA n, f : n + SizeOf(f), 0, q)

\* Mutant: drops `closed` frames with the others.
SurvivesNothing(f) == f.kind = "response"

\* What coalescing leaves in the queue.
Survives(f) == f.kind \in {"response", "closed"}

Surviving(q) == {i \in 1..Len(q) : Survives(q[i])}

\* The surviving frames in their order: the k-th has k survivors up to its place.
Retain(q) ==
    LET Rank(i) == Cardinality({j \in Surviving(q) : j <= i})
    IN [k \in 1..Cardinality(Surviving(q)) |-> q[CHOOSE i \in Surviving(q) : Rank(i) = k]]

\* Mutant: keeps the frames that are queued, and drops the new one.
KeepOldest(q, f) == IF LogBytes(q) + SizeOf(f) > QueueBytes THEN q ELSE Append(q, f)

\* Outbox::push: on overflow the queued heads and items are dropped, and the new frame
\* stays, as its head.
Enqueue(q, f) ==
    IF LogBytes(q) + SizeOf(f) > QueueBytes
    THEN Append(Retain(q),
                IF f.kind = "items" THEN Frame("head", f.head) ELSE f)
    ELSE Append(q, f)

\* Mutant: a batch waits until its sessions are subscribed.
DeliverSubscribed ==
    \E i \in 1..Len(batches) :
        /\ DOMAIN batches[i] \subseteq subs
        /\ outbox' = [s \in Sessions |->
                         IF s \in DOMAIN batches[i] THEN Enqueue(outbox[s], batches[i][s])
                         ELSE outbox[s]]
        /\ batches' = RemoveAt(batches, i)
        /\ UNCHANGED <<log, notices, subs, handler, client>>

\* deliver: the outboxes of the connections that are still there.
Deliver ==
    \E i \in 1..Len(batches) :
        /\ outbox' = [s \in Sessions |->
                         IF s \in DOMAIN batches[i] THEN Enqueue(outbox[s], batches[i][s])
                         ELSE outbox[s]]
        /\ batches' = RemoveAt(batches, i)
        /\ UNCHANGED <<log, notices, subs, handler, client>>

-----------------------------------------------------------------------------
(***************************************************************************)
(* subscribe: authorize, register, read the head, answer.                  *)
(***************************************************************************)

\* The client asks, and the device is authorized in a read transaction.
Authorize(s) ==
    /\ handler[s] = NoRequest
    /\ view[s] \in {"off", "closed"}
    /\ Allowed(s)
    /\ handler' = [handler EXCEPT ![s].pc = "authorized"]
    /\ view' = [view EXCEPT ![s] = "asked"]
    /\ UNCHANGED <<log, notices, subs, batches, outbox, known>>

Register(s) ==
    /\ handler[s].pc = "authorized"
    /\ subs' = subs \cup {s}
    /\ handler' = [handler EXCEPT ![s].pc = "registered"]
    /\ UNCHANGED <<log, notices, batches, outbox, client>>

\* Mutant: keeps the registration when the head is refused.
ReadHeadKeepsSub(s) ==
    /\ handler[s].pc = "registered"
    /\ handler' = [handler EXCEPT ![s] = IF Allowed(s) THEN [pc |-> "replying", head |-> head]
                                         ELSE [pc |-> "refusing", head |-> 0]]
    /\ UNCHANGED <<log, notices, subs, batches, outbox, client>>

\* head, in its own read transaction, which authorizes again.
ReadHead(s) ==
    /\ handler[s].pc = "registered"
    /\ IF Allowed(s)
       THEN /\ handler' = [handler EXCEPT ![s] = [pc |-> "replying", head |-> head]]
            /\ UNCHANGED subs
       ELSE /\ handler' = [handler EXCEPT ![s] = [pc |-> "refusing", head |-> 0]]
            /\ subs' = subs \ {s}
    /\ UNCHANGED <<log, notices, batches, outbox, client>>

\* The response, or the error, is queued by the connection's task.
Reply(s) ==
    /\ handler[s].pc \in {"replying", "refusing"}
    /\ outbox' = [outbox EXCEPT ![s] = Append(@, Frame("response", handler[s].head))]
    /\ handler' = [handler EXCEPT ![s] = NoRequest]
    /\ UNCHANGED <<log, notices, subs, batches, client>>

\* unsubscribe; the client forgets the collection once it has asked.
Unsubscribe(s) ==
    /\ handler[s] = NoRequest
    /\ view[s] = "on"
    /\ subs' = subs \ {s}
    /\ view' = [view EXCEPT ![s] = "off"]
    /\ UNCHANGED <<log, notices, batches, handler, outbox, known>>

\* The connection closes and the client connects again: close() runs after the request
\* in progress, and the queue goes with the connection.
Disconnect(s) ==
    /\ handler[s] = NoRequest
    /\ subs' = subs \ {s}
    /\ outbox' = [outbox EXCEPT ![s] = << >>]
    /\ batches' = [i \in 1..Len(batches) |->
                      [t \in DOMAIN batches[i] \ {s} |-> batches[i][t]]]
    /\ view' = [view EXCEPT ![s] = "off"]
    /\ known' = [known EXCEPT ![s] = 0]
    /\ UNCHANGED <<log, notices, handler>>

\* The writer task sends the next frame.  A client takes every head it sees as a lower
\* bound; a `closed` ends its subscription, also one it has no answer for yet.
Receive(s) ==
    LET f == Head(outbox[s]) IN
    /\ outbox[s] # << >>
    /\ outbox' = [outbox EXCEPT ![s] = Tail(@)]
    /\ known' = [known EXCEPT ![s] = IF f.head > @ THEN f.head ELSE @]
    /\ view' = [view EXCEPT ![s] =
                   CASE f.kind = "closed" /\ @ # "off" -> "closed"
                     [] f.kind = "response" /\ @ = "asked" -> IF f.head = 0 THEN "off" ELSE "on"
                     [] OTHER -> @]
    /\ UNCHANGED <<log, notices, subs, batches, handler>>

-----------------------------------------------------------------------------
Next ==
    \/ \E R \in {{}} \cup {{d} : d \in Devices} : Commit(R)
    \/ Delete
    \/ Notify
    \/ Deliver
    \/ \E s \in Sessions :
           \/ Authorize(s)
           \/ Register(s)
           \/ ReadHead(s)
           \/ Reply(s)
           \/ Unsubscribe(s)
           \/ Disconnect(s)
           \/ Receive(s)

\* The tasks of the gateway run: a committed request notifies and delivers, a subscribe
\* request is carried to its answer, and a connection's writer sends what is queued.
\* Nothing makes clients commit, subscribe, unsubscribe or disconnect.
Fairness ==
    /\ WF_vars(Notify)
    /\ WF_vars(Deliver)
    /\ \A s \in Sessions : WF_vars(Register(s) \/ ReadHead(s) \/ Reply(s)) /\ WF_vars(Receive(s))

Spec == Init /\ [][Next]_vars /\ Fairness
-----------------------------------------------------------------------------
\* The frames queued, or about to be queued, for a session.
FramesFor(s) ==
    Range(outbox[s])
        \cup {batches[i][s] : i \in {j \in 1..Len(batches) : s \in DOMAIN batches[j]}}

\* No head is lost on its way to a subscriber (subscribe: "either in the head read or
\* pushed, never neither"; outbox.rs: coalescing keeps the latest head), on an ordered
\* host: a registered session whose answer is on its way or received has been told of the latest head, or
\* the answer, a queued frame, or a notice still to come will tell it.
LatestHeadOnItsWay ==
    ordered => \A s \in subs :
        handler[s].pc \in {"none", "replying"} /\ view[s] # "closed" =>
            \/ known[s] = head
            \/ handler[s].head = head
            \/ \E f \in FramesFor(s) : f.head = head
            \/ \E i \in 1..Len(notices) : notices[i].head = head

\* A device that was revoked, or whose collection was deleted, is not left subscribed
\* (close_devices, close_gone, subscribe's second authorization): if it still is, the
\* notice that closes it is on its way or its subscribe request is about to fail.
RevokedIsClosed ==
    \A s \in subs :
        ~Allowed(s) =>
            \/ handler[s].pc = "registered"
            \/ \E i \in 1..Len(notices) :
                   notices[i].gone \/ DeviceOf[s] \in notices[i].revoked

\* A client that believes it is subscribed is, or is about to be told: no push class
\* and no overflow drops a `closed` frame.
BelieversAreServed ==
    \A s \in Sessions :
        view[s] = "on" => s \in subs \/ \E f \in FramesFor(s) : f.kind = "closed"

\* Every commit becomes known to every client that stays subscribed to an ordered host.
SubscribersCatchUp ==
    \A s \in Sessions, h \in 1..MaxHead :
        (ordered /\ view[s] = "on" /\ head >= h) ~> (known[s] >= h \/ view[s] # "on")

\* A client whose device is revoked, or whose collection is deleted, stops believing it
\* is subscribed.
RevokedLearns == \A s \in Sessions : (~Allowed(s)) ~> (view[s] # "on")
=============================================================================
