------------------------------ MODULE SharedLog ------------------------------
(***************************************************************************)
(* What one collection's log promises its clients (I1-I4 of the log        *)
(* service's contract): a single hash chain that grows by one whole        *)
(* request at a time, at the place the request was sealed for, and         *)
(* receipts that only ever describe what the chain holds.                  *)
(*                                                                         *)
(* There is no policy, no token, no retention and no transaction here:     *)
(* LogService may refuse whatever it likes, but what it does append and    *)
(* answer is a behaviour of this specification.                            *)
(***************************************************************************)
EXTENDS Integers, Sequences

VARIABLES
    net,    \* the requests clients have sealed
    log,    \* the chain
    acks    \* the receipts answered

vars == <<net, log, acks>>

Last(m) == net[m].first + Len(net[m].items) - 1

EndOfLog == IF log = << >> THEN <<0, 0>> ELSE log[Len(log)].id

Init == net = << >> /\ log = << >> /\ acks = {}

\* Clients seal whatever they like.
Seal ==
    /\ Len(net') = Len(net) + 1
    /\ \A m \in 1..Len(net) : net'[m] = net[m]
    /\ UNCHANGED <<log, acks>>

\* The whole of request m, or nothing of it, right after the item it was sealed after.
Commit(m) ==
    /\ net[m].first = Len(log) + 1
    /\ net[m].prev = EndOfLog
    /\ Len(log') = Last(m)
    /\ \A p \in 1..Len(log) : log'[p] = log[p]
    /\ \A ix \in 1..Len(net[m].items) :
           /\ log'[Len(log) + ix].id = <<m, ix>>
           /\ log'[Len(log) + ix].body = net[m].items[ix]
    /\ acks' = acks \cup {[mid |-> m, last |-> Last(m),
                           head_chain |-> <<m, Len(net[m].items)>>, at |-> log'[Last(m)].at]}
    /\ UNCHANGED net

\* A receipt for a request that is in the log, with the time its last item was appended.
Acknowledge(m) ==
    /\ Last(m) <= Len(log)
    /\ \A ix \in 1..Len(net[m].items) : log[net[m].first + ix - 1].id = <<m, ix>>
    /\ acks' = acks \cup {[mid |-> m, last |-> Last(m),
                           head_chain |-> <<m, Len(net[m].items)>>, at |-> log[Last(m)].at]}
    /\ UNCHANGED <<net, log>>

Next == Seal \/ \E m \in 1..Len(net) : Commit(m) \/ Acknowledge(m)

Spec == Init /\ [][Next]_vars
=============================================================================
