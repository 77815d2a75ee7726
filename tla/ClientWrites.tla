---------------------------- MODULE ClientWrites ----------------------------
(***************************************************************************)
(* What the replicas of a collection and its log promise the clients that  *)
(* write through them, without batches, sessions, retries or repairs: a    *)
(* captured write is published at most once at a time, in the order its    *)
(* author captured it, and its receipt says what became of it.  The        *)
(* service may lose the end of what was published; only then may a write   *)
(* be published after it was settled, or a settled write be pending again. *)
(***************************************************************************)
EXTENDS Integers, Sequences, SequencesExt

CONSTANT Writes   \* <<author, capture order>>

VARIABLES
    published,   \* the writes in the log, in its order
    lost,        \* the writes the log lost, ever
    receipt      \* what each write's author is told

vars == <<published, lost, receipt>>

Init ==
    /\ published = << >>
    /\ lost = {}
    /\ receipt = [w \in Writes |-> "none"]

\* Each write once, and each author's in capture order.
WellOrdered(s) ==
    \A p, q \in DOMAIN s : p < q /\ s[p][1] = s[q][1] => s[p][2] < s[q][2]

\* Some writes are published together.
Publish ==
    /\ \E n \in 0..Len(published')-1 : published = SubSeq(published', 1, n)
    /\ WellOrdered(published')
    /\ \A p \in Len(published)+1..Len(published') :
           receipt[published'[p]] = "pending" \/ lost # {}
    /\ UNCHANGED <<lost, receipt>>

\* The log loses its end.
Lose ==
    /\ \E n \in 0..Len(published)-1 : published' = SubSeq(published, 1, n)
    /\ lost' = lost \cup (Range(published) \ Range(published'))
    /\ UNCHANGED receipt

\* What may become of the receipt of write w.
Moves(w, a, b) ==
    \/ a = b
    \/ a = "none" /\ b = "pending"
    \/ a = "pending" /\ b = "confirmed" /\ w \in Range(published) \cup lost
    \/ a = "pending" /\ b = "rejected" /\ (w \notin Range(published) \/ lost # {})
    \/ a = "confirmed" /\ b = "pending" /\ w \in lost

\* One author's receipts move.
Settle(r) ==
    /\ DOMAIN receipt' = Writes
    /\ \A w \in Writes : Moves(w, receipt[w], receipt'[w]) /\ (w[1] # r => receipt'[w] = receipt[w])
    /\ UNCHANGED <<published, lost>>

Next == Publish \/ Lose \/ \E w \in Writes : Settle(w[1])

Spec == Init /\ [][Next]_vars
=============================================================================
