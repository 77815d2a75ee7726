---------------------------- MODULE ReplicaProofs ----------------------------
(***************************************************************************)
(* Proofs about Replica.  Every handler of a replica is an operator from   *)
(* its record to its record, so the argument has two levels: what each     *)
(* operator preserves, for any set of chains the replica may have heard    *)
(* of; and the state invariant, in which that set is what the log has been.*)
(***************************************************************************)
EXTENDS Replica, FiniteSetTheorems, SequenceTheorems, TLAPS

-----------------------------------------------------------------------------
(***************************************************************************)
(* Numbers, and iteration.                                                 *)
(***************************************************************************)
LEMMA LeastNat ==
    ASSUME NEW T, T \subseteq Nat, T # {}
    PROVE  \E x \in T : \A y \in T : x <= y
<1>1. \E x \in T : \A y \in T : ~(<<y, x>> \in OpToRel(<, Nat))
    BY NatLessThanWellFounded, WFMin
<1>2. PICK x \in T : \A y \in T : ~(<<y, x>> \in OpToRel(<, Nat))
    BY <1>1
<1>3. ASSUME NEW y \in T PROVE x <= y
    <2>1. ~(y < x)
        BY <1>2 DEF OpToRel
    <2> QED
        BY <2>1
<1> QED
    BY <1>3

LEMMA MaxPair ==
    ASSUME NEW a \in Int, NEW b \in Int
    PROVE  Max({a, b}) \in {a, b} /\ Max({a, b}) >= a /\ Max({a, b}) >= b
<1>1. \E x \in {a, b} : \A y \in {a, b} : x >= y
    <2>1. CASE a >= b
        BY <2>1
    <2>2. CASE ~(a >= b)
        BY <2>2
    <2> QED
        BY <2>1, <2>2
<1> QED
    BY <1>1 DEF Max

LEMMA MinPair ==
    ASSUME NEW a \in Int, NEW b \in Int
    PROVE  Min({a, b}) \in {a, b} /\ Min({a, b}) <= a /\ Min({a, b}) <= b
<1>1. \E x \in {a, b} : \A y \in {a, b} : x <= y
    <2>1. CASE a <= b
        BY <2>1
    <2>2. CASE ~(a <= b)
        BY <2>2
    <2> QED
        BY <2>1, <2>2
<1> QED
    BY <1>1 DEF Min

LEMMA NatPair ==
    ASSUME NEW a \in Nat, NEW b \in Nat
    PROVE  Max({a, b}) \in Nat /\ Min({a, b}) \in Nat
<1>1. Max({a, b}) \in {a, b} /\ Min({a, b}) \in {a, b}
    BY MaxPair, MinPair
<1> QED
    BY <1>1

\* A property that passes from n - 1 to n holds up to k.
LEMMA Climb ==
    ASSUME NEW k \in Nat, NEW P \in SUBSET (0..k),
           0 \in P,
           \A n \in 1..k : n - 1 \in P => n \in P
    PROVE  P = 0..k
<1> SUFFICES ASSUME P # 0..k PROVE FALSE
    OBVIOUS
<1> DEFINE T == {n \in 0..k : n \notin P}
<1>1. T \subseteq Nat /\ T # {}
    <2>1. \E n \in 0..k : n \notin P
        OBVIOUS
    <2> QED
        BY <2>1
<1>2. PICK m \in T : \A n \in T : m <= n
    BY <1>1, LeastNat
<1>3. m \in 1..k /\ m - 1 \notin T
    BY <1>2
<1>4. m - 1 \in P
    BY <1>3
<1> QED
    BY <1>2, <1>3, <1>4

\* f iterates g from x.
Iterates(f, k, x, g) == f[0] = x /\ \A n \in 1..k : f[n] = g[n][f[n-1]]

LEMMA IterationExists ==
    ASSUME NEW k \in Nat, NEW U, NEW S \in [0..k -> SUBSET U], NEW x \in S[0],
           NEW g, \A n \in 1..k : g[n] \in [S[n-1] -> S[n]]
    PROVE  \E f \in [0..k -> U] : Iterates(f, k, x, g) /\ \A n \in 0..k : f[n] \in S[n]
<1> DEFINE Upto(m) == \E f \in [0..m -> U] :
                          Iterates(f, m, x, g) /\ \A n \in 0..m : f[n] \in S[n]
           P == {m \in 0..k : Upto(m)}
<1>1. 0 \in P
    <2> DEFINE f == [n \in 0..0 |-> x]
    <2>1. f \in [0..0 -> U] /\ (\A n \in 0..0 : f[n] \in S[n]) /\ Iterates(f, 0, x, g)
        BY DEF Iterates
    <2> HIDE DEF f
    <2>2. Upto(0)
        BY <2>1
    <2> HIDE DEF Upto
    <2> QED
        BY <2>2
<1>2. ASSUME NEW n \in 1..k, n - 1 \in P PROVE n \in P
    <2>1. PICK f \in [0..n-1 -> U] : Iterates(f, n-1, x, g) /\ \A m \in 0..n-1 : f[m] \in S[m]
        BY <1>2
    <2> DEFINE h == [m \in 0..n |-> IF m = n THEN g[n][f[n-1]] ELSE f[m]]
    <2>2. f[n-1] \in S[n-1] /\ n \in 0..k /\ n - 1 \in 0..k
        BY <2>1
    <2>3. g[n][f[n-1]] \in S[n]
        BY <2>2
    <2>4. \A m \in 0..n : h[m] \in S[m] /\ h[m] \in U
        BY <2>1, <2>3, <2>2
    <2>5. h \in [0..n -> U]
        BY <2>4
    <2>6. Iterates(h, n, x, g)
        BY <2>1 DEF Iterates
    <2> HIDE DEF h
    <2>7. Upto(n)
        BY <2>4, <2>5, <2>6
    <2> HIDE DEF Upto
    <2> QED
        BY <2>7
<1>3. k \in P
    <2> HIDE DEF P
    <2>1. P \in SUBSET (0..k)
        BY DEF P
    <2>2. P = 0..k
        BY <1>1, <1>2, <2>1, Climb
    <2> QED
        BY <2>2
<1> QED
    BY <1>3

\* Every finite set of numbers can be listed in ascending order.
Lists(q, S) == Range(q) = S /\ \A m, n \in DOMAIN q : m < n => q[m] < q[n]

LEMMA AscendingExists ==
    ASSUME NEW S0, S0 \subseteq Nat, IsFiniteSet(S0)
    PROVE  \E q \in [1..Cardinality(S0) -> S0] : Lists(q, S0)
<1> DEFINE Ok(S) == \E q \in [1..Cardinality(S) -> S] : Lists(q, S)
           T == {n \in Nat : \E S \in SUBSET Nat : IsFiniteSet(S) /\ Cardinality(S) = n /\ ~Ok(S)}
<1>1. T = {}
    <2> SUFFICES ASSUME T # {} PROVE FALSE
        OBVIOUS
    <2>1. PICK k \in T : \A n \in T : k <= n
        <3> T \subseteq Nat
            OBVIOUS
        <3> HIDE DEF T
        <3> QED
            BY LeastNat
    <2>2. PICK S \in SUBSET Nat : IsFiniteSet(S) /\ Cardinality(S) = k /\ ~Ok(S)
        BY <2>1
    <2>3. S # {}
        <3> SUFFICES ASSUME S = {} PROVE FALSE
            OBVIOUS
        <3>1. Cardinality(S) = 0
            BY FS_EmptySet
        <3> DEFINE q == [n \in 1..0 |-> 0]
        <3>2. q \in [1..0 -> S] /\ Lists(q, S)
            BY DEF Lists, Range
        <3> HIDE DEF q
        <3> QED
            BY <3>1, <3>2, <2>2
    <2>4. PICK x \in S : \A y \in S : x <= y
        BY <2>3, LeastNat
    <2> DEFINE R == S \ {x}
    <2>5. IsFiniteSet(R) /\ Cardinality(R) = k - 1 /\ k \in Nat /\ k - 1 \in Nat
        <3>1. IsFiniteSet(R) /\ Cardinality(R) = k - 1
            BY <2>2, <2>4, FS_RemoveElement
        <3>2. Cardinality(R) \in Nat
            BY <3>1, FS_CardinalityType
        <3> QED
            BY <3>1, <3>2, <2>1
    <2>6. Ok(R)
        <3> SUFFICES ASSUME ~Ok(R) PROVE FALSE
            OBVIOUS
        <3>1. R \in SUBSET Nat
            OBVIOUS
        <3> HIDE DEF R, Ok
        <3>2. k - 1 \in T
            BY <3>1, <2>5
        <3> QED
            BY <3>2, <2>1, <2>5
    <2>7. PICK p \in [1..(k-1) -> R] : Lists(p, R)
        <3>1. \E p \in [1..Cardinality(R) -> R] : Lists(p, R)
            BY <2>6
        <3> HIDE DEF R
        <3> QED
            BY <3>1, <2>5
    <2> DEFINE q == [n \in 1..k |-> IF n = 1 THEN x ELSE p[n-1]]
    <2>8. q \in [1..k -> S]
        <3>1. \A n \in 1..k : n # 1 => n - 1 \in 1..(k-1)
            BY <2>5
        <3> QED
            BY <3>1, <2>7
    <2>9. \A m, n \in DOMAIN q : m < n => q[m] < q[n]
        <3> SUFFICES ASSUME NEW m \in 1..k, NEW n \in 1..k, m < n PROVE q[m] < q[n]
            OBVIOUS
        <3>1. n - 1 \in 1..(k-1) /\ q[n] = p[n-1]
            BY <2>5
        <3>4. p[n-1] \in R
            BY <3>1, <2>7
        <3>2. CASE m = 1
            <4>1. q[m] = x /\ x \in Nat /\ p[n-1] \in Nat /\ x <= p[n-1] /\ x # p[n-1]
                BY <3>2, <3>4, <2>4
            <4> HIDE DEF q
            <4> QED
                BY <4>1, <3>1
        <3>3. CASE m # 1
            <4>1. m - 1 \in 1..(k-1) /\ q[m] = p[m-1] /\ m - 1 < n - 1
                BY <3>3, <2>5
            <4> QED
                BY <4>1, <3>1, <2>7 DEF Lists
        <3> QED
            BY <3>2, <3>3
    <2>10. Range(q) = S
        <3>1. ASSUME NEW y \in S PROVE \E n \in 1..k : q[n] = y
            <4>1. CASE y = x
                <5>1. 1 \in 1..k /\ q[1] = x
                    BY <2>5
                <5> QED
                    BY <5>1, <4>1
            <4>2. CASE y # x
                <5>1. y \in Range(p)
                    BY <4>2, <2>7 DEF Lists
                <5>2. PICK n \in 1..(k-1) : p[n] = y
                    BY <5>1, <2>7 DEF Range
                <5>3. n + 1 \in 1..k /\ q[n+1] = y
                    BY <5>2, <2>5
                <5> QED
                    BY <5>3
            <4> QED
                BY <4>1, <4>2
        <3> HIDE DEF q
        <3> QED
            BY <3>1, <2>8 DEF Range
    <2> HIDE DEF q
    <2> QED
        BY <2>8, <2>9, <2>10, <2>2 DEF Lists
<1>2. Cardinality(S0) \in Nat
    BY FS_CardinalityType
<1> HIDE DEF Ok
<1>3. Ok(S0)
    BY <1>1, <1>2
<1> QED
    BY <1>3 DEF Ok

LEMMA AscendingLists ==
    ASSUME NEW S, S \subseteq Nat, IsFiniteSet(S)
    PROVE  /\ Ascending(S) \in [1..Cardinality(S) -> S]
           /\ Lists(Ascending(S), S)
           /\ Cardinality(S) \in Nat
<1>1. \E q \in [1..Cardinality(S) -> S] : Lists(q, S)
    BY AscendingExists
<1>2. Cardinality(S) \in Nat
    BY FS_CardinalityType
<1> QED
    BY <1>1, <1>2 DEF Ascending, Lists

-----------------------------------------------------------------------------
(***************************************************************************)
(* A replica, and what its handlers keep.  K is a set of chains.           *)
(***************************************************************************)
Outcomes == {"none", "confirmed", "rejected"}
Kinds == {"subscribe", "read", "append", "probe", "repair"}

ItemT == {a \in Replicas \X Nat \X Nat : WriteOf(a) \in Writes}
ItemsT == Seq(ItemT)

Finite(S) == {P \in SUBSET S : IsFiniteSet(P)}

\* With a chain, its prefixes.
Family(K) ==
    /\ K \subseteq ItemsT
    /\ << >> \in K
    /\ \A c \in K : \A n \in 0..Len(c) : Prefix(c, n) \in K

AnsT(K) == [t : {"wait", "log", "ok", "moved", "busy", "none"}, log : K, upto : Nat]

\* A page ends within the log it was read from, or is empty.
PageOK(c) == c.ans.upto <= Len(c.base) \/ c.ans.upto <= Len(c.ans.log)

CallT(K) == {c \in [k : Kinds, base : K, items : ItemsT, p : Nat, cur : BOOLEAN, ans : AnsT(K)] :
                PageOK(c)}
CallsT(K) == Seq(CallT(K))

BatchT(K) == [st : {"idle", "flight", "retry", "wait"}, base : K, items : ItemsT]

RepairT == [phase : {"none", "probing", "repairing", "held", "rolling"}, from : Nat, head : Nat,
            floor : Int, lo : Int, hi : Int, busy : BOOLEAN, at : Nat, n : Nat,
            wait : BOOLEAN]

RepT(r, K) ==
    [me : {r}, chain : K, pending : Finite(WritesOf(r)), res : [WritesOf(r) -> Outcomes],
     own : Finite(Nat \X WritesOf(r)), resurrected : SUBSET WritesOf(r), tail : SUBSET K,
     salt : Nat, up : BOOLEAN, known : Nat, reading : BOOLEAN, caught_up : BOOLEAN,
     append : BatchT(K), streak : Nat, repair : RepairT, calls : CallsT(K)]

\* The items x, planned by the replica at the head b: its own writes, in capture order, new
\* at that head and not contended there, none captured before them left out.
Planned(s, b, x) ==
    \A n \in DOMAIN x :
        /\ x[n][1] = s.me
        /\ x[n][3] <= s.salt
        /\ ~Rollback =>
            /\ x[n][2] \in s.pending \/ s.res[x[n][2]] # "none"
            /\ \A p \in DOMAIN b : b[p][1] = s.me => b[p][2] < x[n][2]
            /\ \A p \in DOMAIN b : b[p][2] = x[n][2] /\ b[p][1] # s.me => b[p][2] \notin Contended
            /\ \A m \in DOMAIN x : m < n => x[m][2] < x[n][2]
            /\ \A j \in s.pending : j < x[n][2] =>
                  \/ \E p \in DOMAIN b : WriteOf(b[p]) = <<s.me, j>>
                  \/ \E m \in DOMAIN x : m < n /\ x[m][2] = j

\* What an append may offer: bytes that were in the log, or a plan.
Offer(s, K, b, x) == b \o x \in K \/ Planned(s, b, x)

\* Receipts tell the truth of the applied chain.
Truthful(s) ==
    /\ s.resurrected = {}
    /\ \A i \in WritesOf(s.me) :
        /\ s.res[i] = "confirmed" => <<s.me, i>> \in WritesIn(s.chain)
        /\ s.res[i] = "rejected" =>
              i \in Contended /\ \E w \in WritesIn(s.chain) : w[1] # s.me /\ w[2] = i

Fit(s, r, K) ==
    /\ s \in RepT(r, K)
    /\ \A j \in DOMAIN s.calls : Offer(s, K, s.calls[j].base, s.calls[j].items)
    /\ Offer(s, K, s.append.base, s.append.items)
    /\ ~Rollback => Truthful(s)

\* What a handler does to the receipts: a write only leaves the pending ones settled, and a
\* settled one stays as it is.
Settles_(s, t) ==
    /\ t.me = s.me
    /\ s.salt <= t.salt
    /\ ~Rollback =>
        /\ t.pending \subseteq s.pending
        /\ \A i \in WritesOf(s.me) :
            /\ i \in s.pending /\ i \notin t.pending => t.res[i] # "none"
            /\ i \notin s.pending => t.res[i] = s.res[i]

\* What it does to the calls: new ones come last, unanswered.
Extends(c, d) ==
    /\ Len(c) <= Len(d)
    /\ \A j \in DOMAIN c : d[j].ans = c[j].ans /\ d[j].k = c[j].k /\ d[j].base = c[j].base
    /\ \A j \in DOMAIN d : j > Len(c) => d[j].ans = Wait

Leads(s, t, r, K) == Fit(t, r, K) /\ Settles_(s, t) /\ Extends(s.calls, t.calls)

LEMMA SettlesTransitive ==
    ASSUME NEW r, NEW K, NEW s \in RepT(r, K), NEW t \in RepT(r, K), NEW u \in RepT(r, K),
           Settles_(s, t), Settles_(t, u)
    PROVE  Settles_(s, u)
<1>1. s.me = r /\ t.me = r /\ u.me = r /\ s.salt \in Nat /\ t.salt \in Nat /\ u.salt \in Nat
    BY DEF RepT
<1> QED
    BY <1>1 DEF Settles_

LEMMA ExtendsTransitive ==
    ASSUME NEW K, NEW c \in CallsT(K), NEW d \in CallsT(K), NEW e \in CallsT(K),
           Extends(c, d), Extends(d, e)
    PROVE  Extends(c, e)
<1> USE DEF CallsT
<1>1. Len(c) \in Nat /\ Len(d) \in Nat /\ Len(e) \in Nat /\ Len(c) <= Len(d) /\ Len(d) <= Len(e)
    BY DEF Extends
<1>2. ASSUME NEW j \in DOMAIN c
      PROVE  e[j].ans = c[j].ans /\ e[j].k = c[j].k /\ e[j].base = c[j].base
    <2>1. j \in DOMAIN d
        BY <1>1
    <2> QED
        BY <2>1 DEF Extends
<1>3. ASSUME NEW j \in DOMAIN e, j > Len(c) PROVE e[j].ans = Wait
    <2>1. CASE j <= Len(d)
        <3>1. j \in DOMAIN d
            BY <2>1, <1>1
        <3> QED
            BY <3>1, <1>3 DEF Extends
    <2>2. CASE j > Len(d)
        BY <2>2 DEF Extends
    <2> QED
        BY <2>1, <2>2, <1>1
<1> QED
    BY <1>1, <1>2, <1>3 DEF Extends

LEMMA LeadsOn ==
    ASSUME NEW r, NEW K, NEW s, NEW t, NEW u,
           Fit(s, r, K), Leads(s, t, r, K), Leads(t, u, r, K)
    PROVE  Leads(s, u, r, K)
<1>1. s \in RepT(r, K) /\ t \in RepT(r, K) /\ u \in RepT(r, K)
    BY DEF Fit, Leads
<1>2. s.calls \in CallsT(K) /\ t.calls \in CallsT(K) /\ u.calls \in CallsT(K)
    BY <1>1 DEF RepT
<1>3. Settles_(s, u)
    BY <1>1, SettlesTransitive DEF Leads
<1>4. Extends(s.calls, u.calls)
    BY <1>2, ExtendsTransitive DEF Leads
<1> QED
    BY <1>3, <1>4 DEF Leads

LEMMA ItemFields ==
    ASSUME NEW a \in ItemT
    PROVE  /\ a[1] \in Replicas /\ a[2] \in Nat /\ a[3] \in Nat
           /\ WriteOf(a) \in Writes /\ a[2] \in WritesOf(a[1])
           /\ a = <<a[1], a[2], a[3]>>
<1>1. a[1] \in Replicas /\ a[2] \in Nat /\ a[3] \in Nat /\ WriteOf(a) \in Writes /\ a = <<a[1], a[2], a[3]>>
    BY DEF ItemT
<1>2. <<a[1], a[2]>> \in {v \in Writes : v[1] = a[1]}
    BY <1>1 DEF WriteOf
<1>3. a[2] \in WritesOf(a[1])
    BY <1>2 DEF WritesOf
<1> QED
    BY <1>1, <1>3

LEMMA PlanKept ==
    ASSUME NEW r, NEW K, NEW s \in RepT(r, K), NEW t \in RepT(r, K), Settles_(s, t),
           NEW b, NEW x \in ItemsT, Planned(s, b, x)
    PROVE  Planned(t, b, x)
<1> SUFFICES ASSUME NEW n \in DOMAIN x
             PROVE  /\ x[n][1] = t.me
                    /\ x[n][3] <= t.salt
                    /\ ~Rollback =>
                        /\ x[n][2] \in t.pending \/ t.res[x[n][2]] # "none"
                        /\ \A p \in DOMAIN b : b[p][1] = t.me => b[p][2] < x[n][2]
                        /\ \A p \in DOMAIN b : b[p][2] = x[n][2] /\ b[p][1] # t.me => b[p][2] \notin Contended
                        /\ \A m \in DOMAIN x : m < n => x[m][2] < x[n][2]
                        /\ \A j \in t.pending : j < x[n][2] =>
                              \/ \E p \in DOMAIN b : WriteOf(b[p]) = <<t.me, j>>
                              \/ \E m \in DOMAIN x : m < n /\ x[m][2] = j
    BY DEF Planned
<1>1. x[n] \in ItemT
    BY DEF ItemsT
<1>2. t.me = s.me /\ s.salt <= t.salt /\ s.salt \in Nat /\ t.salt \in Nat /\ x[n][1] = s.me
    BY DEF Settles_, RepT, Planned
<1>3. x[n][3] \in Nat /\ x[n][2] \in WritesOf(s.me)
    BY <1>1, <1>2, ItemFields
<1>4. x[n][3] <= t.salt
    BY <1>2, <1>3 DEF Planned
<1>5. ASSUME ~Rollback PROVE x[n][2] \in t.pending \/ t.res[x[n][2]] # "none"
    BY <1>3, <1>5 DEF Planned, Settles_
<1>6. ASSUME ~Rollback, NEW j \in t.pending, j < x[n][2]
      PROVE  \/ \E p \in DOMAIN b : WriteOf(b[p]) = <<t.me, j>>
             \/ \E m \in DOMAIN x : m < n /\ x[m][2] = j
    <2>1. j \in s.pending
        BY <1>6 DEF Settles_
    <2> QED
        BY <1>6, <2>1, <1>2 DEF Planned
<1> QED
    BY <1>2, <1>4, <1>5, <1>6 DEF Planned

LEMMA OfferKept ==
    ASSUME NEW r, NEW K, NEW s \in RepT(r, K), NEW t \in RepT(r, K), Settles_(s, t),
           NEW b, NEW x \in ItemsT, Offer(s, K, b, x)
    PROVE  Offer(t, K, b, x)
BY PlanKept DEF Offer

LEMMA CallFields ==
    ASSUME NEW K, NEW cs \in CallsT(K), NEW j \in DOMAIN cs
    PROVE  /\ cs[j] \in CallT(K) /\ cs[j].items \in ItemsT /\ cs[j].base \in K
           /\ cs[j].ans \in AnsT(K) /\ cs[j].k \in Kinds /\ cs[j].p \in Nat
<1>1. cs[j] \in CallT(K)
    BY DEF CallsT
<1> QED
    BY <1>1 DEF CallT

\* Steps that touch neither the receipts nor the calls nor the batch.
LEMMA Tweak ==
    ASSUME NEW r, NEW K, NEW s, NEW t, Fit(s, r, K), t \in RepT(r, K),
           t.chain = s.chain, t.pending = s.pending, t.res = s.res,
           t.resurrected = s.resurrected, t.salt = s.salt, t.calls = s.calls,
           t.append = s.append
    PROVE  Leads(s, t, r, K)
<1>1. s \in RepT(r, K)
    BY DEF Fit
<1>2. t.me = s.me /\ s.salt \in Nat /\ s.calls \in CallsT(K) /\ s.append \in BatchT(K)
    BY <1>1 DEF RepT
<1>3. Settles_(s, t)
    BY <1>2 DEF Settles_
<1>4. Extends(s.calls, t.calls)
    BY <1>2 DEF Extends, CallsT
<1>5. ASSUME NEW j \in DOMAIN t.calls PROVE Offer(t, K, t.calls[j].base, t.calls[j].items)
    <2>1. t.calls[j].items \in ItemsT
        BY <1>2, CallFields
    <2> QED
        BY <1>1, <1>3, <2>1, OfferKept DEF Fit
<1>6. Offer(t, K, t.append.base, t.append.items)
    <2>1. t.append.items \in ItemsT
        BY <1>2 DEF BatchT
    <2> QED
        BY <1>1, <1>3, <2>1, OfferKept DEF Fit
<1>7. ~Rollback => Truthful(t)
    BY <1>2 DEF Fit, Truthful
<1> QED
    BY <1>3, <1>4, <1>5, <1>6, <1>7 DEF Leads, Fit

LEMMA LeadsSelf ==
    ASSUME NEW r, NEW K, NEW s, Fit(s, r, K)
    PROVE  Leads(s, s, r, K)
BY Tweak DEF Fit

LEMMA WaitT ==
    ASSUME NEW K, Family(K)
    PROVE  Wait \in AnsT(K)
BY DEF Family, AnsT, Wait

LEMMA CallTyped ==
    ASSUME NEW K, Family(K), NEW k \in Kinds, NEW b \in K, NEW x \in ItemsT, NEW p \in Nat
    PROVE  /\ Call(k, b, x, p) \in CallT(K)
           /\ Call(k, b, x, p).base = b
           /\ Call(k, b, x, p).items = x
           /\ Call(k, b, x, p).ans = Wait
<1>1. Wait \in AnsT(K)
    BY WaitT
<1>2. Len(b) \in Nat
    BY DEF Family, ItemsT
<1>3. PICK c : c = Call(k, b, x, p)
    OBVIOUS
<1>4. /\ c \in [k : Kinds, base : K, items : ItemsT, p : Nat, cur : BOOLEAN, ans : AnsT(K)]
      /\ c.base = b /\ c.items = x /\ c.ans = Wait
    BY <1>1, <1>3 DEF Call
<1>5. PageOK(c)
    BY <1>2, <1>4 DEF PageOK, Wait
<1> QED
    BY <1>3, <1>4, <1>5 DEF CallT

LEMMA NoItems ==
    ASSUME NEW s, NEW K, NEW b
    PROVE  Offer(s, K, b, << >>) /\ << >> \in ItemsT
BY DEF Offer, Planned, ItemsT

LEMMA QueueLeads ==
    ASSUME NEW r, NEW K, NEW s, Fit(s, r, K), NEW c \in CallT(K), c.ans = Wait,
           Offer(s, K, c.base, c.items)
    PROVE  Leads(s, Queue(s, c), r, K)
<1> DEFINE t == Queue(s, c)
<1>1. s \in RepT(r, K) /\ s.calls \in CallsT(K)
    BY DEF Fit, RepT
<1>2. t.calls = Append(s.calls, c) /\ t.calls \in CallsT(K)
    BY <1>1 DEF Queue, CallsT, RepT
<1>3. t \in RepT(r, K)
    BY <1>1, <1>2 DEF Queue, RepT
<1>4. /\ t.me = s.me /\ t.chain = s.chain /\ t.pending = s.pending /\ t.res = s.res
      /\ t.resurrected = s.resurrected /\ t.salt = s.salt /\ t.append = s.append
    BY <1>1 DEF Queue, RepT
<1>5. s.salt \in Nat /\ s.append \in BatchT(K)
    BY <1>1 DEF RepT
<1> HIDE DEF t
<1>6. Settles_(s, t)
    BY <1>4, <1>5 DEF Settles_
<1>7. Extends(s.calls, t.calls)
    BY <1>1, <1>2 DEF Extends, CallsT
<1>8. ASSUME NEW j \in DOMAIN t.calls PROVE Offer(t, K, t.calls[j].base, t.calls[j].items)
    <2>1. t.calls[j].items \in ItemsT
        BY <1>2, CallFields
    <2>2. CASE j \in DOMAIN s.calls
        <3>1. t.calls[j] = s.calls[j]
            BY <2>2, <1>1, <1>2 DEF CallsT
        <3> QED
            BY <1>1, <1>3, <1>6, <2>1, <2>2, <3>1, OfferKept DEF Fit
    <2>3. CASE j \notin DOMAIN s.calls
        <3>1. t.calls[j] = c
            BY <2>3, <1>1, <1>2 DEF CallsT
        <3> QED
            BY <1>1, <1>3, <1>6, <2>1, <3>1, OfferKept
    <2> QED
        BY <2>2, <2>3
<1>9. Offer(t, K, t.append.base, t.append.items)
    <2>1. t.append.items \in ItemsT
        BY <1>4, <1>5 DEF BatchT
    <2> QED
        BY <1>1, <1>3, <1>4, <1>6, <2>1, OfferKept DEF Fit
<1>10. ~Rollback => Truthful(t)
    BY <1>4 DEF Fit, Truthful
<1>11. Leads(s, t, r, K)
    BY <1>3, <1>6, <1>7, <1>8, <1>9, <1>10 DEF Leads, Fit
<1> QED
    BY <1>11 DEF t

LEMMA StaleFields ==
    ASSUME NEW r, NEW K, NEW s \in RepT(r, K), NEW kinds
    PROVE  LET t == Stale(s, kinds) IN
           /\ t \in RepT(r, K)
           /\ t.me = s.me /\ t.chain = s.chain /\ t.pending = s.pending /\ t.res = s.res
           /\ t.resurrected = s.resurrected /\ t.salt = s.salt /\ t.append = s.append
           /\ t.repair = s.repair /\ t.tail = s.tail /\ t.known = s.known
           /\ DOMAIN t.calls = DOMAIN s.calls
           /\ Len(t.calls) = Len(s.calls)
           /\ \A j \in DOMAIN s.calls : /\ t.calls[j].base = s.calls[j].base
                                        /\ t.calls[j].items = s.calls[j].items
                                        /\ t.calls[j].k = s.calls[j].k
                                        /\ t.calls[j].ans = s.calls[j].ans
<1> DEFINE t == Stale(s, kinds)
           one(c) == IF c.k \in kinds THEN [c EXCEPT !.cur = FALSE] ELSE c
           cs == [j \in DOMAIN s.calls |-> one(s.calls[j])]
<1>1. s.calls \in CallsT(K)
    BY DEF RepT
<1>2. t.calls = cs
    BY DEF Stale, RepT
<1>3. ASSUME NEW c \in CallT(K)
      PROVE  /\ one(c) \in CallT(K) /\ one(c).base = c.base /\ one(c).items = c.items
             /\ one(c).k = c.k /\ one(c).ans = c.ans
    BY DEF CallT, PageOK
<1>4. \A j \in DOMAIN s.calls : s.calls[j] \in CallT(K)
    BY <1>1 DEF CallsT
<1> HIDE DEF one
<1>5. cs \in CallsT(K) /\ DOMAIN cs = DOMAIN s.calls /\ Len(cs) = Len(s.calls)
    <2>1. DOMAIN s.calls = 1..Len(s.calls) /\ Len(s.calls) \in Nat
        BY <1>1 DEF CallsT
    <2>2. cs \in [1..Len(s.calls) -> CallT(K)]
        BY <2>1, <1>3, <1>4
    <2> QED
        BY <2>1, <2>2 DEF CallsT
<1>6. t \in RepT(r, K)
    BY <1>2, <1>5 DEF Stale, RepT
<1>7. /\ t.me = s.me /\ t.chain = s.chain /\ t.pending = s.pending /\ t.res = s.res
      /\ t.resurrected = s.resurrected /\ t.salt = s.salt /\ t.append = s.append
      /\ t.repair = s.repair /\ t.tail = s.tail /\ t.known = s.known
    BY DEF Stale, RepT
<1> HIDE DEF t
<1>8. \A j \in DOMAIN s.calls : t.calls[j] = one(s.calls[j])
    BY <1>2
<1>9. \A j \in DOMAIN s.calls : /\ t.calls[j].base = s.calls[j].base
                                /\ t.calls[j].items = s.calls[j].items
                                /\ t.calls[j].k = s.calls[j].k
                                /\ t.calls[j].ans = s.calls[j].ans
    BY <1>3, <1>4, <1>8
<1> QED
    BY <1>2, <1>5, <1>6, <1>7, <1>9 DEF t

\* Steps that drop the batch, or seal under a new salt, but touch no receipt.
LEMMA Drop ==
    ASSUME NEW r, NEW K, NEW s, NEW t, Fit(s, r, K), t \in RepT(r, K),
           t.chain = s.chain, t.pending = s.pending, t.res = s.res,
           t.resurrected = s.resurrected, s.salt <= t.salt,
           DOMAIN t.calls = DOMAIN s.calls, Len(t.calls) = Len(s.calls),
           \A j \in DOMAIN s.calls : /\ t.calls[j].base = s.calls[j].base
                                     /\ t.calls[j].items = s.calls[j].items
                                     /\ t.calls[j].k = s.calls[j].k
                                     /\ t.calls[j].ans = s.calls[j].ans,
           Offer(s, K, t.append.base, t.append.items)
    PROVE  Leads(s, t, r, K)
<1>1. s \in RepT(r, K)
    BY DEF Fit
<1>2. t.me = s.me /\ s.calls \in CallsT(K) /\ t.calls \in CallsT(K) /\ t.append \in BatchT(K)
    BY <1>1 DEF RepT
<1>3. Settles_(s, t)
    BY <1>2 DEF Settles_
<1>4. Extends(s.calls, t.calls)
    BY <1>2 DEF Extends, CallsT
<1>5. ASSUME NEW j \in DOMAIN t.calls PROVE Offer(t, K, t.calls[j].base, t.calls[j].items)
    <2>1. t.calls[j].items \in ItemsT
        BY <1>2, CallFields
    <2> QED
        BY <1>1, <1>3, <2>1, OfferKept DEF Fit
<1>6. Offer(t, K, t.append.base, t.append.items)
    <2>1. t.append.items \in ItemsT
        BY <1>2 DEF BatchT
    <2> QED
        BY <1>1, <1>3, <2>1, OfferKept DEF Fit
<1>7. ~Rollback => Truthful(t)
    BY <1>2 DEF Fit, Truthful
<1> QED
    BY <1>3, <1>4, <1>5, <1>6, <1>7 DEF Leads, Fit

LEMMA StaleLeads ==
    ASSUME NEW r, NEW K, NEW s, Fit(s, r, K), NEW kinds
    PROVE  Leads(s, Stale(s, kinds), r, K)
<1>1. s \in RepT(r, K) /\ s.salt \in Nat /\ Offer(s, K, s.append.base, s.append.items)
    BY DEF Fit, RepT
<1>2. PICK t : t = Stale(s, kinds)
    OBVIOUS
<1>3. /\ t \in RepT(r, K)
      /\ t.me = s.me /\ t.chain = s.chain /\ t.pending = s.pending /\ t.res = s.res
      /\ t.resurrected = s.resurrected /\ t.salt = s.salt /\ t.append = s.append
      /\ DOMAIN t.calls = DOMAIN s.calls /\ Len(t.calls) = Len(s.calls)
      /\ \A j \in DOMAIN s.calls : /\ t.calls[j].base = s.calls[j].base
                                   /\ t.calls[j].items = s.calls[j].items
                                   /\ t.calls[j].k = s.calls[j].k
                                   /\ t.calls[j].ans = s.calls[j].ans
    BY <1>1, <1>2, StaleFields
<1>4. Leads(s, t, r, K)
    BY <1>1, <1>3, Drop
<1> QED
    BY <1>2, <1>4

LEMMA NoBatchT ==
    ASSUME NEW K, Family(K), NEW st \in {"idle", "flight", "retry", "wait"}
    PROVE  /\ [NoBatch EXCEPT !.st = st] \in BatchT(K)
           /\ [NoBatch EXCEPT !.st = st].items = << >>
           /\ NoBatch \in BatchT(K) /\ NoBatch.items = << >>
<1>1. << >> \in ItemsT
    BY NoItems
<1> QED
    BY <1>1 DEF NoBatch, BatchT, Family

LEMMA GiveUpLeads ==
    ASSUME NEW r, NEW K, Family(K), NEW s, Fit(s, r, K),
           NEW st \in {"idle", "flight", "retry", "wait"}
    PROVE  /\ Leads(s, GiveUp(s, st), r, K)
           /\ GiveUp(s, st).repair = s.repair /\ GiveUp(s, st).chain = s.chain
           /\ GiveUp(s, st).tail = s.tail /\ GiveUp(s, st).known = s.known
<1>1. s \in RepT(r, K) /\ s.salt \in Nat
    BY DEF Fit, RepT
<1>2. PICK u : u = Stale(s, {"append"})
    OBVIOUS
<1>3. /\ u \in RepT(r, K)
      /\ u.me = s.me /\ u.chain = s.chain /\ u.pending = s.pending /\ u.res = s.res
      /\ u.resurrected = s.resurrected /\ u.salt = s.salt /\ u.append = s.append
      /\ u.repair = s.repair /\ u.tail = s.tail /\ u.known = s.known
      /\ DOMAIN u.calls = DOMAIN s.calls /\ Len(u.calls) = Len(s.calls)
      /\ \A j \in DOMAIN s.calls : /\ u.calls[j].base = s.calls[j].base
                                   /\ u.calls[j].items = s.calls[j].items
                                   /\ u.calls[j].k = s.calls[j].k
                                   /\ u.calls[j].ans = s.calls[j].ans
    BY <1>1, <1>2, StaleFields
<1>4. PICK t : t = GiveUp(s, st)
    OBVIOUS
<1>5. PICK nb : nb = [NoBatch EXCEPT !.st = st]
    OBVIOUS
<1>6. t = [u EXCEPT !.append = nb, !.salt = @ + 1]
    BY <1>2, <1>4, <1>5 DEF GiveUp
<1>7. nb \in BatchT(K) /\ nb.items = << >>
    BY <1>5, NoBatchT
<1>8. t \in RepT(r, K)
    <2>1. u \in RepT(r, K) /\ u.salt + 1 \in Nat
        BY <1>1, <1>3
    <2> QED
        BY <2>1, <1>6, <1>7 DEF RepT
<1>9. /\ t.chain = u.chain /\ t.pending = u.pending /\ t.res = u.res /\ t.repair = u.repair
      /\ t.resurrected = u.resurrected /\ t.salt = u.salt + 1 /\ t.calls = u.calls
      /\ t.append = nb /\ t.tail = u.tail /\ t.known = u.known
    BY <1>3, <1>6 DEF RepT
<1>10. Offer(s, K, t.append.base, t.append.items)
    BY <1>7, <1>9, NoItems
<1>11. Leads(s, t, r, K)
    BY <1>1, <1>3, <1>8, <1>9, <1>10, Drop
<1> QED
    BY <1>3, <1>4, <1>9, <1>11

LEMMA SendAppendLeads ==
    ASSUME NEW r, NEW K, Family(K), NEW s, Fit(s, r, K), NEW b \in K, NEW x \in ItemsT,
           Offer(s, K, b, x)
    PROVE  Leads(s, SendAppend(s, b, x), r, K)
<1>1. s \in RepT(r, K) /\ s.salt \in Nat
    BY DEF Fit, RepT
<1>2. PICK u : u = Stale(s, {"append"})
    OBVIOUS
<1>3. /\ u \in RepT(r, K)
      /\ u.me = s.me /\ u.chain = s.chain /\ u.pending = s.pending /\ u.res = s.res
      /\ u.resurrected = s.resurrected /\ u.salt = s.salt /\ u.append = s.append
      /\ DOMAIN u.calls = DOMAIN s.calls /\ Len(u.calls) = Len(s.calls)
      /\ \A j \in DOMAIN s.calls : /\ u.calls[j].base = s.calls[j].base
                                   /\ u.calls[j].items = s.calls[j].items
                                   /\ u.calls[j].k = s.calls[j].k
                                   /\ u.calls[j].ans = s.calls[j].ans
    BY <1>1, <1>2, StaleFields
<1>5. PICK nb : nb = [st |-> "flight", base |-> b, items |-> x]
    OBVIOUS
<1>6. PICK t : t = [u EXCEPT !.append = nb]
    OBVIOUS
<1>7. nb \in BatchT(K) /\ nb.items = x /\ nb.base = b
    BY <1>5 DEF BatchT
<1>8. t \in RepT(r, K)
    BY <1>3, <1>6, <1>7 DEF RepT
<1>9. /\ t.chain = u.chain /\ t.pending = u.pending /\ t.res = u.res
      /\ t.resurrected = u.resurrected /\ t.salt = u.salt /\ t.calls = u.calls
      /\ t.append = nb /\ t.me = u.me
    BY <1>3, <1>6 DEF RepT
<1>10. Offer(s, K, t.append.base, t.append.items)
    BY <1>7, <1>9
<1>11. Leads(s, t, r, K)
    BY <1>1, <1>3, <1>8, <1>9, <1>10, Drop
<1>12. PICK c : c = Call("append", b, x, 0)
    OBVIOUS
<1>13. c \in CallT(K) /\ c.ans = Wait /\ c.base = b /\ c.items = x
    BY <1>12, CallTyped DEF Kinds
<1>14. Fit(t, r, K) /\ Offer(t, K, c.base, c.items)
    BY <1>1, <1>8, <1>11, <1>13, OfferKept DEF Leads
<1>15. Leads(t, Queue(t, c), r, K)
    BY <1>13, <1>14, QueueLeads
<1>16. Leads(s, Queue(t, c), r, K)
    BY <1>11, <1>15, LeadsOn
<1>17. Queue(t, c) = SendAppend(s, b, x)
    BY <1>2, <1>5, <1>6, <1>12 DEF SendAppend
<1> QED
    BY <1>16, <1>17

LEMMA HeadFetchLeads ==
    ASSUME NEW r, NEW K, Family(K), NEW s, Fit(s, r, K)
    PROVE  Leads(s, HeadFetch(s), r, K)
<1>1. PICK c : c = Call("subscribe", << >>, << >>, 0)
    OBVIOUS
<1>2. c \in CallT(K) /\ c.ans = Wait /\ Offer(s, K, c.base, c.items)
    BY <1>1, CallTyped, NoItems DEF Kinds, Family
<1> QED
    BY <1>1, <1>2, QueueLeads DEF HeadFetch

LEMMA RequestReadLeads ==
    ASSUME NEW r, NEW K, Family(K), NEW s, Fit(s, r, K)
    PROVE  Leads(s, RequestRead(s), r, K)
<1> DEFINE no == s.reading \/ s.repair.phase \in {"probing", "repairing", "held"}
<1>1. CASE no
    <2>1. RequestRead(s) = s
        BY <1>1 DEF RequestRead
    <2> QED
        BY <2>1, LeadsSelf
<1>2. CASE ~no
    <2>1. s \in RepT(r, K) /\ s.chain \in K
        BY DEF Fit, RepT
    <2>2. PICK c : c = Call("read", s.chain, << >>, 0)
        OBVIOUS
    <2>3. PICK t : t = [s EXCEPT !.reading = TRUE]
        OBVIOUS
    <2>4. t \in RepT(r, K) /\ t.chain = s.chain /\ t.pending = s.pending /\ t.res = s.res
          /\ t.resurrected = s.resurrected /\ t.salt = s.salt /\ t.calls = s.calls
          /\ t.append = s.append
        BY <2>1, <2>3 DEF RepT
    <2>5. Leads(s, t, r, K)
        BY <2>4, Tweak
    <2>6. c \in CallT(K) /\ c.ans = Wait /\ Offer(t, K, c.base, c.items)
        BY <2>1, <2>2, CallTyped, NoItems DEF Kinds
    <2>7. Leads(t, Queue(t, c), r, K)
        BY <2>5, <2>6, QueueLeads DEF Leads
    <2>8. RequestRead(s) = Queue(t, c)
        BY <1>2, <2>2, <2>3 DEF RequestRead
    <2> QED
        BY <2>5, <2>7, <2>8, LeadsOn
<1> QED
    BY <1>1, <1>2

-----------------------------------------------------------------------------
(***************************************************************************)
(* The lost-tail repair.                                                   *)
(***************************************************************************)
LEMMA RepairFields ==
    ASSUME NEW q \in RepairT
    PROVE  /\ q.from \in Nat /\ q.head \in Nat /\ q.floor \in Int /\ q.lo \in Int /\ q.hi \in Int
           /\ q.at \in Nat /\ q.n \in Nat /\ q.busy \in BOOLEAN /\ q.wait \in BOOLEAN
           /\ q.phase \in {"none", "probing", "repairing", "held", "rolling"}
BY DEF RepairT

LEMMA NoRepairT == NoRepair \in RepairT
BY DEF NoRepair, RepairT

LEMMA ChainFields ==
    ASSUME NEW r, NEW K, Family(K), NEW s, Fit(s, r, K)
    PROVE  /\ s \in RepT(r, K) /\ s.chain \in K /\ s.chain \in ItemsT /\ Head_(s) \in Nat
           /\ s.repair \in RepairT /\ s.known \in Nat /\ s.append \in BatchT(K)
           /\ s.tail \subseteq K /\ s.calls \in CallsT(K) /\ s.me = r /\ s.streak \in Nat
           /\ s.salt \in Nat
<1>1. s \in RepT(r, K)
    BY DEF Fit
<1>2. s.chain \in K /\ s.chain \in ItemsT
    BY <1>1 DEF RepT, Family
<1>3. Head_(s) \in Nat
    BY <1>2 DEF Head_, ItemsT
<1>4. /\ s.repair \in RepairT /\ s.known \in Nat /\ s.append \in BatchT(K)
      /\ s.tail \subseteq K /\ s.calls \in CallsT(K) /\ s.me = r /\ s.streak \in Nat
      /\ s.salt \in Nat
    BY <1>1 DEF RepT
<1> QED
    BY <1>1, <1>2, <1>3, <1>4

\* Steps of the repair's record, the known head and caught_up.
LEMMA RepairTweak ==
    ASSUME NEW r, NEW K, NEW s, Fit(s, r, K), NEW q \in RepairT, NEW kn \in Nat,
           NEW cu \in BOOLEAN
    PROVE  LET t == [s EXCEPT !.repair = q, !.known = kn, !.caught_up = cu] IN
           /\ Leads(s, t, r, K)
           /\ t.repair = q /\ t.chain = s.chain /\ t.tail = s.tail /\ t.known = kn
<1>1. s \in RepT(r, K)
    BY DEF Fit
<1>2. PICK t : t = [s EXCEPT !.repair = q, !.known = kn, !.caught_up = cu]
    OBVIOUS
<1>3. t \in RepT(r, K)
    BY <1>1, <1>2 DEF RepT
<1>4. /\ t.chain = s.chain /\ t.pending = s.pending /\ t.res = s.res
      /\ t.resurrected = s.resurrected /\ t.salt = s.salt /\ t.calls = s.calls
      /\ t.append = s.append /\ t.repair = q /\ t.tail = s.tail /\ t.known = kn
    BY <1>1, <1>2 DEF RepT
<1>5. Leads(s, t, r, K)
    BY <1>3, <1>4, Tweak
<1> QED
    BY <1>2, <1>4, <1>5

LEMMA RepairOnly ==
    ASSUME NEW r, NEW K, NEW s, Fit(s, r, K), NEW q \in RepairT
    PROVE  LET t == [s EXCEPT !.repair = q] IN
           /\ Leads(s, t, r, K)
           /\ t.repair = q /\ t.chain = s.chain /\ t.tail = s.tail /\ t.known = s.known
<1>1. s \in RepT(r, K)
    BY DEF Fit
<1>2. PICK t : t = [s EXCEPT !.repair = q]
    OBVIOUS
<1>3. t \in RepT(r, K)
    BY <1>1, <1>2 DEF RepT
<1>4. /\ t.chain = s.chain /\ t.pending = s.pending /\ t.res = s.res
      /\ t.resurrected = s.resurrected /\ t.salt = s.salt /\ t.calls = s.calls
      /\ t.append = s.append /\ t.repair = q /\ t.tail = s.tail /\ t.known = s.known
    BY <1>1, <1>2 DEF RepT
<1>5. Leads(s, t, r, K)
    BY <1>3, <1>4, Tweak
<1> QED
    BY <1>2, <1>4, <1>5

LEMMA ProbeAtLeads ==
    ASSUME NEW r, NEW K, Family(K), NEW s, Fit(s, r, K), NEW p \in Nat
    PROVE  Leads(s, ProbeAt(s, p), r, K)
<1>1. s.chain \in K /\ s.repair \in RepairT /\ s \in RepT(r, K)
    BY ChainFields
<1>2. PICK q : q = [s.repair EXCEPT !.busy = TRUE]
    OBVIOUS
<1>3. q \in RepairT
    BY <1>1, <1>2 DEF RepairT
<1>4. PICK t : t = [s EXCEPT !.repair = q]
    OBVIOUS
<1>5. Leads(s, t, r, K)
    BY <1>3, <1>4, RepairOnly
<1>6. PICK c : c = Call("probe", s.chain, << >>, p)
    OBVIOUS
<1>7. c \in CallT(K) /\ c.ans = Wait /\ Offer(t, K, c.base, c.items)
    BY <1>1, <1>6, CallTyped, NoItems DEF Kinds
<1>8. Leads(t, Queue(t, c), r, K)
    BY <1>5, <1>7, QueueLeads DEF Leads
<1>9. ProbeAt(s, p) = Queue(t, c)
    <2>1. [s EXCEPT !.repair.busy = TRUE] = [s EXCEPT !.repair = q]
        BY <1>2
    <2> QED
        BY <2>1, <1>4, <1>6 DEF ProbeAt
<1> QED
    BY <1>5, <1>8, <1>9, LeadsOn

LEMMA RestartProbeLeads ==
    ASSUME NEW r, NEW K, Family(K), NEW s, Fit(s, r, K), NEW h \in Nat
    PROVE  Leads(s, RestartProbe(s, h), r, K)
<1>1. s.chain \in K /\ Head_(s) \in Nat /\ s.repair \in RepairT /\ s.tail \subseteq K
    BY ChainFields
<1>2. PICK top : top = Min({h, Head_(s)})
    OBVIOUS
<1>3. top \in Nat /\ top + 1 \in Int
    <2>1. top \in Nat
        BY <1>1, <1>2, NatPair
    <2> QED
        BY <2>1
<1>4. PICK s0 : s0 = IF InFlight(s) THEN GiveUp(s, "idle") ELSE s
    OBVIOUS
<1>5. Leads(s, s0, r, K)
    BY <1>4, GiveUpLeads, LeadsSelf
<1>6. PICK s1 : s1 = Stale(s0, {"probe", "repair"})
    OBVIOUS
<1>7. Leads(s, s1, r, K)
    <2>1. Leads(s0, s1, r, K)
        BY <1>5, <1>6, StaleLeads DEF Leads
    <2> QED
        BY <1>5, <2>1, LeadsOn
<1>8. PICK floor : floor = IF s.tail = {} THEN Head_(s) ELSE Min({Len(c) : c \in s.tail}) - 1
    OBVIOUS
<1>9. floor \in Int
    <2>1. CASE s.tail = {}
        BY <2>1, <1>1, <1>8
    <2>2. CASE s.tail # {}
        <3> DEFINE T == {Len(c) : c \in s.tail}
        <3>1. T \subseteq Nat /\ T # {}
            <4>1. \A c \in s.tail : Len(c) \in Nat
                BY <1>1 DEF Family, ItemsT
            <4> QED
                BY <4>1, <2>2
        <3> HIDE DEF T
        <3>2. \E x \in T : \A y \in T : x <= y
            BY <3>1, LeastNat
        <3>3. Min(T) \in T
            BY <3>2 DEF Min
        <3> QED
            BY <3>1, <3>3, <2>2, <1>8 DEF T
    <2> QED
        BY <2>1, <2>2
<1>10. PICK q : q = [NoRepair EXCEPT !.phase = "probing", !.from = Head_(s), !.head = h,
                                     !.floor = floor, !.hi = top + 1]
    OBVIOUS
<1>11. q \in RepairT
    BY <1>1, <1>3, <1>9, <1>10, NoRepairT DEF RepairT
<1>12. PICK t : t = [s1 EXCEPT !.repair = q, !.caught_up = FALSE]
    OBVIOUS
<1>13. Leads(s1, t, r, K)
    <2>1. s1 \in RepT(r, K) /\ Fit(s1, r, K)
        BY <1>7 DEF Leads, Fit
    <2>2. t \in RepT(r, K)
        BY <1>11, <1>12, <2>1 DEF RepT
    <2>3. /\ t.chain = s1.chain /\ t.pending = s1.pending /\ t.res = s1.res
          /\ t.resurrected = s1.resurrected /\ t.salt = s1.salt /\ t.calls = s1.calls
          /\ t.append = s1.append
        BY <1>12, <2>1 DEF RepT
    <2> QED
        BY <2>1, <2>2, <2>3, Tweak
<1>14. Leads(s, t, r, K)
    BY <1>7, <1>13, LeadsOn
<1>15. Leads(t, ProbeAt(t, top), r, K)
    BY <1>3, <1>14, ProbeAtLeads DEF Leads
<1>16. RestartProbe(s, h) = ProbeAt(t, top)
    BY <1>2, <1>4, <1>6, <1>8, <1>10, <1>12 DEF RestartProbe
<1> QED
    BY <1>14, <1>15, <1>16, LeadsOn

LEMMA OnLostTailLeads ==
    ASSUME NEW r, NEW K, Family(K), NEW s, Fit(s, r, K), NEW h \in Nat, NEW below \in BOOLEAN
    PROVE  Leads(s, OnLostTail(s, h, below), r, K)
<1>1. OnLostTail(s, h, below) \in {s, RestartProbe(s, h)}
    BY DEF OnLostTail
<1> QED
    BY <1>1, RestartProbeLeads, LeadsSelf

LEMMA KnownLeads ==
    ASSUME NEW r, NEW K, Family(K), NEW s, Fit(s, r, K), NEW h \in Nat
    PROVE  LET t == [s EXCEPT !.known = Max({@, h})] IN
           /\ Leads(s, t, r, K)
           /\ t.repair = s.repair /\ t.chain = s.chain /\ t.tail = s.tail
           /\ t.append = s.append /\ t.streak = s.streak /\ t.me = s.me
<1>1. s \in RepT(r, K) /\ s.known \in Nat
    BY ChainFields
<1>2. PICK kn : kn = Max({s.known, h})
    OBVIOUS
<1>3. kn \in Nat
    BY <1>1, <1>2, NatPair
<1>4. PICK t : t = [s EXCEPT !.known = kn]
    OBVIOUS
<1>5. t = [s EXCEPT !.known = Max({@, h})]
    BY <1>2, <1>4
<1>6. t \in RepT(r, K)
    BY <1>1, <1>3, <1>4 DEF RepT
<1>7. /\ t.chain = s.chain /\ t.pending = s.pending /\ t.res = s.res
      /\ t.resurrected = s.resurrected /\ t.salt = s.salt /\ t.calls = s.calls
      /\ t.append = s.append /\ t.repair = s.repair /\ t.tail = s.tail
      /\ t.streak = s.streak /\ t.me = s.me
    BY <1>1, <1>4 DEF RepT
<1>8. Leads(s, t, r, K)
    BY <1>6, <1>7, Tweak
<1> QED
    BY <1>5, <1>7, <1>8

LEMMA CaughtUpLeads ==
    ASSUME NEW r, NEW K, NEW s, Fit(s, r, K), NEW b \in BOOLEAN
    PROVE  LET t == [s EXCEPT !.caught_up = b] IN
           /\ Leads(s, t, r, K)
           /\ t.repair = s.repair /\ t.chain = s.chain /\ t.tail = s.tail
           /\ t.known = s.known /\ t.append = s.append
<1>1. s \in RepT(r, K)
    BY DEF Fit
<1>2. PICK t : t = [s EXCEPT !.caught_up = b]
    OBVIOUS
<1>3. t \in RepT(r, K)
    BY <1>1, <1>2 DEF RepT
<1>4. /\ t.chain = s.chain /\ t.pending = s.pending /\ t.res = s.res
      /\ t.resurrected = s.resurrected /\ t.salt = s.salt /\ t.calls = s.calls
      /\ t.append = s.append /\ t.repair = s.repair /\ t.tail = s.tail /\ t.known = s.known
    BY <1>1, <1>2 DEF RepT
<1>5. Leads(s, t, r, K)
    BY <1>3, <1>4, Tweak
<1> QED
    BY <1>2, <1>4, <1>5

\* The repair ends and the head is known.
LEMMA EndRepairLeads ==
    ASSUME NEW r, NEW K, Family(K), NEW s, Fit(s, r, K), NEW h \in Nat
    PROVE  Leads(s, [s EXCEPT !.repair = NoRepair, !.known = Max({@, h})], r, K)
<1>1. s \in RepT(r, K)
    BY ChainFields
<1>2. PICK u : u = [s EXCEPT !.repair = NoRepair]
    OBVIOUS
<1>3. Leads(s, u, r, K)
    BY <1>2, RepairOnly, NoRepairT
<1>4. PICK t : t = [u EXCEPT !.known = Max({@, h})]
    OBVIOUS
<1>5. Leads(u, t, r, K)
    BY <1>3, <1>4, KnownLeads DEF Leads
<1>6. t = [s EXCEPT !.repair = NoRepair, !.known = Max({@, h})]
    BY <1>2, <1>4
<1> QED
    BY <1>3, <1>5, <1>6, LeadsOn

LEMMA RollbackProgressLeads ==
    ASSUME NEW r, NEW K, Family(K), NEW s, Fit(s, r, K)
    PROVE  Leads(s, RollbackProgress(s), r, K)
<1>1. Head_(s) \in Nat
    BY ChainFields
<1>2. RollbackProgress(s) \in {[s EXCEPT !.repair = NoRepair, !.known = Max({@, Head_(s)})],
                               RequestRead(s)}
    BY DEF RollbackProgress
<1>3. PICK h : h = Head_(s)
    OBVIOUS
<1>4. Leads(s, [s EXCEPT !.repair = NoRepair, !.known = Max({@, h})], r, K)
    BY <1>1, <1>3, EndRepairLeads
<1> QED
    BY <1>2, <1>3, <1>4, RequestReadLeads

\* With rollbacks, only what the author and the salt of a plan say is kept.
LEMMA Rolled ==
    ASSUME NEW r, NEW K, NEW s, NEW t, Fit(s, r, K), t \in RepT(r, K), Rollback,
           t.salt = s.salt, t.calls = s.calls, t.append = s.append
    PROVE  Leads(s, t, r, K)
<1>1. s \in RepT(r, K)
    BY DEF Fit
<1>2. t.me = s.me /\ s.salt \in Nat /\ s.calls \in CallsT(K) /\ s.append \in BatchT(K)
    BY <1>1 DEF RepT
<1>3. Settles_(s, t)
    BY <1>2 DEF Settles_
<1>4. Extends(s.calls, t.calls)
    BY <1>2 DEF Extends, CallsT
<1>5. ASSUME NEW j \in DOMAIN t.calls PROVE Offer(t, K, t.calls[j].base, t.calls[j].items)
    <2>1. t.calls[j].items \in ItemsT
        BY <1>2, CallFields
    <2> QED
        BY <1>1, <1>3, <2>1, OfferKept DEF Fit
<1>6. Offer(t, K, t.append.base, t.append.items)
    <2>1. t.append.items \in ItemsT
        BY <1>2 DEF BatchT
    <2> QED
        BY <1>1, <1>3, <2>1, OfferKept DEF Fit
<1> QED
    BY <1>3, <1>4, <1>5, <1>6 DEF Leads, Fit

LEMMA TryRollbackLeads ==
    ASSUME NEW r, NEW K, Family(K), NEW s, Fit(s, r, K), NEW l \in Int
    PROVE  Leads(s, TryRollback(s, l), r, K)
<1>1. CASE ~Rollback
    <2>1. TryRollback(s, l) = s
        BY <1>1 DEF TryRollback
    <2> QED
        BY <2>1, LeadsSelf
<1>2. CASE Rollback
    <2>1. s \in RepT(r, K) /\ s.repair \in RepairT /\ s.repair.head \in Nat
        BY ChainFields, RepairFields
    <2>2. PICK again : again = {o \in s.own : o[1] > l}
        OBVIOUS
    <2>3. PICK back : back = {o[2] : o \in again}
        OBVIOUS
    <2>4. s.own \in Finite(Nat \X WritesOf(r)) /\ s.pending \in Finite(WritesOf(r))
          /\ s.resurrected \in SUBSET WritesOf(r)
        BY <2>1 DEF RepT
    <2>5. again \subseteq s.own /\ IsFiniteSet(again) /\ s.own \ again \in Finite(Nat \X WritesOf(r))
        <3>1. IsFiniteSet(s.own) /\ again \in SUBSET s.own /\ s.own \ again \in SUBSET s.own
            BY <2>2, <2>4 DEF Finite
        <3>2. IsFiniteSet(again) /\ IsFiniteSet(s.own \ again)
            BY <3>1, FS_Subset
        <3> QED
            BY <3>1, <3>2, <2>4 DEF Finite
    <2>6. back \subseteq WritesOf(r) /\ IsFiniteSet(back)
        <3>1. back \subseteq WritesOf(r)
            BY <2>3, <2>4, <2>5 DEF Finite
        <3> DEFINE f == [o \in again |-> o[2]]
        <3>2. f \in Surjection(again, back)
            BY <2>3 DEF Surjection
        <3> HIDE DEF f
        <3>3. IsFiniteSet(back)
            BY <3>2, <2>5, FS_Surjection
        <3> QED
            BY <3>1, <3>3
    <2>7. s.pending \cup back \in Finite(WritesOf(r))
        <3>1. IsFiniteSet(s.pending \cup back)
            BY <2>4, <2>6, FS_Union DEF Finite
        <3> QED
            BY <3>1, <2>4, <2>6 DEF Finite
    <2>8. PICK q : q = [NoRepair EXCEPT !.phase = "rolling", !.head = s.repair.head]
        OBVIOUS
    <2>9. q \in RepairT
        BY <2>1, <2>8, NoRepairT DEF RepairT
    <2>10. PICK tl : tl = {c \in s.tail : Len(c) <= l}
        OBVIOUS
    <2>11. << >> \in K /\ tl \in SUBSET K
        BY <2>1, <2>10 DEF RepT, Family
    <2>12. PICK t : t = [s EXCEPT
             !.chain = << >>,
             !.tail = {c \in @ : Len(c) <= l},
             !.own = @ \ again,
             !.pending = @ \cup back,
             !.resurrected = @ \cup back,
             !.known = s.repair.head,
             !.caught_up = FALSE,
             !.repair = q]
        OBVIOUS
    <2>13. /\ t.chain = << >> /\ t.tail = tl /\ t.own = s.own \ again
           /\ t.pending = s.pending \cup back /\ t.resurrected = s.resurrected \cup back
           /\ t.known = s.repair.head /\ t.caught_up = FALSE /\ t.repair = q
           /\ t.me = s.me /\ t.res = s.res /\ t.salt = s.salt /\ t.up = s.up
           /\ t.reading = s.reading /\ t.append = s.append /\ t.streak = s.streak
           /\ t.calls = s.calls
        BY <2>1, <2>10, <2>12 DEF RepT
    <2>14. t \in RepT(r, K)
        BY <2>1, <2>5, <2>6, <2>7, <2>9, <2>10, <2>11, <2>12, <2>4 DEF RepT
    <2>15. Leads(s, t, r, K)
        BY <1>2, <2>13, <2>14, Rolled
    <2>16. Leads(t, RollbackProgress(t), r, K)
        BY <2>15, RollbackProgressLeads DEF Leads
    <2>17. TryRollback(s, l) = RollbackProgress(t)
        BY <1>2, <2>2, <2>3, <2>8, <2>12 DEF TryRollback
    <2> QED
        BY <2>15, <2>16, <2>17, LeadsOn
<1> QED
    BY <1>1, <1>2

LEMMA ProbeDoneLeads ==
    ASSUME NEW r, NEW K, Family(K), NEW s, Fit(s, r, K), NEW lo \in Int
    PROVE  Leads(s, ProbeDone(s, lo), r, K)
<1>1. s.repair \in RepairT /\ s.repair.head \in Nat /\ s.repair.from \in Nat
    BY ChainFields, RepairFields
<1>2. PICK q : q = [NoRepair EXCEPT !.phase = "held", !.head = s.repair.head,
                                    !.from = s.repair.from, !.lo = lo]
    OBVIOUS
<1>3. q \in RepairT
    BY <1>1, <1>2, NoRepairT DEF RepairT
<1>4. PICK t : t = [s EXCEPT !.repair = q]
    OBVIOUS
<1>5. Leads(s, t, r, K)
    BY <1>3, <1>4, RepairOnly
<1>6. Leads(t, TryRollback(t, lo), r, K)
    BY <1>5, TryRollbackLeads DEF Leads
<1>7. ProbeDone(s, lo) \in {t, TryRollback(t, lo)}
    BY <1>2, <1>4 DEF ProbeDone
<1> QED
    BY <1>5, <1>6, <1>7, LeadsOn

LEMMA RepairFinishedLeads ==
    ASSUME NEW r, NEW K, Family(K), NEW s, Fit(s, r, K)
    PROVE  Leads(s, RepairFinished(s), r, K)
<1>1. PICK h : h = Head_(s)
    OBVIOUS
<1>2. h \in Nat
    BY <1>1, ChainFields
<1>3. PICK u : u = [s EXCEPT !.repair = NoRepair, !.known = Max({@, h})]
    OBVIOUS
<1>4. Leads(s, u, r, K)
    BY <1>2, <1>3, EndRepairLeads
<1>5. PICK t : t = [u EXCEPT !.caught_up = TRUE]
    OBVIOUS
<1>6. Leads(u, t, r, K)
    BY <1>4, <1>5, CaughtUpLeads DEF Leads
<1>7. t = RepairFinished(s)
    BY <1>1, <1>3, <1>5 DEF RepairFinished
<1> QED
    BY <1>4, <1>6, <1>7, LeadsOn

LEMMA SplitChain ==
    ASSUME NEW K, Family(K), NEW c \in K, NEW n \in 0..Len(c)
    PROVE  /\ Prefix(c, n) \in K /\ SubSeq(c, n + 1, Len(c)) \in ItemsT
           /\ Prefix(c, n) \o SubSeq(c, n + 1, Len(c)) = c
<1>1. c \in ItemsT /\ Len(c) \in Nat
    BY DEF Family, ItemsT
<1>2. Prefix(c, n) \in K
    BY DEF Family
<1>3. SubSeq(c, n + 1, Len(c)) \in ItemsT
    <2>1. \A i \in (n + 1)..Len(c) : c[i] \in ItemT
        BY <1>1 DEF ItemsT
    <2> QED
        BY <2>1, <1>1, SubSeqProperties DEF ItemsT
<1>4. SubSeq(c, 1, n) \o SubSeq(c, n + 1, Len(c)) = SubSeq(c, 1, Len(c))
    <2>1. c \in Seq(ItemT) /\ 1 \in 1..Len(c)+1 /\ n \in (1-1)..Len(c) /\ Len(c) \in n..Len(c)
        BY <1>1 DEF ItemsT
    <2> QED
        BY <2>1, ConcatAdjacentSubSeq
<1>5. SubSeq(c, 1, Len(c)) = c
    BY <1>1, SubSeqFull DEF ItemsT
<1> QED
    BY <1>2, <1>3, <1>4, <1>5 DEF Prefix

LEMMA SendRepairLeads ==
    ASSUME NEW r, NEW K, Family(K), NEW s, Fit(s, r, K), NEW at \in Nat
    PROVE  Leads(s, SendRepair(s, at), r, K)
<1>1. /\ s.repair \in RepairT /\ s.repair.from \in Nat /\ s.tail \subseteq K
      /\ BatchItems \in Nat \ {0}
    BY ChainFields, RepairFields, ReplicaAssumption
<1>2. PICK upto : upto = Min({at + BatchItems, s.repair.from})
    OBVIOUS
<1>3. upto \in {at + BatchItems, s.repair.from} /\ upto \in Nat
    <2>1. PICK a, b : a = at + BatchItems /\ b = s.repair.from
        OBVIOUS
    <2>2. a \in Nat /\ b \in Nat
        BY <1>1, <2>1
    <2>3. Min({a, b}) \in {a, b}
        BY <2>2, MinPair
    <2> QED
        BY <1>2, <2>1, <2>2, <2>3
<1>4. PICK rows : rows = {c \in s.tail : Len(c) \in at+1..upto}
    OBVIOUS
<1>5. PICK top : top = CHOOSE c \in rows : Len(c) = upto
    OBVIOUS
<1>6. CASE at >= s.repair.from
    <2>1. SendRepair(s, at) = RepairFinished(s)
        BY <1>6 DEF SendRepair
    <2> QED
        BY <2>1, RepairFinishedLeads
<1>7. CASE ~(at >= s.repair.from) /\ {Len(c) : c \in rows} # at+1..upto
    <2>1. SendRepair(s, at) = ProbeDone(s, at)
        BY <1>7, <1>2, <1>4 DEF SendRepair
    <2> QED
        BY <2>1, ProbeDoneLeads
<1>8. CASE ~(at >= s.repair.from) /\ {Len(c) : c \in rows} = at+1..upto
    <2>1. at < upto /\ upto - at \in Nat
        BY <1>1, <1>3, <1>8
    <2>2. upto \in {Len(c) : c \in rows}
        BY <1>3, <1>8, <2>1
    <2>3. top \in rows /\ Len(top) = upto
        BY <1>5, <2>2
    <2>4. top \in K
        BY <1>1, <1>4, <2>3
    <2>5. at \in 0..Len(top)
        BY <1>3, <2>1, <2>3
    <2>6. PICK b : b = Prefix(top, at)
        OBVIOUS
    <2>7. PICK x : x = SubSeq(top, at + 1, upto)
        OBVIOUS
    <2>8. b \in K /\ x \in ItemsT /\ b \o x = top
        BY <2>3, <2>4, <2>5, <2>6, <2>7, SplitChain
    <2>9. PICK q : q = [s.repair EXCEPT !.phase = "repairing", !.at = at, !.n = upto - at,
                                        !.busy = TRUE, !.wait = FALSE]
        OBVIOUS
    <2>10. q \in RepairT
        BY <1>1, <2>1, <2>9 DEF RepairT
    <2>11. PICK t : t = [s EXCEPT !.repair = q]
        OBVIOUS
    <2>12. Leads(s, t, r, K)
        BY <2>10, <2>11, RepairOnly
    <2>13. PICK c : c = Call("repair", b, x, 0)
        OBVIOUS
    <2>14. c \in CallT(K) /\ c.ans = Wait /\ c.base = b /\ c.items = x
        BY <2>8, <2>13, CallTyped DEF Kinds
    <2>15. Offer(t, K, c.base, c.items)
        BY <2>4, <2>8, <2>14 DEF Offer
    <2>16. Leads(t, Queue(t, c), r, K)
        BY <2>12, <2>14, <2>15, QueueLeads DEF Leads
    <2>17. SendRepair(s, at) = Queue(t, c)
        BY <1>2, <1>4, <1>5, <1>8, <2>6, <2>7, <2>9, <2>11, <2>13 DEF SendRepair
    <2> QED
        BY <2>12, <2>16, <2>17, LeadsOn
<1> QED
    BY <1>6, <1>7, <1>8

LEMMA SearchLeads ==
    ASSUME NEW r, NEW K, Family(K), NEW s, Fit(s, r, K), NEW lo \in Int, NEW hi \in Int
    PROVE  Leads(s, Search(s, lo, hi), r, K)
<1>1. s.repair \in RepairT /\ s.repair.floor \in Int
    BY ChainFields, RepairFields
<1>2. PICK q : q = [s.repair EXCEPT !.lo = lo, !.hi = hi, !.busy = FALSE]
    OBVIOUS
<1>3. q \in RepairT
    BY <1>1, <1>2 DEF RepairT
<1>4. PICK t : t = [s EXCEPT !.repair = q]
    OBVIOUS
<1>5. Leads(s, t, r, K)
    BY <1>3, <1>4, RepairOnly
<1>6. PICK p : p = NextProbe(s.repair.floor, lo, hi)
    OBVIOUS
<1>7. p \in Int
    BY <1>1, <1>6 DEF NextProbe
<1>8. [s EXCEPT !.repair.lo = lo, !.repair.hi = hi, !.repair.busy = FALSE] = t
    <2>1. s \in RepT(r, K)
        BY ChainFields
    <2> QED
        BY <2>1, <1>1, <1>2, <1>4 DEF RepT, RepairT
<1>9. CASE p < 0
    <2>1. Search(s, lo, hi) = ProbeDone(t, lo)
        BY <1>6, <1>8, <1>9 DEF Search
    <2>2. Leads(t, ProbeDone(t, lo), r, K)
        BY <1>5, ProbeDoneLeads DEF Leads
    <2> QED
        BY <1>5, <2>1, <2>2, LeadsOn
<1>10. CASE ~(p < 0)
    <2>1. Search(s, lo, hi) = ProbeAt(t, p)
        BY <1>6, <1>8, <1>10 DEF Search
    <2>2. p \in Nat
        BY <1>7, <1>10
    <2>3. Leads(t, ProbeAt(t, p), r, K)
        BY <1>5, <2>2, ProbeAtLeads DEF Leads
    <2> QED
        BY <1>5, <2>1, <2>3, LeadsOn
<1> QED
    BY <1>9, <1>10

LEMMA ProbeResultLeads ==
    ASSUME NEW r, NEW K, Family(K), NEW s, Fit(s, r, K), NEW p \in Nat, NEW c \in Int
    PROVE  Leads(s, ProbeResult(s, p, c), r, K)
<1>1. s.repair \in RepairT /\ s.repair.lo \in Int /\ s.repair.hi \in Int /\ s.repair.head \in Nat
    BY ChainFields, RepairFields
<1>2. PICK lo : lo = Max({s.repair.lo, c})
    OBVIOUS
<1>3. PICK hi : hi = IF c >= p THEN s.repair.hi ELSE Min({p, s.repair.hi})
    OBVIOUS
<1>4. lo \in Int /\ hi \in Int
    <2>1. PICK a, b : a = s.repair.lo /\ b = s.repair.hi
        OBVIOUS
    <2>2. a \in Int /\ b \in Int /\ p \in Int
        BY <1>1, <2>1
    <2>3. Max({a, c}) \in {a, c}
        BY <2>2, MaxPair
    <2>4. Min({p, b}) \in {p, b}
        BY <2>2, MinPair
    <2> QED
        BY <1>1, <1>2, <1>3, <2>1, <2>2, <2>3, <2>4
<1>5. PICK u : u = [s EXCEPT !.repair = NoRepair, !.known = Max({@, s.repair.head})]
    OBVIOUS
<1>6. Leads(s, u, r, K)
    <2>1. PICK h : h = s.repair.head
        OBVIOUS
    <2>2. Leads(s, [s EXCEPT !.repair = NoRepair, !.known = Max({@, h})], r, K)
        BY <1>1, <2>1, EndRepairLeads
    <2> QED
        BY <1>5, <2>1, <2>2
<1>7. Leads(s, RequestRead(u), r, K)
    <2>1. Leads(u, RequestRead(u), r, K)
        BY <1>6, RequestReadLeads DEF Leads
    <2> QED
        BY <1>6, <2>1, LeadsOn
<1>8. ProbeResult(s, p, c) \in {ProbeDone(s, -1), SendRepair(s, p), RequestRead(u),
                                Search(s, lo, hi)}
    BY <1>2, <1>3, <1>5 DEF ProbeResult
<1>9. Leads(s, ProbeDone(s, -1), r, K) /\ Leads(s, SendRepair(s, p), r, K)
      /\ Leads(s, Search(s, lo, hi), r, K)
    BY <1>4, ProbeDoneLeads, SendRepairLeads, SearchLeads
<1> QED
    BY <1>7, <1>8, <1>9

LEMMA AnsFields ==
    ASSUME NEW K, Family(K), NEW c \in CallT(K)
    PROVE  /\ c.ans \in AnsT(K) /\ c.ans.log \in K /\ c.ans.log \in ItemsT
           /\ Len(c.ans.log) \in Nat /\ c.ans.upto \in Nat /\ c.p \in Nat
           /\ c.base \in K /\ c.base \in ItemsT /\ Len(c.base) \in Nat
           /\ c.items \in ItemsT /\ c.cur \in BOOLEAN /\ c.k \in Kinds /\ PageOK(c)
<1>1. c.ans \in AnsT(K) /\ c.p \in Nat /\ c.base \in K /\ c.items \in ItemsT /\ c.cur \in BOOLEAN
      /\ c.k \in Kinds /\ PageOK(c)
    BY DEF CallT
<1>2. c.ans.log \in K /\ c.ans.upto \in Nat
    BY <1>1 DEF AnsT
<1>3. c.ans.log \in ItemsT /\ c.base \in ItemsT
    BY <1>1, <1>2 DEF Family
<1>4. Len(c.ans.log) \in Nat /\ Len(c.base) \in Nat
    BY <1>3 DEF ItemsT
<1> QED
    BY <1>1, <1>2, <1>3, <1>4

LEMMA MaxAgree ==
    ASSUME NEW a \in Nat, NEW S \in SUBSET {a, a + 1}
    PROVE  Max(S \cup {-1}) \in Int
<1> DEFINE T == S \cup {-1}
<1>1. T \subseteq Int
    OBVIOUS
<1>2. \E x \in T : \A y \in T : x >= y
    <2>1. CASE a + 1 \in S
        BY <2>1
    <2>2. CASE a + 1 \notin S /\ a \in S
        BY <2>2
    <2>3. CASE a + 1 \notin S /\ a \notin S
        BY <2>3
    <2> QED
        BY <2>1, <2>2, <2>3
<1> HIDE DEF T
<1>3. Max(T) \in T
    BY <1>2 DEF Max
<1> QED
    BY <1>1, <1>3 DEF T

LEMMA OnProbeLeads ==
    ASSUME NEW r, NEW K, Family(K), NEW s, Fit(s, r, K), NEW c \in CallT(K)
    PROVE  Leads(s, OnProbe(s, c), r, K)
<1>1. s.repair \in RepairT /\ Len(c.ans.log) \in Nat /\ c.p \in Nat
    BY ChainFields, AnsFields
<1>2. PICK q : q = [s.repair EXCEPT !.busy = FALSE]
    OBVIOUS
<1>3. q \in RepairT
    BY <1>1, <1>2 DEF RepairT
<1>4. PICK t : t = [s EXCEPT !.repair = q]
    OBVIOUS
<1>5. Leads(s, t, r, K)
    BY <1>3, <1>4, RepairOnly
<1>6. [s EXCEPT !.repair.busy = FALSE] = t
    BY <1>2, <1>4
<1>7. PICK after : after = Max({c.p - 1, 0})
    OBVIOUS
<1>8. after \in Nat
    <2>1. PICK a : a = c.p - 1
        OBVIOUS
    <2>2. a \in Int
        BY <1>1, <2>1
    <2>3. Max({a, 0}) \in {a, 0} /\ Max({a, 0}) >= 0
        BY <2>2, MaxPair
    <2> QED
        BY <1>7, <2>1, <2>2, <2>3
<1>9. PICK agree : agree = {q_1 \in {after, after + 1} :
                     q_1 <= Len(c.ans.log) /\ Prefix(c.ans.log, q_1) \in OwnAt(s, q_1)}
    OBVIOUS
<1>10. PICK m : m = Max(agree \cup {-1})
    OBVIOUS
<1>11. m \in Int
    <2>1. agree \in SUBSET {after, after + 1}
        BY <1>9
    <2> QED
        BY <1>8, <1>10, <2>1, MaxAgree
<1>12. OnProbe(s, c) \in {s, t, RestartProbe(s, Len(c.ans.log)), ProbeResult(s, c.p, m)}
    BY <1>6, <1>7, <1>9, <1>10 DEF OnProbe
<1>13. Leads(s, RestartProbe(s, Len(c.ans.log)), r, K) /\ Leads(s, ProbeResult(s, c.p, m), r, K)
    BY <1>1, <1>11, RestartProbeLeads, ProbeResultLeads
<1> QED
    BY <1>5, <1>12, <1>13, LeadsSelf

LEMMA OnRepairAppendLeads ==
    ASSUME NEW r, NEW K, Family(K), NEW s, Fit(s, r, K), NEW c \in CallT(K)
    PROVE  Leads(s, OnRepairAppend(s, c), r, K)
<1>1. /\ s \in RepT(r, K) /\ s.repair \in RepairT /\ Len(c.ans.log) \in Nat /\ Head_(s) \in Nat
      /\ s.repair.at \in Nat /\ s.repair.n \in Nat
    BY ChainFields, AnsFields, RepairFields
<1>2. PICK last : last = s.repair.at + s.repair.n
    OBVIOUS
<1>3. last \in Nat
    BY <1>1, <1>2
<1>4. PICK h : h = Min({last, Head_(s)})
    OBVIOUS
<1>5. h \in Nat
    BY <1>1, <1>3, <1>4, NatPair
<1>6. PICK q : q = [s.repair EXCEPT !.head = last, !.busy = FALSE]
    OBVIOUS
<1>7. PICK t : t = [s EXCEPT !.repair = q]
    OBVIOUS
<1>8. Leads(s, t, r, K)
    <2>1. q \in RepairT
        BY <1>1, <1>3, <1>6 DEF RepairT
    <2> QED
        BY <2>1, <1>7, RepairOnly
<1>9. [s EXCEPT !.repair.head = last, !.repair.busy = FALSE] = t
    BY <1>1, <1>6, <1>7 DEF RepT, RepairT
<1>10. PICK q2 : q2 = [s.repair EXCEPT !.busy = FALSE, !.wait = TRUE]
    OBVIOUS
<1>11. PICK t2 : t2 = [s EXCEPT !.repair = q2]
    OBVIOUS
<1>12. Leads(s, t2, r, K)
    <2>1. q2 \in RepairT
        BY <1>1, <1>10 DEF RepairT
    <2> QED
        BY <2>1, <1>11, RepairOnly
<1>13. [s EXCEPT !.repair.busy = FALSE, !.repair.wait = TRUE] = t2
    BY <1>1, <1>10, <1>11 DEF RepT, RepairT
<1>14. Leads(s, SendRepair(t, last), r, K)
    <2>1. Leads(t, SendRepair(t, last), r, K)
        BY <1>3, <1>8, SendRepairLeads DEF Leads
    <2> QED
        BY <1>8, <2>1, LeadsOn
<1>15. Leads(s, RestartProbe(s, h), r, K) /\ Leads(s, RestartProbe(s, Len(c.ans.log)), r, K)
    BY <1>1, <1>5, RestartProbeLeads
<1>16. CASE ~c.cur \/ s.repair.phase # "repairing"
    <2>1. OnRepairAppend(s, c) = s
        BY <1>16 DEF OnRepairAppend
    <2> QED
        BY <2>1, LeadsSelf
<1>17. CASE ~(~c.cur \/ s.repair.phase # "repairing") /\ c.ans.t = "ok"
    <2>1. OnRepairAppend(s, c) \in {SendRepair(t, last), RestartProbe(s, h)}
        BY <1>2, <1>4, <1>9, <1>17 DEF OnRepairAppend
    <2> QED
        BY <2>1, <1>14, <1>15
<1>18. CASE ~(~c.cur \/ s.repair.phase # "repairing") /\ c.ans.t = "moved"
    <2>1. OnRepairAppend(s, c) = RestartProbe(s, Len(c.ans.log))
        BY <1>18 DEF OnRepairAppend
    <2> QED
        BY <2>1, <1>15
<1>19. CASE ~(~c.cur \/ s.repair.phase # "repairing") /\ c.ans.t \notin {"ok", "moved"}
    <2>1. OnRepairAppend(s, c) = t2
        BY <1>13, <1>19 DEF OnRepairAppend
    <2> QED
        BY <2>1, <1>12
<1> QED
    BY <1>16, <1>17, <1>18, <1>19

LEMMA RepairStepLeads ==
    ASSUME NEW r, NEW K, Family(K), NEW s, Fit(s, r, K)
    PROVE  Leads(s, RepairStep(s), r, K)
<1>1. s.repair \in RepairT /\ s.repair.lo \in Int /\ s.repair.hi \in Int /\ s.repair.at \in Nat
    BY ChainFields, RepairFields
<1>2. RepairStep(s) \in {Search(s, s.repair.lo, s.repair.hi), SendRepair(s, s.repair.at),
                         RollbackProgress(s), s}
    BY DEF RepairStep
<1> QED
    BY <1>1, <1>2, SearchLeads, SendRepairLeads, RollbackProgressLeads, LeadsSelf

-----------------------------------------------------------------------------
(***************************************************************************)
(* The batch.                                                              *)
(***************************************************************************)
LEMMA WritesInChain ==
    ASSUME NEW c, NEW w
    PROVE  w \in WritesIn(c) <=> \E p \in DOMAIN c : w = <<c[p][1], c[p][2]>>
BY DEF WritesIn, WriteOf

\* What holds of every chain of K for the replica: of its own writes in the chain, none is
\* above a pending one that is not.
Clear(s, K) ==
    ~Rollback =>
        \A c \in K : \A p \in DOMAIN c : \A j \in s.pending :
            c[p][1] = s.me /\ j < c[p][2] => \E q \in DOMAIN c : WriteOf(c[q]) = <<s.me, j>>

LEMMA RowSets ==
    ASSUME NEW r, NEW K, NEW s \in RepT(r, K)
    PROVE  /\ s.pending \subseteq Nat /\ IsFiniteSet(s.pending)
           /\ FirstRows(s) \subseteq s.pending
           /\ ConfirmedRows(s) \subseteq FirstRows(s) /\ RejectedRows(s) \subseteq FirstRows(s)
           /\ ConfirmedRows(s) \cap RejectedRows(s) = {}
           /\ \A i \in FirstRows(s) : \A j \in s.pending : j < i => j \in FirstRows(s)
<1>1. s.pending \subseteq WritesOf(r) /\ IsFiniteSet(s.pending)
    BY DEF RepT, Finite
<1>2. WritesOf(r) \subseteq Nat
    BY ReplicaAssumption DEF WritesOf
<1>3. BatchItems \in Nat
    BY ReplicaAssumption
<1>4. FirstRows(s) \subseteq s.pending
    BY DEF FirstRows
<1>5. ConfirmedRows(s) \subseteq FirstRows(s)
    BY DEF ConfirmedRows
<1>6. RejectedRows(s) \subseteq FirstRows(s) /\ ConfirmedRows(s) \cap RejectedRows(s) = {}
    BY DEF RejectedRows
<1>7. ASSUME NEW i \in FirstRows(s), NEW j \in s.pending, j < i PROVE j \in FirstRows(s)
    <2> DEFINE Below(k) == {l \in s.pending : l < k}
    <2>1. i \in Nat /\ j \in Nat /\ s.pending \subseteq Nat
        BY <1>1, <1>2, <1>4, <1>7
    <2>2. Below(j) \in SUBSET Below(i) /\ Below(i) \in SUBSET s.pending
        BY <1>7, <2>1
    <2> HIDE DEF Below
    <2>3. IsFiniteSet(Below(i))
        BY <1>1, <2>2, FS_Subset
    <2>4. IsFiniteSet(Below(j)) /\ Cardinality(Below(j)) <= Cardinality(Below(i))
        BY <2>2, <2>3, FS_Subset
    <2>5. Cardinality(Below(j)) \in Nat /\ Cardinality(Below(i)) \in Nat
        BY <2>3, <2>4, FS_CardinalityType
    <2>6. Cardinality(Below(i)) < BatchItems
        BY <1>7 DEF FirstRows, Below
    <2>7. Cardinality(Below(j)) < BatchItems
        BY <1>3, <2>4, <2>5, <2>6
    <2> QED
        BY <1>7, <2>7 DEF FirstRows, Below
<1> QED
    BY <1>1, <1>2, <1>4, <1>5, <1>6, <1>7

LEMMA SettledLeads ==
    ASSUME NEW r, NEW K, Family(K), NEW s, Fit(s, r, K)
    PROVE  /\ Leads(s, Settled(s), r, K)
           /\ Settled(s).me = s.me /\ Settled(s).chain = s.chain /\ Settled(s).salt = s.salt
           /\ Settled(s).pending = s.pending \ (RejectedRows(s) \cup ConfirmedRows(s))
<1>1. s \in RepT(r, K) /\ s.chain \in K /\ s.calls \in CallsT(K) /\ s.append \in BatchT(K)
      /\ s.me = r /\ s.salt \in Nat
    BY ChainFields
<1>2. PICK C, R : C = ConfirmedRows(s) /\ R = RejectedRows(s)
    OBVIOUS
<1>3. PICK res : res = [i \in DOMAIN s.res |-> IF i \in R THEN "rejected"
                                              ELSE IF i \in C THEN "confirmed" ELSE s.res[i]]
    OBVIOUS
<1>4. s.res \in [WritesOf(r) -> Outcomes] /\ s.pending \in Finite(WritesOf(r))
      /\ s.resurrected \in SUBSET WritesOf(r)
    BY <1>1 DEF RepT
<1>5. res \in [WritesOf(r) -> Outcomes]
    BY <1>3, <1>4 DEF Outcomes
<1>6. s.pending \ (R \cup C) \in Finite(WritesOf(r))
    <2>1. IsFiniteSet(s.pending) /\ s.pending \ (R \cup C) \in SUBSET s.pending
        BY <1>4 DEF Finite
    <2>2. IsFiniteSet(s.pending \ (R \cup C))
        BY <2>1, FS_Subset
    <2> QED
        BY <1>4, <2>2 DEF Finite
<1>7. PICK t : t = Settled(s)
    OBVIOUS
<1>8. t = [s EXCEPT !.pending = s.pending \ (R \cup C), !.res = res,
                    !.resurrected = s.resurrected \ R]
    BY <1>1, <1>2, <1>3, <1>7 DEF Settled, RepT
<1>9. t \in RepT(r, K)
    BY <1>1, <1>4, <1>5, <1>6, <1>8 DEF RepT
<1>10. /\ t.me = s.me /\ t.chain = s.chain /\ t.salt = s.salt /\ t.calls = s.calls
       /\ t.append = s.append /\ t.pending = s.pending \ (R \cup C) /\ t.res = res
       /\ t.resurrected = s.resurrected \ R
    BY <1>1, <1>8 DEF RepT
<1>11. R \subseteq s.pending /\ C \subseteq s.pending /\ s.pending \subseteq WritesOf(r)
    BY <1>1, <1>2, <1>4, RowSets DEF Finite
<1>12. ASSUME NEW i \in WritesOf(r)
       PROVE  /\ i \in R => res[i] = "rejected"
              /\ i \in C /\ i \notin R => res[i] = "confirmed"
              /\ i \notin R \cup C => res[i] = s.res[i]
    BY <1>3, <1>4
<1>13. Settles_(s, t)
    BY <1>1, <1>10, <1>11, <1>12 DEF Settles_
<1>14. Extends(s.calls, t.calls)
    BY <1>1, <1>10 DEF Extends, CallsT
<1>15. ASSUME NEW j \in DOMAIN t.calls PROVE Offer(t, K, t.calls[j].base, t.calls[j].items)
    <2>1. t.calls[j].items \in ItemsT
        BY <1>1, <1>10, CallFields
    <2> QED
        BY <1>1, <1>9, <1>10, <1>13, <2>1, OfferKept DEF Fit
<1>16. Offer(t, K, t.append.base, t.append.items)
    <2>1. t.append.items \in ItemsT
        BY <1>1, <1>10 DEF BatchT
    <2> QED
        BY <1>1, <1>9, <1>10, <1>13, <2>1, OfferKept DEF Fit
<1>17. ASSUME ~Rollback PROVE Truthful(t)
    <2>1. Truthful(s)
        BY <1>17 DEF Fit
    <2>2. t.resurrected = {}
        BY <1>10, <2>1 DEF Truthful
    <2>3. ASSUME NEW i \in WritesOf(r)
          PROVE  /\ t.res[i] = "confirmed" => <<r, i>> \in WritesIn(s.chain)
                 /\ t.res[i] = "rejected" =>
                     i \in Contended /\ \E w \in WritesIn(s.chain) : w[1] # r /\ w[2] = i
        <3>1. CASE i \in R
            BY <1>1, <1>2, <1>10, <1>12, <3>1 DEF RejectedRows, Rejected
        <3>2. CASE i \notin R /\ i \in C
            BY <1>1, <1>2, <1>10, <1>12, <3>2 DEF ConfirmedRows
        <3>3. CASE i \notin R \cup C
            BY <1>1, <1>10, <1>12, <2>1, <3>3 DEF Truthful
        <3> QED
            BY <3>1, <3>2, <3>3
    <2> QED
        BY <1>1, <1>10, <2>2, <2>3 DEF Truthful
<1>18. Leads(s, t, r, K)
    BY <1>9, <1>13, <1>14, <1>15, <1>16, <1>17 DEF Leads, Fit
<1> QED
    BY <1>2, <1>7, <1>10, <1>18

\* What send_batch seals is a plan.
LEMMA SealedPlanned ==
    ASSUME NEW r \in Replicas, NEW K, Family(K), NEW s, Fit(s, r, K), Clear(s, K)
    PROVE  Sealed(s) \in ItemsT /\ Planned(Settled(s), s.chain, Sealed(s))
<1>1. s \in RepT(r, K) /\ s.chain \in K /\ s.me = r /\ s.salt \in Nat /\ s.chain \in ItemsT
    BY ChainFields
<1>2. PICK C, R : C = ConfirmedRows(s) /\ R = RejectedRows(s)
    OBVIOUS
<1>3. PICK S : S = FirstRows(s) \ (C \cup R)
    OBVIOUS
<1>4. S \subseteq s.pending /\ s.pending \subseteq Nat /\ IsFiniteSet(S) /\ S \subseteq Nat
      /\ s.pending \subseteq WritesOf(r)
    <2>1. S \subseteq s.pending /\ s.pending \subseteq Nat /\ IsFiniteSet(s.pending)
        BY <1>1, <1>3, RowSets
    <2>2. IsFiniteSet(S)
        BY <2>1, FS_Subset
    <2> QED
        BY <1>1, <2>1, <2>2 DEF RepT, Finite
<1>5. PICK q : q = Ascending(S)
    OBVIOUS
<1>6. q \in [1..Cardinality(S) -> S] /\ Lists(q, S) /\ Cardinality(S) \in Nat
    BY <1>4, <1>5, AscendingLists
<1>7. PICK x : x = Sealed(s)
    OBVIOUS
<1>8. x = [n \in DOMAIN q |-> <<s.me, q[n], s.salt>>] /\ DOMAIN q = 1..Cardinality(S)
    BY <1>2, <1>3, <1>5, <1>6, <1>7 DEF Sealed
<1>9. ASSUME NEW n \in DOMAIN q
      PROVE  /\ x[n] = <<r, q[n], s.salt>> /\ x[n] \in ItemT /\ q[n] \in S
             /\ x[n][1] = r /\ x[n][2] = q[n] /\ x[n][3] = s.salt
    <2>1. x[n] = <<r, q[n], s.salt>> /\ q[n] \in S
        BY <1>1, <1>6, <1>8
    <2>2. q[n] \in WritesOf(r) /\ q[n] \in Nat
        BY <1>4, <2>1
    <2>3. <<r, q[n]>> \in Writes
        <3>1. PICK w \in Writes : w[1] = r /\ w[2] = q[n]
            BY <2>2 DEF WritesOf
        <3>2. w \in Replicas \X Nat
            BY ReplicaAssumption
        <3>3. w = <<w[1], w[2]>>
            BY <3>2
        <3> QED
            BY <3>1, <3>3
    <2>4. x[n] \in ItemT
        BY <1>1, <2>1, <2>2, <2>3 DEF ItemT, WriteOf
    <2> QED
        BY <2>1, <2>4
<1>10. x \in ItemsT /\ DOMAIN x = DOMAIN q
    <2>1. PICK k : k = Cardinality(S)
        OBVIOUS
    <2>2. x \in [1..k -> ItemT] /\ k \in Nat
        BY <1>6, <1>8, <1>9, <2>1
    <2>3. x \in Seq(ItemT)
        BY <2>2
    <2> QED
        BY <1>8, <2>3 DEF ItemsT
<1>11. PICK t : t = Settled(s)
    OBVIOUS
<1>12. t.me = r /\ t.salt = s.salt /\ t.pending = s.pending \ (R \cup C)
    BY <1>1, <1>2, <1>11, SettledLeads
<1>13. ASSUME NEW n \in DOMAIN x, ~Rollback
       PROVE  /\ x[n][2] \in t.pending
              /\ \A p \in DOMAIN s.chain : s.chain[p][1] = r => s.chain[p][2] < x[n][2]
              /\ \A p \in DOMAIN s.chain :
                     s.chain[p][2] = x[n][2] /\ s.chain[p][1] # r => s.chain[p][2] \notin Contended
              /\ \A m \in DOMAIN x : m < n => x[m][2] < x[n][2]
              /\ \A j \in t.pending : j < x[n][2] => \E m \in DOMAIN x : m < n /\ x[m][2] = j
    <2>1. n \in DOMAIN q /\ x[n][2] = q[n] /\ q[n] \in S /\ q[n] \in Nat
        BY <1>4, <1>9, <1>10
    <2>2. q[n] \in s.pending /\ q[n] \notin C /\ q[n] \notin R /\ q[n] \in FirstRows(s)
        BY <1>3, <1>4, <2>1
    <2>3. ASSUME NEW p \in DOMAIN s.chain, s.chain[p][1] = r PROVE s.chain[p][2] < q[n]
        <3>1. s.chain[p] \in ItemT
            BY <1>1 DEF ItemsT
        <3>2. s.chain[p][2] \in Nat
            BY <3>1, ItemFields
        <3>3. <<r, q[n]>> \notin WritesIn(s.chain)
            BY <1>1, <1>2, <2>2 DEF ConfirmedRows
        <3>4. ~(q[n] < s.chain[p][2])
            <4> SUFFICES ASSUME q[n] < s.chain[p][2] PROVE FALSE
                OBVIOUS
            <4>1. \E p_1 \in DOMAIN s.chain : WriteOf(s.chain[p_1]) = <<r, q[n]>>
                BY <1>1, <1>13, <2>2, <2>3 DEF Clear
            <4> QED
                BY <3>3, <4>1 DEF WritesIn
        <3>5. q[n] # s.chain[p][2]
            BY <2>3, <3>3 DEF WritesIn, WriteOf
        <3> QED
            BY <2>1, <3>2, <3>4, <3>5
    <2>4. ASSUME NEW p \in DOMAIN s.chain, s.chain[p][2] = q[n], s.chain[p][1] # r
          PROVE  s.chain[p][2] \notin Contended
        <3> SUFFICES ASSUME q[n] \in Contended PROVE FALSE
            BY <2>4
        <3>1. s.resurrected = {}
            BY <1>13 DEF Fit, Truthful
        <3>2. PICK w : w = WriteOf(s.chain[p])
            OBVIOUS
        <3>3. w \in WritesIn(s.chain) /\ w[1] # s.me /\ w[2] = q[n]
            BY <1>1, <2>4, <3>2 DEF WritesIn, WriteOf
        <3>4. Rejected(s, s.chain, q[n])
            BY <3>1, <3>3 DEF Rejected
        <3>5. q[n] \in RejectedRows(s)
            BY <1>2, <2>2, <3>4 DEF RejectedRows
        <3> QED
            BY <1>2, <2>2, <3>5
    <2>5. ASSUME NEW m \in DOMAIN x, m < n PROVE x[m][2] < x[n][2]
        BY <1>9, <1>10, <2>1, <2>5, <1>6 DEF Lists
    <2>6. ASSUME NEW j \in t.pending, j < x[n][2] PROVE \E m \in DOMAIN x : m < n /\ x[m][2] = j
        <3>1. j \in s.pending /\ j \notin R /\ j \notin C /\ j \in Nat
            BY <1>4, <1>12, <2>6
        <3>2. j \in FirstRows(s)
            BY <1>1, <2>1, <2>2, <2>6, <3>1, RowSets
        <3>3. j \in S
            BY <1>3, <3>1, <3>2
        <3>4. PICK m \in DOMAIN q : q[m] = j
            BY <1>6, <3>3 DEF Lists, Range
        <3>5. x[m][2] = j
            BY <1>9, <3>4
        <3>6. m \in Nat /\ n \in Nat
            BY <1>6, <1>8, <2>1, <3>4
        <3>7. ~(n < m) /\ n # m
            BY <1>6, <2>1, <2>6, <3>1, <3>4 DEF Lists
        <3> QED
            BY <1>10, <3>4, <3>5, <3>6, <3>7
    <2>7. q[n] \in t.pending
        BY <1>12, <2>2
    <2> QED
        BY <2>1, <2>3, <2>4, <2>5, <2>6, <2>7
<1>14. Planned(t, s.chain, x)
    <2>1. \A n \in DOMAIN x : x[n][1] = t.me /\ x[n][3] <= t.salt
        BY <1>1, <1>9, <1>10, <1>12
    <2> QED
        BY <1>12, <1>13, <2>1 DEF Planned
<1> QED
    BY <1>7, <1>10, <1>11, <1>14

LEMMA SendBatchLeads ==
    ASSUME NEW r \in Replicas, NEW K, Family(K), NEW s, Fit(s, r, K), Clear(s, K)
    PROVE  Leads(s, SendBatch(s), r, K)
<1>1. s.chain \in K
    BY ChainFields
<1>2. PICK t, x : t = Settled(s) /\ x = Sealed(s)
    OBVIOUS
<1>3. Leads(s, t, r, K)
    BY <1>2, SettledLeads
<1>4. x \in ItemsT /\ Offer(t, K, s.chain, x)
    BY <1>2, SealedPlanned DEF Offer
<1>5. Leads(t, SendAppend(t, s.chain, x), r, K)
    BY <1>1, <1>3, <1>4, SendAppendLeads DEF Leads
<1>6. SendBatch(s) \in {t, SendAppend(t, s.chain, x)}
    BY <1>2 DEF SendBatch
<1> QED
    BY <1>3, <1>5, <1>6, LeadsOn

LEMMA ClearKept ==
    ASSUME NEW r, NEW K, NEW s, NEW t, Settles_(s, t), Clear(s, K)
    PROVE  Clear(t, K)
BY DEF Settles_, Clear

LEMMA PumpLeads ==
    ASSUME NEW r \in Replicas, NEW K, Family(K), NEW s, Fit(s, r, K), Clear(s, K)
    PROVE  Leads(s, Pump(s), r, K)
<1>1. Pump(s) \in {RepairStep(s), RequestRead(s), SendBatch(s), s}
    BY DEF Pump
<1> QED
    BY <1>1, RepairStepLeads, RequestReadLeads, SendBatchLeads, LeadsSelf

\* A handler, and the pump after it.
LEMMA ThenPump ==
    ASSUME NEW r \in Replicas, NEW K, Family(K), NEW s, Fit(s, r, K), Clear(s, K),
           NEW t, Leads(s, t, r, K)
    PROVE  Leads(s, Pump(t), r, K)
<1>1. Fit(t, r, K) /\ Clear(t, K)
    BY ClearKept DEF Leads
<1>2. Leads(t, Pump(t), r, K)
    BY <1>1, PumpLeads
<1> QED
    BY <1>2, LeadsOn

-----------------------------------------------------------------------------
(***************************************************************************)
(* The apply path.                                                         *)
(***************************************************************************)
\* The chain with one item more.
Longer(c, a) == Append(c, a)

LEMMA ApplyOneLeads ==
    ASSUME NEW r, NEW K, Family(K), NEW s, Fit(s, r, K), NEW a \in ItemT,
           Longer(s.chain, a) \in K
    PROVE  /\ Leads(s, ApplyOne(s, a), r, K)
           /\ ApplyOne(s, a).chain = Longer(s.chain, a)
           /\ ApplyOne(s, a).calls = s.calls
           /\ ApplyOne(s, a).repair = s.repair
<1> USE DEF Longer
<1>1. s \in RepT(r, K) /\ s.chain \in K /\ s.chain \in ItemsT /\ s.me = r /\ s.salt \in Nat
      /\ s.calls \in CallsT(K) /\ s.append \in BatchT(K)
    BY ChainFields
<1>2. PICK chain : chain = Append(s.chain, a)
    OBVIOUS
<1>3. PICK p : p = Len(chain)
    OBVIOUS
<1>4. PICK mine : mine = IF a[1] = s.me /\ a[2] \in s.pending THEN {a[2]} ELSE {}
    OBVIOUS
<1>5. PICK rows : rows = {c \in s.tail : Len(c) # p} \cup {chain}
    OBVIOUS
<1>6. PICK floor : floor = RetainedFloor(rows, p)
    OBVIOUS
<1>7. PICK tail : tail = {c \in rows : Len(c) >= floor}
    OBVIOUS
<1>8. PICK own : own = {o \in s.own \cup {<<p, i>> : i \in mine} : o[1] >= floor}
    OBVIOUS
<1>9. PICK res : res = [i \in DOMAIN s.res |-> IF i \in mine THEN "confirmed" ELSE s.res[i]]
    OBVIOUS
<1>10. /\ s.res \in [WritesOf(r) -> Outcomes] /\ s.pending \in Finite(WritesOf(r))
       /\ s.resurrected \in SUBSET WritesOf(r) /\ s.tail \in SUBSET K
       /\ s.own \in Finite(Nat \X WritesOf(r))
    BY <1>1 DEF RepT
<1>11. mine \subseteq s.pending /\ s.pending \subseteq WritesOf(r)
    BY <1>4, <1>10 DEF Finite
<1>12. res \in [WritesOf(r) -> Outcomes]
    BY <1>9, <1>10 DEF Outcomes
<1>13. s.pending \ mine \in Finite(WritesOf(r))
    <2>1. IsFiniteSet(s.pending) /\ s.pending \ mine \in SUBSET s.pending
        BY <1>10 DEF Finite
    <2>2. IsFiniteSet(s.pending \ mine)
        BY <2>1, FS_Subset
    <2> QED
        BY <1>10, <2>2 DEF Finite
<1>14. p \in Nat /\ chain \in K /\ tail \in SUBSET K
    <2>1. chain \in ItemsT
        BY <1>1, <1>2 DEF ItemsT
    <2>2. p \in Nat
        BY <1>3, <2>1 DEF ItemsT
    <2> QED
        BY <1>2, <1>5, <1>7, <1>10, <2>2
<1>15. own \in Finite(Nat \X WritesOf(r))
    <2>1. PICK more : more = {<<p, i>> : i \in mine}
        OBVIOUS
    <2>2. IsFiniteSet(more) /\ more \subseteq Nat \X WritesOf(r)
        <3>1. CASE mine = {}
            BY <2>1, <3>1, FS_EmptySet
        <3>2. CASE mine = {a[2]}
            <4>1. more = {<<p, a[2]>>}
                BY <2>1, <3>2
            <4>2. IsFiniteSet(more)
                BY <4>1, FS_Singleton
            <4> QED
                BY <1>11, <1>14, <2>1, <4>2
        <3> QED
            BY <1>4, <3>1, <3>2
    <2>3. IsFiniteSet(s.own \cup more)
        BY <1>10, <2>2, FS_Union DEF Finite
    <2>4. own \in SUBSET (s.own \cup more)
        BY <1>8, <2>1
    <2>5. IsFiniteSet(own)
        BY <2>3, <2>4, FS_Subset
    <2> QED
        BY <1>10, <2>2, <2>4, <2>5 DEF Finite
<1>16. PICK t : t = ApplyOne(s, a)
    OBVIOUS
<1>17. t = [s EXCEPT !.chain = chain, !.tail = tail, !.own = own,
                     !.pending = s.pending \ mine, !.resurrected = s.resurrected \ mine,
                     !.res = res]
    BY <1>1, <1>2, <1>3, <1>4, <1>5, <1>6, <1>7, <1>8, <1>9, <1>16 DEF ApplyOne, RepT
<1>18. t \in RepT(r, K)
    BY <1>1, <1>10, <1>12, <1>13, <1>14, <1>15, <1>17 DEF RepT
<1>19. /\ t.me = s.me /\ t.salt = s.salt /\ t.calls = s.calls /\ t.append = s.append
       /\ t.pending = s.pending \ mine /\ t.res = res /\ t.resurrected = s.resurrected \ mine
       /\ t.chain = chain /\ t.repair = s.repair
    BY <1>1, <1>17 DEF RepT
<1>20. ASSUME NEW i \in WritesOf(r)
       PROVE  /\ i \in mine => res[i] = "confirmed"
              /\ i \notin mine => res[i] = s.res[i]
    BY <1>9, <1>10
<1>21. Settles_(s, t)
    BY <1>1, <1>11, <1>19, <1>20 DEF Settles_
<1>22. Extends(s.calls, t.calls)
    BY <1>1, <1>19 DEF Extends, CallsT
<1>23. ASSUME NEW j \in DOMAIN t.calls PROVE Offer(t, K, t.calls[j].base, t.calls[j].items)
    <2>1. t.calls[j].items \in ItemsT
        BY <1>1, <1>19, CallFields
    <2> QED
        BY <1>1, <1>18, <1>19, <1>21, <2>1, OfferKept DEF Fit
<1>24. Offer(t, K, t.append.base, t.append.items)
    <2>1. t.append.items \in ItemsT
        BY <1>1, <1>19 DEF BatchT
    <2> QED
        BY <1>1, <1>18, <1>19, <1>21, <2>1, OfferKept DEF Fit
<1>25. ASSUME ~Rollback PROVE Truthful(t)
    <2>1. Truthful(s)
        BY <1>25 DEF Fit
    <2>2. t.resurrected = {}
        BY <1>19, <2>1 DEF Truthful
    <2>3. WritesIn(chain) = WritesIn(s.chain) \cup {WriteOf(a)}
        <3>1. DOMAIN chain = DOMAIN s.chain \cup {p} /\ chain[p] = a
              /\ \A j \in DOMAIN s.chain : chain[j] = s.chain[j]
            BY <1>1, <1>2, <1>3 DEF ItemsT
        <3> QED
            BY <3>1 DEF WritesIn
    <2>4. ASSUME NEW i \in WritesOf(r)
          PROVE  /\ t.res[i] = "confirmed" => <<r, i>> \in WritesIn(chain)
                 /\ t.res[i] = "rejected" =>
                     i \in Contended /\ \E w \in WritesIn(chain) : w[1] # r /\ w[2] = i
        <3>1. CASE i \in mine
            <4>1. WriteOf(a) = <<r, i>>
                BY <1>1, <1>4, <3>1 DEF WriteOf
            <4> QED
                BY <1>19, <1>20, <2>3, <3>1, <4>1
        <3>2. CASE i \notin mine
            BY <1>1, <1>19, <1>20, <2>1, <2>3, <3>2 DEF Truthful
        <3> QED
            BY <3>1, <3>2
    <2> QED
        BY <1>1, <1>19, <2>2, <2>4 DEF Truthful
<1>26. Leads(s, t, r, K)
    BY <1>18, <1>21, <1>22, <1>23, <1>24, <1>25 DEF Leads, Fit
<1> QED
    BY <1>2, <1>16, <1>19, <1>26

LEMMA PrefixGrows ==
    ASSUME NEW K, Family(K), NEW c \in K, NEW n \in 1..Len(c)
    PROVE  /\ Prefix(c, n) = Longer(Prefix(c, n - 1), c[n])
           /\ Prefix(c, n) \in K /\ c[n] \in ItemT
<1>1. c \in Seq(ItemT) /\ Len(c) \in Nat /\ c[n] \in ItemT
    BY DEF Family, ItemsT
<1>2. 1 \in 1..Len(c) /\ n \in 1..Len(c) /\ n \in 0..Len(c)
    BY <1>1
<1>3. SubSeq(c, 1, n) = SubSeq(c, 1, n - 1) \o <<c[n]>>
    BY <1>1, <1>2, SubSeqRecursiveSecond
<1>4. SubSeq(c, 1, n - 1) \in Seq(ItemT)
    BY <1>1, SubSeqProperties
<1>5. SubSeq(c, 1, n - 1) \o <<c[n]>> = Append(SubSeq(c, 1, n - 1), c[n])
    BY <1>1, <1>4, AppendIsConcat
<1>6. Prefix(c, n) \in K
    BY <1>2 DEF Family
<1> QED
    BY <1>1, <1>3, <1>5, <1>6 DEF Prefix, Longer

LEMMA ApplyNext ==
    ASSUME NEW r, NEW K, Family(K), NEW c \in K, NEW m \in 1..Len(c), NEW s, Fit(s, r, K)
    PROVE  s.chain = Prefix(c, m - 1) =>
           /\ Leads(s, ApplyOne(s, c[m]), r, K)
           /\ ApplyOne(s, c[m]).chain = Prefix(c, m)
           /\ ApplyOne(s, c[m]).calls = s.calls
           /\ ApplyOne(s, c[m]).repair = s.repair
<1>1. PICK a : a = c[m]
    OBVIOUS
<1>2. a \in ItemT
    BY <1>1, PrefixGrows
<1>3. s.chain = Prefix(c, m - 1) =>
          Longer(s.chain, a) = Prefix(c, m) /\ Longer(s.chain, a) \in K
    BY <1>1, PrefixGrows
<1>4. Longer(s.chain, a) \in K =>
      /\ Leads(s, ApplyOne(s, a), r, K)
      /\ ApplyOne(s, a).chain = Longer(s.chain, a)
      /\ ApplyOne(s, a).calls = s.calls
      /\ ApplyOne(s, a).repair = s.repair
    BY <1>2, ApplyOneLeads
<1> QED
    BY <1>1, <1>3, <1>4

\* s has applied n more items of c.
After(s, r, K, c, n) ==
    {t \in RepT(r, K) : /\ Leads(s, t, r, K) /\ t.chain = Prefix(c, Len(s.chain) + n)
                        /\ t.calls = s.calls /\ t.repair = s.repair}

LEMMA AppliedStep ==
    ASSUME NEW r, NEW K, Family(K), NEW s, Fit(s, r, K), NEW c \in K, NEW n \in Nat \ {0},
           Len(s.chain) + n <= Len(c), NEW t \in After(s, r, K, c, n - 1)
    PROVE  ApplyOne(t, c[Len(s.chain) + n]) \in After(s, r, K, c, n)
<1>1. Len(s.chain) \in Nat /\ Len(c) \in Nat
    <2>1. s.chain \in ItemsT
        BY ChainFields
    <2>2. c \in ItemsT
        BY DEF Family
    <2> QED
        BY <2>1, <2>2 DEF ItemsT
<1>2. PICK m : m = Len(s.chain) + n
    OBVIOUS
<1>3. m \in 1..Len(c) /\ m - 1 = Len(s.chain) + (n - 1)
    BY <1>1, <1>2
<1>4. /\ Fit(t, r, K) /\ t.chain = Prefix(c, m - 1) /\ t.calls = s.calls /\ t.repair = s.repair
      /\ Leads(s, t, r, K)
    <2>1. /\ t.chain = Prefix(c, Len(s.chain) + (n - 1)) /\ t.calls = s.calls
          /\ t.repair = s.repair /\ Leads(s, t, r, K)
        BY DEF After
    <2>2. Fit(t, r, K)
        BY <2>1 DEF Leads
    <2> QED
        BY <1>3, <2>1, <2>2
<1>6. PICK u : u = ApplyOne(t, c[m])
    OBVIOUS
<1>7. Leads(t, u, r, K) /\ u.chain = Prefix(c, m) /\ u.calls = t.calls /\ u.repair = t.repair
    <2>1. Fit(t, r, K) /\ t.chain = Prefix(c, m - 1) /\ m \in 1..Len(c)
        BY <1>3, <1>4
    <2> QED
        BY <1>6, <2>1, ApplyNext
<1>8. Leads(s, u, r, K)
    BY <1>4, <1>7, LeadsOn
<1>9. u \in RepT(r, K)
    BY <1>7 DEF Leads, Fit
<1> QED
    BY <1>2, <1>4, <1>6, <1>7, <1>8, <1>9 DEF After

LEMMA AppliedLeads ==
    ASSUME NEW r, NEW K, Family(K), NEW s, Fit(s, r, K), NEW c \in K,
           IsPrefix(s.chain, c), NEW b \in Nat, Len(s.chain) <= b, b <= Len(c)
    PROVE  LET t == Applied(s, SubSeq(c, Len(s.chain) + 1, b)) IN
           /\ Leads(s, t, r, K) /\ t.chain = Prefix(c, b)
           /\ t.calls = s.calls /\ t.repair = s.repair
<1>1. Len(s.chain) \in Nat /\ Len(c) \in Nat /\ s.chain \in ItemsT /\ c \in ItemsT
      /\ s \in RepT(r, K)
    <2>1. s.chain \in ItemsT /\ s \in RepT(r, K)
        BY ChainFields
    <2>2. c \in ItemsT
        BY DEF Family
    <2> QED
        BY <2>1, <2>2 DEF ItemsT
<1>2. PICK h, k : h = Len(s.chain) /\ k = b - Len(s.chain)
    OBVIOUS
<1>3. h \in Nat /\ k \in Nat /\ h + k = b
    BY <1>1, <1>2
<1>4. PICK items : items = SubSeq(c, h + 1, b)
    OBVIOUS
<1>5. Len(items) = k /\ \A n \in 1..k : items[n] = c[h + n]
    <2>1. \A i \in (h+1)..b : c[i] \in ItemT
        BY <1>1, <1>3 DEF ItemsT
    <2>2. /\ Len(items) = IF h + 1 <= b THEN b - (h + 1) + 1 ELSE 0
          /\ \A i \in 1..(b - (h + 1) + 1) : items[i] = c[h + 1 + i - 1]
        BY <1>3, <1>4, <2>1, SubSeqProperties
    <2> QED
        BY <1>3, <2>2
<1> DEFINE S == [n \in 0..k |-> After(s, r, K, c, n)]
           g == [n \in 1..k |-> [t \in After(s, r, K, c, n - 1) |-> ApplyOne(t, items[n])]]
<1>6. s \in S[0]
    <2>1. Prefix(c, h) = s.chain
        <3>1. SubSeq(s.chain, 1, Len(s.chain)) = s.chain
            BY <1>1, SubSeqFull DEF ItemsT
        <3> QED
            BY <1>2, <3>1 DEF IsPrefix, Prefix
    <2>2. s \in After(s, r, K, c, 0)
        BY <1>1, <1>2, <1>3, <2>1, LeadsSelf DEF After
    <2> QED
        BY <1>3, <2>2
<1>7. \A n \in 1..k : g[n] \in [S[n-1] -> S[n]]
    <2> SUFFICES ASSUME NEW n \in 1..k PROVE g[n] \in [S[n-1] -> S[n]]
        OBVIOUS
    <2>1. S[n-1] = After(s, r, K, c, n - 1) /\ S[n] = After(s, r, K, c, n) /\ n - 1 \in 0..k
        BY <1>3
    <2>2. ASSUME NEW t \in After(s, r, K, c, n - 1) PROVE ApplyOne(t, items[n]) \in After(s, r, K, c, n)
        <3>1. n \in Nat \ {0} /\ h + n <= Len(c)
            BY <1>1, <1>3
        <3>2. items[n] = c[h + n]
            BY <1>5
        <3> HIDE DEF S, g
        <3>3. n \in Nat \ {0} /\ Len(s.chain) + n <= Len(c) /\ items[n] = c[Len(s.chain) + n]
            BY <1>2, <3>1, <3>2
        <3> QED
            BY <3>3, AppliedStep
    <2> HIDE DEF S
    <2>3. g[n] = [t \in After(s, r, K, c, n - 1) |-> ApplyOne(t, items[n])]
        OBVIOUS
    <2> QED
        BY <2>1, <2>2, <2>3
<1>8. S \in [0..k -> SUBSET RepT(r, K)]
    BY DEF After
<1>9. PICK e \in [0..k -> RepT(r, K)] : Iterates(e, k, s, g) /\ \A n \in 0..k : e[n] \in S[n]
    <2> HIDE DEF S, g
    <2> QED
        BY <1>3, <1>6, <1>7, <1>8, IterationExists
<1>10. e = [n \in 0..k |-> IF n = 0 THEN s ELSE ApplyOne(e[n-1], items[n])]
    <2>1. \A n \in 1..k : n - 1 \in 0..k /\ e[n-1] \in After(s, r, K, c, n - 1)
        BY <1>3, <1>9
    <2>2. \A n \in 1..k : e[n] = ApplyOne(e[n-1], items[n])
        BY <1>9, <2>1 DEF Iterates
    <2>3. e[0] = s
        BY <1>9 DEF Iterates
    <2> QED
        BY <1>3, <1>9, <2>2, <2>3
<1> DEFINE f == CHOOSE f : f = [n \in 0..Len(items) |->
                                    IF n = 0 THEN s ELSE ApplyOne(f[n-1], items[n])]
<1>11. f = [n \in 0..k |-> IF n = 0 THEN s ELSE ApplyOne(f[n-1], items[n])]
    BY <1>5, <1>10
<1>12. f[0] = s /\ \A n \in 1..k : f[n] = ApplyOne(f[n-1], items[n])
    <2> HIDE DEF f
    <2> QED
        BY <1>3, <1>11
<1>13. Applied(s, items) = f[k]
    BY <1>5 DEF Applied
<1> HIDE DEF f
<1> DEFINE P == {n \in 0..k : f[n] \in After(s, r, K, c, n)}
<1>14. P = 0..k
    <2>1. 0 \in P /\ P \in SUBSET (0..k)
        BY <1>3, <1>6, <1>12
    <2>2. ASSUME NEW n \in 1..k, n - 1 \in P PROVE n \in P
        <3>1. n \in Nat \ {0} /\ Len(s.chain) + n <= Len(c) /\ items[n] = c[Len(s.chain) + n]
            BY <1>1, <1>2, <1>3, <1>5
        <3>2. f[n-1] \in After(s, r, K, c, n - 1)
            BY <2>2
        <3>3. f[n] \in After(s, r, K, c, n)
            BY <1>12, <3>1, <3>2, AppliedStep
        <3> QED
            BY <3>3
    <2> HIDE DEF P
    <2> QED
        BY <1>3, <2>1, <2>2, Climb
<1>15. f[k] \in After(s, r, K, c, k)
    BY <1>3, <1>14
<1> HIDE DEF P, S, g
<1>16. PICK t : t = Applied(s, items)
    OBVIOUS
<1>17. Leads(s, t, r, K) /\ t.chain = Prefix(c, b) /\ t.calls = s.calls /\ t.repair = s.repair
    BY <1>2, <1>3, <1>13, <1>15, <1>16 DEF After
<1> QED
    BY <1>2, <1>4, <1>16, <1>17

LEMMA ApplyItemsLeads ==
    ASSUME NEW r, NEW K, Family(K), NEW s, Fit(s, r, K), NEW c \in K, NEW a \in Nat,
           NEW b \in Nat, b < a \/ b <= Len(c)
    PROVE  Leads(s, ApplyItems(s, c, a, b), r, K)
<1>1. s \in RepT(r, K) /\ Head_(s) \in Nat /\ s.known \in Nat /\ s.chain \in ItemsT
    BY ChainFields
<1>2. PICK h : h = Head_(s)
    OBVIOUS
<1>3. PICK t : t = ApplyItems(s, c, a, b)
    OBVIOUS
<1>4. PICK done : done = Applied(s, SubSeq(c, h + 1, b))
    OBVIOUS
<1>5. t = IF b < a \/ b <= h THEN s
          ELSE IF a > h + 1 THEN [s EXCEPT !.known = Max({@, a}), !.caught_up = FALSE]
          ELSE IF ~IsPrefix(s.chain, c) THEN OnLostTail(s, Max({s.known, h + 1}), FALSE)
          ELSE [done EXCEPT !.known = Max({@, b})]
    BY <1>2, <1>3, <1>4 DEF ApplyItems
<1>6. CASE b < a \/ b <= h
    BY <1>3, <1>5, <1>6, LeadsSelf
<1>7. CASE ~(b < a \/ b <= h) /\ a > h + 1
    <2>1. PICK u : u = [s EXCEPT !.known = Max({@, a})]
        OBVIOUS
    <2>2. Leads(s, u, r, K)
        BY <2>1, KnownLeads
    <2>3. Fit(u, r, K)
        BY <2>2 DEF Leads
    <2>4. PICK v : v = [u EXCEPT !.caught_up = FALSE]
        OBVIOUS
    <2>5. Leads(u, v, r, K)
        BY <2>3, <2>4, CaughtUpLeads
    <2>6. t = v
        BY <1>1, <1>5, <1>7, <2>1, <2>4 DEF RepT
    <2> QED
        BY <1>3, <2>2, <2>5, <2>6, LeadsOn
<1>8. CASE ~(b < a \/ b <= h) /\ ~(a > h + 1) /\ ~IsPrefix(s.chain, c)
    <2>1. h \in Nat /\ h + 1 \in Nat
        BY <1>1, <1>2
    <2>2. PICK x : x = Max({s.known, h + 1})
        OBVIOUS
    <2>3. x \in Nat
        BY <1>1, <2>1, <2>2, NatPair
    <2>4. Leads(s, OnLostTail(s, x, FALSE), r, K)
        BY <2>3, OnLostTailLeads
    <2> QED
        BY <1>3, <1>5, <1>8, <2>2, <2>4
<1>9. CASE ~(b < a \/ b <= h) /\ ~(a > h + 1) /\ IsPrefix(s.chain, c)
    <2>1. h = Len(s.chain) /\ h <= b /\ b <= Len(c)
        BY <1>1, <1>2, <1>9 DEF Head_
    <2>2. Leads(s, done, r, K)
        BY <1>4, <1>9, <2>1, AppliedLeads
    <2>3. Fit(done, r, K)
        BY <2>2 DEF Leads
    <2>4. PICK u : u = [done EXCEPT !.known = Max({@, b})]
        OBVIOUS
    <2>5. Leads(done, u, r, K)
        BY <2>3, <2>4, KnownLeads
    <2>6. t = u
        BY <1>5, <1>9, <2>4
    <2> QED
        BY <1>3, <2>2, <2>5, <2>6, LeadsOn
<1> QED
    BY <1>6, <1>7, <1>8, <1>9

LEMMA OnAppendLeads ==
    ASSUME NEW r, NEW K, Family(K), NEW s, Fit(s, r, K), NEW c \in CallT(K)
    PROVE  Leads(s, OnAppend(s, c), r, K)
<1>1. s \in RepT(r, K) /\ Head_(s) \in Nat /\ s.streak \in Nat /\ s.append \in BatchT(K)
    BY ChainFields
<1>2. /\ c.ans.log \in K /\ Len(c.ans.log) \in Nat /\ Len(c.base) \in Nat /\ c.cur \in BOOLEAN
    BY AnsFields
<1>3. PICK h, s1 : h = Len(c.ans.log) /\ s1 = [s EXCEPT !.known = Max({@, h})]
    OBVIOUS
<1>4. h \in Nat /\ Leads(s, s1, r, K)
    <2>1. h \in Nat
        BY <1>2, <1>3
    <2> QED
        BY <1>3, <2>1, KnownLeads
<1>5. Fit(s1, r, K)
    BY <1>4 DEF Leads
<1>6. s1 \in RepT(r, K)
    BY <1>5 DEF Fit
<1>7. PICK st : st = IF s.streak + 1 >= BackoffAfter THEN "wait" ELSE "idle"
    OBVIOUS
<1>8. st \in {"idle", "flight", "retry", "wait"}
    BY <1>7
<1>9. PICK g : g = GiveUp(s1, st)
    OBVIOUS
<1>10. Leads(s1, g, r, K)
    BY <1>5, <1>8, <1>9, GiveUpLeads
<1>11. Fit(g, r, K) /\ g \in RepT(r, K)
    BY <1>10 DEF Leads, Fit
<1>12. PICK moved : moved = [g EXCEPT !.streak = s.streak + 1, !.caught_up = FALSE]
    OBVIOUS
<1>13. Leads(g, moved, r, K)
    <2>1. s.streak + 1 \in Nat
        BY <1>1
    <2>2. moved \in RepT(r, K)
        BY <1>11, <1>12, <2>1 DEF RepT
    <2>3. /\ moved.chain = g.chain /\ moved.pending = g.pending /\ moved.res = g.res
          /\ moved.resurrected = g.resurrected /\ moved.salt = g.salt /\ moved.calls = g.calls
          /\ moved.append = g.append
        BY <1>11, <1>12 DEF RepT
    <2> QED
        BY <1>11, <2>2, <2>3, Tweak
<1>14. Leads(s, moved, r, K) /\ Fit(moved, r, K)
    <2>1. Leads(s, g, r, K)
        BY <1>4, <1>10, LeadsOn
    <2> QED
        BY <1>13, <2>1, LeadsOn DEF Leads
<1>15. PICK u : u = [s1 EXCEPT !.caught_up = FALSE]
    OBVIOUS
<1>16. Leads(s, u, r, K) /\ Fit(u, r, K)
    <2>1. Leads(s1, u, r, K)
        BY <1>5, <1>15, CaughtUpLeads
    <2> QED
        BY <1>4, <2>1, LeadsOn DEF Leads
<1>17. PICK v : v = [s1 EXCEPT !.append = NoBatch, !.streak = 0]
    OBVIOUS
<1>18. Leads(s, v, r, K) /\ Fit(v, r, K)
    <2>1. NoBatch \in BatchT(K) /\ NoBatch.items = << >>
        BY NoBatchT
    <2>2. v \in RepT(r, K)
        BY <1>6, <1>17, <2>1 DEF RepT
    <2>3. /\ v.chain = s1.chain /\ v.pending = s1.pending /\ v.res = s1.res
          /\ v.resurrected = s1.resurrected /\ v.salt = s1.salt /\ v.calls = s1.calls
          /\ v.append = NoBatch
        BY <1>6, <1>17 DEF RepT
    <2>4. Offer(s1, K, v.append.base, v.append.items)
        BY <2>1, <2>3, NoItems
    <2>5. s1.salt <= v.salt
        <3>1. s1.salt \in Nat
            BY <1>5, ChainFields
        <3> QED
            BY <2>3, <3>1
    <2>6. Leads(s1, v, r, K)
        BY <1>5, <2>2, <2>3, <2>4, <2>5, Drop
    <2> QED
        BY <1>4, <2>6, LeadsOn DEF Leads
<1>19. PICK w : w = [s EXCEPT !.append.st = "retry"]
    OBVIOUS
<1>20. Leads(s, w, r, K)
    <2>1. w = [s EXCEPT !.append = [s.append EXCEPT !.st = "retry"]]
        BY <1>1, <1>19 DEF RepT
    <2>2. PICK d : d = [s.append EXCEPT !.st = "retry"]
        OBVIOUS
    <2>3. d \in BatchT(K) /\ d.base = s.append.base /\ d.items = s.append.items
        BY <1>1, <2>2 DEF BatchT
    <2>4. w = [s EXCEPT !.append = d]
        BY <2>1, <2>2
    <2>5. w \in RepT(r, K)
        BY <1>1, <2>3, <2>4 DEF RepT
    <2>6. /\ w.chain = s.chain /\ w.pending = s.pending /\ w.res = s.res
          /\ w.resurrected = s.resurrected /\ w.salt = s.salt /\ w.calls = s.calls
          /\ w.append = d
        BY <1>1, <2>4 DEF RepT
    <2>7. Offer(s, K, w.append.base, w.append.items)
        BY <2>3, <2>6 DEF Fit
    <2>8. s.salt <= w.salt
        <3>1. s.salt \in Nat
            BY ChainFields
        <3> QED
            BY <2>6, <3>1
    <2> QED
        BY <2>5, <2>6, <2>7, <2>8, Drop
<1>21. PICK x : x = Len(c.base) + 1
    OBVIOUS
<1>22. OnAppend(s, c) \in {s, s1, w, RequestRead(u), ApplyItems(v, c.ans.log, x, h),
                           OnLostTail(moved, h, TRUE), RequestRead(moved)}
    BY <1>2, <1>3, <1>7, <1>9, <1>12, <1>15, <1>17, <1>19, <1>21 DEF OnAppend
<1>23. Leads(s, RequestRead(u), r, K) /\ Leads(s, RequestRead(moved), r, K)
    <2>1. Leads(u, RequestRead(u), r, K) /\ Leads(moved, RequestRead(moved), r, K)
        BY <1>14, <1>16, RequestReadLeads
    <2> QED
        BY <1>14, <1>16, <2>1, LeadsOn
<1>24. Leads(s, OnLostTail(moved, h, TRUE), r, K)
    <2>1. Leads(moved, OnLostTail(moved, h, TRUE), r, K)
        BY <1>4, <1>14, OnLostTailLeads
    <2> QED
        BY <1>14, <2>1, LeadsOn
<1>25. Leads(s, ApplyItems(v, c.ans.log, x, h), r, K)
    <2>1. x \in Nat /\ h <= Len(c.ans.log)
        BY <1>2, <1>3, <1>21
    <2>2. Leads(v, ApplyItems(v, c.ans.log, x, h), r, K)
        BY <1>2, <1>4, <1>18, <2>1, ApplyItemsLeads
    <2> QED
        BY <1>18, <2>2, LeadsOn
<1>26. Leads(s, s, r, K)
    BY LeadsSelf
<1> QED
    BY <1>4, <1>20, <1>22, <1>23, <1>24, <1>25, <1>26

LEMMA OnReadLeads ==
    ASSUME NEW r, NEW K, Family(K), NEW s0, Fit(s0, r, K), NEW c \in CallT(K)
    PROVE  Leads(s0, OnRead(s0, c), r, K)
<1>1. s0 \in RepT(r, K)
    BY ChainFields
<1>2. /\ c.ans.log \in K /\ Len(c.ans.log) \in Nat /\ Len(c.base) \in Nat /\ c.ans.upto \in Nat
      /\ PageOK(c)
    BY AnsFields
<1>3. PICK s : s = [s0 EXCEPT !.reading = FALSE]
    OBVIOUS
<1>4. Leads(s0, s, r, K)
    <2>1. s \in RepT(r, K)
        BY <1>1, <1>3 DEF RepT
    <2>2. /\ s.chain = s0.chain /\ s.pending = s0.pending /\ s.res = s0.res
          /\ s.resurrected = s0.resurrected /\ s.salt = s0.salt /\ s.calls = s0.calls
          /\ s.append = s0.append
        BY <1>1, <1>3 DEF RepT
    <2> QED
        BY <2>1, <2>2, Tweak
<1>5. Fit(s, r, K)
    BY <1>4 DEF Leads
<1>6. PICK h : h = Len(c.ans.log)
    OBVIOUS
<1>7. h \in Nat
    BY <1>2, <1>6
<1>8. PICK s1 : s1 = [s EXCEPT !.known = Max({@, h})]
    OBVIOUS
<1>9. Leads(s0, s1, r, K) /\ Fit(s1, r, K)
    <2>1. Leads(s, s1, r, K)
        BY <1>5, <1>7, <1>8, KnownLeads
    <2> QED
        BY <1>4, <2>1, LeadsOn DEF Leads
<1>10. PICK x, y, d : x = Len(c.base) + 1 /\ y = c.ans.upto /\ d = c.ans.log
    OBVIOUS
<1>11. PICK s2 : s2 = ApplyItems(s1, d, x, y)
    OBVIOUS
<1>12. Leads(s0, s2, r, K) /\ Fit(s2, r, K)
    <2>1. x \in Nat /\ y \in Nat /\ d \in K /\ (y < x \/ y <= Len(d))
        BY <1>2, <1>10 DEF PageOK
    <2>2. Leads(s1, s2, r, K)
        BY <1>9, <1>11, <2>1, ApplyItemsLeads
    <2> QED
        BY <1>9, <2>2, LeadsOn DEF Leads
<1>13. PICK s3 : s3 = IF s2.repair.phase = "rolling" THEN RepairStep(s2) ELSE s2
    OBVIOUS
<1>14. Leads(s0, s3, r, K) /\ Fit(s3, r, K)
    <2>1. Leads(s2, RepairStep(s2), r, K)
        BY <1>12, RepairStepLeads
    <2>2. Leads(s0, RepairStep(s2), r, K)
        BY <1>12, <2>1, LeadsOn
    <2>3. Leads(s0, s3, r, K)
        BY <1>12, <1>13, <2>2
    <2> QED
        BY <2>3 DEF Leads
<1>15. PICK z : z = Max({h, Head_(s3)})
    OBVIOUS
<1>16. PICK w : w = [s3 EXCEPT !.known = z]
    OBVIOUS
<1>17. Leads(s0, w, r, K)
    <2>1. Head_(s3) \in Nat /\ s3 \in RepT(r, K)
        BY <1>14, ChainFields
    <2>2. z \in Nat
        BY <1>7, <1>15, <2>1, NatPair
    <2>3. w \in RepT(r, K)
        BY <1>16, <2>1, <2>2 DEF RepT
    <2>4. /\ w.chain = s3.chain /\ w.pending = s3.pending /\ w.res = s3.res
          /\ w.resurrected = s3.resurrected /\ w.salt = s3.salt /\ w.calls = s3.calls
          /\ w.append = s3.append
        BY <1>16, <2>1 DEF RepT
    <2>5. Leads(s3, w, r, K)
        BY <1>14, <2>3, <2>4, Tweak
    <2> QED
        BY <1>14, <2>5, LeadsOn
<1>18. PICK s4 : s4 = IF ~(y < h) /\ Head_(s3) >= h THEN w ELSE s3
    OBVIOUS
<1>19. Leads(s0, s4, r, K) /\ Fit(s4, r, K)
    <2>1. Leads(s0, s4, r, K)
        BY <1>14, <1>17, <1>18
    <2> QED
        BY <2>1 DEF Leads
<1>20. PICK v : v = [s4 EXCEPT !.caught_up = TRUE]
    OBVIOUS
<1>21. OnRead(s0, c) \in {s, OnLostTail(s1, h, TRUE), RequestRead(s4), s4,
                          OnLostTail(s4, h, FALSE), v}
    <2>1. OnRead(s0, c) =
              IF c.ans.t # "log" THEN s
              ELSE IF h < Head_(s) THEN OnLostTail(s1, h, TRUE)
              ELSE IF y < h \/ Head_(s4) < h THEN RequestRead(s4)
              ELSE IF Head_(s4) > h THEN s4
              ELSE IF s4.chain # d THEN OnLostTail(s4, h, FALSE)
              ELSE [s4 EXCEPT !.caught_up = TRUE]
        <3>1. OnRead(s0, c) =
                LET t2 == ApplyItems(s1, d, x, y)
                    t3 == IF t2.repair.phase = "rolling" THEN RepairStep(t2) ELSE t2
                    t4 == IF ~(y < h) /\ Head_(t3) >= h
                          THEN [t3 EXCEPT !.known = Max({h, Head_(t3)})] ELSE t3
                IN IF c.ans.t # "log" THEN s
                   ELSE IF h < Head_(s) THEN OnLostTail(s1, h, TRUE)
                   ELSE IF y < h \/ Head_(t4) < h THEN RequestRead(t4)
                   ELSE IF Head_(t4) > h THEN t4
                   ELSE IF t4.chain # d THEN OnLostTail(t4, h, FALSE)
                   ELSE [t4 EXCEPT !.caught_up = TRUE]
            BY <1>3, <1>6, <1>8, <1>10, SMT DEF OnRead
        <3>2. OnRead(s0, c) =
                LET t4 == IF ~(y < h) /\ Head_(s3) >= h
                          THEN [s3 EXCEPT !.known = Max({h, Head_(s3)})] ELSE s3
                IN IF c.ans.t # "log" THEN s
                   ELSE IF h < Head_(s) THEN OnLostTail(s1, h, TRUE)
                   ELSE IF y < h \/ Head_(t4) < h THEN RequestRead(t4)
                   ELSE IF Head_(t4) > h THEN t4
                   ELSE IF t4.chain # d THEN OnLostTail(t4, h, FALSE)
                   ELSE [t4 EXCEPT !.caught_up = TRUE]
            BY <1>11, <1>13, <3>1, Zenon
        <3> QED
            BY <1>15, <1>16, <1>18, <3>2, Zenon
    <2> QED
        BY <1>20, <2>1
<1>22. Leads(s0, OnLostTail(s1, h, TRUE), r, K)
    <2>1. Leads(s1, OnLostTail(s1, h, TRUE), r, K)
        BY <1>7, <1>9, OnLostTailLeads
    <2> QED
        BY <1>9, <2>1, LeadsOn
<1>23. Leads(s0, OnLostTail(s4, h, FALSE), r, K)
    <2>1. Leads(s4, OnLostTail(s4, h, FALSE), r, K)
        BY <1>7, <1>19, OnLostTailLeads
    <2> QED
        BY <1>19, <2>1, LeadsOn
<1>24. Leads(s0, RequestRead(s4), r, K)
    <2>1. Leads(s4, RequestRead(s4), r, K)
        BY <1>19, RequestReadLeads
    <2> QED
        BY <1>19, <2>1, LeadsOn
<1>25. Leads(s0, v, r, K)
    <2>1. Leads(s4, v, r, K)
        BY <1>19, <1>20, CaughtUpLeads
    <2> QED
        BY <1>19, <2>1, LeadsOn
<1> QED
    BY <1>4, <1>19, <1>21, <1>22, <1>23, <1>24, <1>25

LEMMA OnSubscribedLeads ==
    ASSUME NEW r \in Replicas, NEW K, Family(K), NEW s, Fit(s, r, K), Clear(s, K),
           NEW c \in CallT(K)
    PROVE  Leads(s, OnSubscribed(s, c), r, K)
<1>1. Len(c.ans.log) \in Nat
    BY AnsFields
<1>2. PICK h : h = Len(c.ans.log)
    OBVIOUS
<1>3. h \in Nat
    BY <1>1, <1>2
<1>4. PICK s1 : s1 = [s EXCEPT !.known = Max({@, h})]
    OBVIOUS
<1>5. Leads(s, s1, r, K) /\ Fit(s1, r, K)
    <2>1. Leads(s, s1, r, K)
        BY <1>3, <1>4, KnownLeads
    <2> QED
        BY <2>1 DEF Leads
<1>6. PICK u : u = [s1 EXCEPT !.caught_up = TRUE]
    OBVIOUS
<1>7. Leads(s, u, r, K)
    <2>1. Leads(s1, u, r, K)
        BY <1>5, <1>6, CaughtUpLeads
    <2> QED
        BY <1>5, <2>1, LeadsOn
<1>8. Leads(s, OnLostTail(s1, h, FALSE), r, K) /\ Leads(s, OnLostTail(s1, h, TRUE), r, K)
    <2>1. Leads(s1, OnLostTail(s1, h, FALSE), r, K) /\ Leads(s1, OnLostTail(s1, h, TRUE), r, K)
        BY <1>3, <1>5, OnLostTailLeads
    <2> QED
        BY <1>5, <2>1, LeadsOn
<1>9. OnSubscribed(s, c) \in {Pump(s), OnLostTail(s1, h, FALSE), Pump(u),
                              Pump(OnLostTail(s1, h, TRUE)), Pump(s1)}
    BY <1>2, <1>4, <1>6 DEF OnSubscribed
<1>10. PICK v : v = OnLostTail(s1, h, TRUE)
    OBVIOUS
<1>11. Leads(s, Pump(v), r, K)
    <2>1. Leads(s, v, r, K)
        BY <1>8, <1>10
    <2> QED
        BY <2>1, ThenPump
<1>12. Leads(s, Pump(s), r, K)
    BY PumpLeads
<1>13. Leads(s, Pump(u), r, K)
    BY <1>7, ThenPump
<1>14. Leads(s, Pump(s1), r, K)
    BY <1>5, ThenPump
<1> QED
    BY <1>8, <1>9, <1>10, <1>11, <1>12, <1>13, <1>14

LEMMA OnReplyLeads ==
    ASSUME NEW r \in Replicas, NEW K, Family(K), NEW s, Fit(s, r, K), Clear(s, K),
           NEW c \in CallT(K)
    PROVE  Leads(s, OnReply(s, c), r, K)
<1>1. c.k \in Kinds
    BY AnsFields
<1>2. PICK a, b, d, e : /\ a = OnRead(s, c) /\ b = OnAppend(s, c)
                        /\ d = OnProbe(s, c) /\ e = OnRepairAppend(s, c)
    OBVIOUS
<1>3. OnReply(s, c) \in {OnSubscribed(s, c), Pump(a), Pump(b), Pump(d), Pump(e)}
    BY <1>1, <1>2 DEF OnReply, Kinds
<1>4. Leads(s, a, r, K) /\ Leads(s, b, r, K)
    BY <1>2, OnReadLeads, OnAppendLeads
<1>5. Leads(s, d, r, K) /\ Leads(s, e, r, K)
    BY <1>2, OnProbeLeads, OnRepairAppendLeads
<1>6. Leads(s, Pump(a), r, K) /\ Leads(s, Pump(b), r, K)
    BY <1>4, ThenPump
<1>7. Leads(s, Pump(d), r, K) /\ Leads(s, Pump(e), r, K)
    BY <1>5, ThenPump
<1>8. Leads(s, OnSubscribed(s, c), r, K)
    BY OnSubscribedLeads
<1> QED
    BY <1>3, <1>6, <1>7, <1>8

-----------------------------------------------------------------------------
(***************************************************************************)
(* A session's end and its successor.                                      *)
(***************************************************************************)
LEMMA UpLeads ==
    ASSUME NEW r, NEW K, NEW s, Fit(s, r, K), NEW b \in BOOLEAN
    PROVE  Leads(s, [s EXCEPT !.up = b], r, K)
<1>1. PICK t : t = [s EXCEPT !.up = b]
    OBVIOUS
<1>2. s \in RepT(r, K)
    BY DEF Fit
<1>3. t \in RepT(r, K)
    BY <1>1, <1>2 DEF RepT
<1>4. /\ t.chain = s.chain /\ t.pending = s.pending /\ t.res = s.res
      /\ t.resurrected = s.resurrected /\ t.salt = s.salt /\ t.calls = s.calls
      /\ t.append = s.append
    BY <1>1, <1>2 DEF RepT
<1> QED
    BY <1>1, <1>3, <1>4, Tweak

LEMMA ResendLeads ==
    ASSUME NEW r, NEW K, Family(K), NEW s, Fit(s, r, K), NEW t, Leads(s, t, r, K)
    PROVE  Leads(s, SendAppend(t, s.append.base, s.append.items), r, K)
<1>1. s \in RepT(r, K) /\ s.append \in BatchT(K)
    BY ChainFields
<1>2. PICK b, x : b = s.append.base /\ x = s.append.items
    OBVIOUS
<1>3. b \in K /\ x \in ItemsT
    BY <1>1, <1>2 DEF BatchT
<1>4. Fit(t, r, K) /\ t \in RepT(r, K) /\ Settles_(s, t)
    BY DEF Leads, Fit
<1>5. Offer(s, K, b, x)
    BY <1>2 DEF Fit
<1>6. Offer(t, K, b, x)
    BY <1>1, <1>3, <1>4, <1>5, OfferKept
<1>7. Leads(t, SendAppend(t, b, x), r, K)
    BY <1>3, <1>4, <1>6, SendAppendLeads
<1>8. Leads(s, SendAppend(t, b, x), r, K)
    BY <1>7, LeadsOn
<1> QED
    BY <1>2, <1>8

LEMMA ReconnectedLeads ==
    ASSUME NEW r \in Replicas, NEW K, Family(K), NEW s, Fit(s, r, K), Clear(s, K)
    PROVE  Leads(s, Reconnected(s), r, K)
<1>1. s \in RepT(r, K)
    BY ChainFields
<1>2. PICK u : u = [s EXCEPT !.up = TRUE]
    OBVIOUS
<1>3. Leads(s, u, r, K) /\ Fit(u, r, K)
    <2>1. Leads(s, u, r, K)
        BY <1>2, UpLeads
    <2> QED
        BY <2>1 DEF Leads
<1>4. PICK v : v = [u EXCEPT !.caught_up = FALSE]
    OBVIOUS
<1>5. Leads(s, v, r, K) /\ Fit(v, r, K)
    <2>1. Leads(u, v, r, K)
        BY <1>3, <1>4, CaughtUpLeads
    <2>2. Leads(s, v, r, K)
        BY <1>3, <2>1, LeadsOn
    <2> QED
        BY <2>2 DEF Leads
<1>6. v = [s EXCEPT !.up = TRUE, !.caught_up = FALSE]
    BY <1>1, <1>2, <1>4 DEF RepT
<1>7. PICK s1 : s1 = HeadFetch(v)
    OBVIOUS
<1>8. Leads(s, s1, r, K)
    <2>1. Leads(v, s1, r, K)
        BY <1>5, <1>7, HeadFetchLeads
    <2> QED
        BY <1>5, <2>1, LeadsOn
<1>9. PICK w : w = SendAppend(s1, s.append.base, s.append.items)
    OBVIOUS
<1>10. Leads(s, w, r, K)
    BY <1>8, <1>9, ResendLeads
<1>11. Reconnected(s) \in {Pump(s1), Pump(w)}
    BY <1>6, <1>7, <1>9 DEF Reconnected
<1>12. Leads(s, Pump(s1), r, K) /\ Leads(s, Pump(w), r, K)
    BY <1>8, <1>10, ThenPump
<1> QED
    BY <1>11, <1>12

LEMMA TailFit ==
    ASSUME NEW r, NEW K, Family(K), NEW s, Fit(s, r, K), s.calls # << >>
    PROVE  LET t == [s EXCEPT !.calls = Tail(@)] IN
           /\ Fit(t, r, K) /\ Settles_(s, t) /\ t.calls = Tail(s.calls)
           /\ Head(s.calls) \in CallT(K)
<1>1. s \in RepT(r, K) /\ s.calls \in CallsT(K) /\ s.salt \in Nat
    BY ChainFields
<1>2. PICK cs : cs = s.calls
    OBVIOUS
<1>3. PICK d : d = Tail(cs)
    OBVIOUS
<1>4. /\ d \in CallsT(K) /\ Head(cs) \in CallT(K) /\ Len(cs) \in Nat
      /\ \A j \in DOMAIN d : j + 1 \in DOMAIN cs /\ d[j] = cs[j + 1]
    BY <1>1, <1>2, <1>3 DEF CallsT
<1>5. PICK t : t = [s EXCEPT !.calls = Tail(@)]
    OBVIOUS
<1>6. t \in RepT(r, K)
    BY <1>1, <1>2, <1>3, <1>4, <1>5 DEF RepT
<1>7. /\ t.chain = s.chain /\ t.pending = s.pending /\ t.res = s.res /\ t.me = s.me
      /\ t.resurrected = s.resurrected /\ t.salt = s.salt /\ t.calls = d
      /\ t.append = s.append
    BY <1>1, <1>2, <1>3, <1>5 DEF RepT
<1>8. Settles_(s, t)
    BY <1>1, <1>7 DEF Settles_
<1>9. \A j \in DOMAIN t.calls : Offer(t, K, t.calls[j].base, t.calls[j].items)
    <2> SUFFICES ASSUME NEW j \in DOMAIN d PROVE Offer(t, K, d[j].base, d[j].items)
        BY <1>7
    <2>1. PICK i : i = j + 1
        OBVIOUS
    <2>2. i \in DOMAIN cs /\ d[j] = cs[i]
        BY <1>4, <2>1
    <2>3. PICK b, x : b = cs[i].base /\ x = cs[i].items
        OBVIOUS
    <2>4. Offer(s, K, b, x)
        BY <1>2, <2>2, <2>3 DEF Fit
    <2>5. x \in ItemsT
        BY <1>1, <1>2, <2>2, <2>3, CallFields
    <2>6. Offer(t, K, b, x)
        BY <1>1, <1>6, <1>8, <2>4, <2>5, OfferKept
    <2> QED
        BY <2>2, <2>3, <2>6
<1>10. Offer(t, K, t.append.base, t.append.items)
    <2>1. PICK b, x : b = s.append.base /\ x = s.append.items
        OBVIOUS
    <2>2. x \in ItemsT /\ Offer(s, K, b, x)
        <3>1. s.append \in BatchT(K)
            BY ChainFields
        <3> QED
            BY <2>1, <3>1 DEF Fit, BatchT
    <2>3. Offer(t, K, b, x)
        BY <1>1, <1>6, <1>8, <2>2, OfferKept
    <2> QED
        BY <1>7, <2>1, <2>3
<1>11. ~Rollback => Truthful(t)
    BY <1>7 DEF Truthful, Fit
<1>12. Fit(t, r, K)
    BY <1>6, <1>9, <1>10, <1>11 DEF Fit
<1> QED
    BY <1>2, <1>3, <1>4, <1>5, <1>7, <1>8, <1>12

LEMMA ExtendsTail ==
    ASSUME NEW K, NEW c \in CallsT(K), NEW d \in CallsT(K), NEW n \in 1..Len(c),
           Extends(SubSeq(c, n, Len(c)), d)
    PROVE  /\ d # << >> /\ Tail(d) \in CallsT(K)
           /\ SubSeq(c, n + 1, Len(c)) \in CallsT(K)
           /\ Extends(SubSeq(c, n + 1, Len(c)), Tail(d))
<1>1. PICK k : k = Len(c)
    OBVIOUS
<1>2. k \in Nat /\ Len(d) \in Nat /\ c \in Seq(CallT(K)) /\ d \in Seq(CallT(K)) /\ n \in 1..k
      /\ DOMAIN d = 1..Len(d)
    BY <1>1 DEF CallsT
<1>3. PICK a, b : a = SubSeq(c, n, k) /\ b = SubSeq(c, n + 1, k)
    OBVIOUS
<1>4. a \in Seq(CallT(K)) /\ Len(a) = k - n + 1 /\ \A j \in 1..(k - n + 1) : a[j] = c[n + j - 1]
    <2>1. \A i \in n..k : c[i] \in CallT(K)
        BY <1>1, <1>2
    <2>2. /\ a \in Seq(CallT(K))
          /\ Len(a) = IF n <= k THEN k - n + 1 ELSE 0
          /\ \A j \in 1..(k - n + 1) : a[j] = c[n + j - 1]
        BY <1>2, <1>3, <2>1, SubSeqProperties
    <2> QED
        BY <1>2, <2>2
<1>5. b \in Seq(CallT(K)) /\ Len(b) = k - n /\ \A j \in 1..(k - n) : b[j] = c[n + j]
    <2>1. \A i \in (n+1)..k : c[i] \in CallT(K)
        BY <1>1, <1>2
    <2>2. /\ b \in Seq(CallT(K))
          /\ Len(b) = IF n + 1 <= k THEN k - (n + 1) + 1 ELSE 0
          /\ \A j \in 1..(k - (n + 1) + 1) : b[j] = c[n + 1 + j - 1]
        BY <1>2, <1>3, <2>1, SubSeqProperties
    <2> QED
        BY <1>2, <2>2
<1>6. PICK e : e = Tail(d)
    OBVIOUS
<1>7. /\ Len(a) <= Len(d)
      /\ \A j \in DOMAIN a : d[j].ans = a[j].ans /\ d[j].k = a[j].k /\ d[j].base = a[j].base
      /\ \A j \in DOMAIN d : j > Len(a) => d[j].ans = Wait
    BY <1>1, <1>3 DEF Extends
<1>8. Len(d) >= 1
    BY <1>2, <1>4, <1>7
<1>9. /\ d # << >> /\ e \in Seq(CallT(K)) /\ Len(e) = Len(d) - 1
      /\ \A j \in 1..Len(e) : e[j] = d[j + 1]
    BY <1>2, <1>6, <1>8
<1>10. \A j \in DOMAIN b : e[j].ans = b[j].ans /\ e[j].k = b[j].k /\ e[j].base = b[j].base
    <2> SUFFICES ASSUME NEW j \in 1..(k - n)
                 PROVE  e[j].ans = b[j].ans /\ e[j].k = b[j].k /\ e[j].base = b[j].base
        BY <1>5
    <2>1. j + 1 \in 1..(k - n + 1) /\ j \in 1..Len(e) /\ n + (j + 1) - 1 = n + j
        BY <1>2, <1>4, <1>7, <1>9
    <2>2. a[j + 1] = b[j] /\ e[j] = d[j + 1] /\ j + 1 \in DOMAIN a
        <3>1. PICK i : i = j + 1
            OBVIOUS
        <3>2. i \in 1..(k - n + 1) /\ n + i - 1 = n + j
            BY <2>1, <3>1
        <3>3. a[i] = c[n + i - 1]
            BY <1>4, <3>2
        <3>4. b[j] = c[n + j]
            BY <1>5
        <3>5. a[i] = b[j]
            BY <3>2, <3>3, <3>4
        <3>6. i \in DOMAIN a
            BY <1>4, <3>2
        <3>7. e[j] = d[i]
            BY <1>9, <2>1, <3>1
        <3> QED
            BY <3>1, <3>5, <3>6, <3>7
    <2> QED
        BY <1>7, <2>2
<1>11. \A j \in DOMAIN e : j > Len(b) => e[j].ans = Wait
    <2> SUFFICES ASSUME NEW j \in 1..Len(e), j > Len(b) PROVE e[j].ans = Wait
        BY <1>9
    <2>1. j + 1 \in DOMAIN d /\ j + 1 > Len(a)
        BY <1>2, <1>4, <1>5, <1>9
    <2> QED
        BY <1>7, <1>9, <2>1
<1>12. Len(b) <= Len(e)
    BY <1>2, <1>4, <1>5, <1>7, <1>9
<1>13. Extends(b, e)
    BY <1>10, <1>11, <1>12 DEF Extends
<1> QED
    BY <1>1, <1>3, <1>5, <1>6, <1>9, <1>13 DEF CallsT

LEMMA CallEnds ==
    ASSUME NEW K, NEW c \in CallT(K)
    PROVE  [c EXCEPT !.ans.t = "none"] \in CallT(K)
<1>1. PICK a : a = [c.ans EXCEPT !.t = "none"]
    OBVIOUS
<1>2. c \in [k : Kinds, base : K, items : ItemsT, p : Nat, cur : BOOLEAN, ans : AnsT(K)]
    BY DEF CallT
<1>3. a \in AnsT(K) /\ a.log = c.ans.log /\ a.upto = c.ans.upto
    BY <1>1, <1>2 DEF AnsT
<1>4. PICK d : d = [c EXCEPT !.ans = a]
    OBVIOUS
<1>5. [c EXCEPT !.ans.t = "none"] = d
    BY <1>1, <1>2, <1>4
<1>6. d \in [k : Kinds, base : K, items : ItemsT, p : Nat, cur : BOOLEAN, ans : AnsT(K)]
      /\ d.base = c.base /\ d.ans = a
    BY <1>2, <1>3, <1>4
<1>7. PageOK(d)
    BY <1>3, <1>6 DEF PageOK, CallT
<1> QED
    BY <1>5, <1>6, <1>7 DEF CallT

\* n calls of the session that ended have had their NoResponse.
Retiring(s, r, K, n) ==
    {t \in RepT(r, K) : /\ Fit(t, r, K) /\ Settles_(s, t)
                        /\ Extends(SubSeq(s.calls, n + 1, Len(s.calls)), t.calls)}

LEMMA RetiringStep ==
    ASSUME NEW r \in Replicas, NEW K, Family(K), NEW s, Fit(s, r, K), Clear(s, K),
           NEW n \in 1..Len(s.calls), NEW t \in Retiring(s, r, K, n - 1)
    PROVE  NoResponse(t) \in Retiring(s, r, K, n)
<1>1. s \in RepT(r, K) /\ s.calls \in CallsT(K)
    BY ChainFields
<1>2. PICK cs : cs = s.calls
    OBVIOUS
<1>3. n \in 1..Len(cs) /\ (n - 1) + 1 = n /\ cs \in CallsT(K) /\ Len(cs) \in Nat
    BY <1>1, <1>2 DEF CallsT
<1>4. Fit(t, r, K) /\ Settles_(s, t) /\ Extends(SubSeq(cs, (n - 1) + 1, Len(cs)), t.calls)
    BY <1>2 DEF Retiring
<1>5. t \in RepT(r, K) /\ t.calls \in CallsT(K)
    BY <1>4, ChainFields
<1>6. PICK d : d = t.calls
    OBVIOUS
<1>7. d \in CallsT(K) /\ Extends(SubSeq(cs, n, Len(cs)), d)
    BY <1>3, <1>4, <1>5, <1>6
<1>8. /\ d # << >> /\ Tail(d) \in CallsT(K) /\ SubSeq(cs, n + 1, Len(cs)) \in CallsT(K)
      /\ Extends(SubSeq(cs, n + 1, Len(cs)), Tail(d))
    BY <1>3, <1>7, ExtendsTail
<1>9. PICK u : u = [t EXCEPT !.calls = Tail(@)]
    OBVIOUS
<1>10. Fit(u, r, K) /\ Settles_(t, u) /\ u.calls = Tail(d) /\ Head(d) \in CallT(K)
    BY <1>4, <1>6, <1>8, <1>9, TailFit
<1>11. u \in RepT(r, K) /\ Settles_(s, u)
    <2>1. u \in RepT(r, K)
        BY <1>10 DEF Fit
    <2> QED
        BY <1>1, <1>4, <1>5, <1>10, <2>1, SettlesTransitive
<1>12. Clear(u, K)
    BY <1>11, ClearKept
<1>13. PICK c : c = [Head(d) EXCEPT !.ans.t = "none"]
    OBVIOUS
<1>14. c \in CallT(K)
    BY <1>10, <1>13, CallEnds
<1>15. PICK v : v = OnReply(u, c)
    OBVIOUS
<1>16. Leads(u, v, r, K)
    BY <1>10, <1>12, <1>14, <1>15, OnReplyLeads
<1>17. Fit(v, r, K) /\ Settles_(u, v) /\ Extends(Tail(d), v.calls)
    BY <1>10, <1>16 DEF Leads
<1>18. v \in RepT(r, K) /\ v.calls \in CallsT(K)
    BY <1>17, ChainFields
<1>19. Settles_(s, v)
    BY <1>1, <1>11, <1>17, <1>18, SettlesTransitive
<1>20. Extends(SubSeq(cs, n + 1, Len(cs)), v.calls)
    BY <1>8, <1>17, <1>18, ExtendsTransitive
<1>21. NoResponse(t) = v
    BY <1>6, <1>9, <1>13, <1>15 DEF NoResponse
<1> QED
    BY <1>2, <1>17, <1>18, <1>19, <1>20, <1>21 DEF Retiring

LEMMA RetiredLeads ==
    ASSUME NEW r \in Replicas, NEW K, Family(K), NEW s, Fit(s, r, K), Clear(s, K)
    PROVE  /\ Fit(Retired(s), r, K) /\ Settles_(s, Retired(s))
           /\ \A j \in DOMAIN Retired(s).calls : Retired(s).calls[j].ans = Wait
<1>1. s \in RepT(r, K) /\ s.calls \in CallsT(K)
    BY ChainFields
<1>2. PICK k : k = Len(s.calls)
    OBVIOUS
<1>3. k \in Nat
    BY <1>1, <1>2 DEF CallsT
<1>4. PICK s0 : s0 = Pump([s EXCEPT !.up = FALSE])
    OBVIOUS
<1>5. s0 \in Retiring(s, r, K, 0)
    <2>1. Leads(s, [s EXCEPT !.up = FALSE], r, K)
        BY UpLeads
    <2>2. Leads(s, s0, r, K)
        BY <1>4, <2>1, ThenPump
    <2>3. SubSeq(s.calls, 0 + 1, Len(s.calls)) = s.calls
        BY <1>1, SubSeqFull DEF CallsT
    <2> QED
        BY <2>2, <2>3 DEF Retiring, Leads, Fit
<1> DEFINE S == [n \in 0..k |-> Retiring(s, r, K, n)]
           g == [n \in 1..k |-> [t \in Retiring(s, r, K, n - 1) |-> NoResponse(t)]]
<1>6. s0 \in S[0]
    BY <1>3, <1>5
<1>7. \A n \in 1..k : g[n] \in [S[n-1] -> S[n]]
    <2> SUFFICES ASSUME NEW n \in 1..k PROVE g[n] \in [S[n-1] -> S[n]]
        OBVIOUS
    <2>1. S[n-1] = Retiring(s, r, K, n - 1) /\ S[n] = Retiring(s, r, K, n)
        BY <1>3
    <2>2. g[n] = [t \in Retiring(s, r, K, n - 1) |-> NoResponse(t)]
        OBVIOUS
    <2> HIDE DEF S, g
    <2>3. ASSUME NEW t \in Retiring(s, r, K, n - 1) PROVE NoResponse(t) \in Retiring(s, r, K, n)
        BY <1>2, RetiringStep
    <2> QED
        BY <2>1, <2>2, <2>3
<1>8. S \in [0..k -> SUBSET RepT(r, K)]
    BY DEF Retiring
<1>9. PICK e \in [0..k -> RepT(r, K)] : Iterates(e, k, s0, g) /\ \A n \in 0..k : e[n] \in S[n]
    <2> HIDE DEF S, g
    <2> QED
        BY <1>3, <1>6, <1>7, <1>8, IterationExists
<1>10. e = [n \in 0..k |-> IF n = 0 THEN s0 ELSE NoResponse(e[n-1])]
    <2>1. \A n \in 1..k : n - 1 \in 0..k /\ e[n-1] \in Retiring(s, r, K, n - 1)
        BY <1>3, <1>9
    <2>2. \A n \in 1..k : e[n] = NoResponse(e[n-1])
        BY <1>9, <2>1 DEF Iterates
    <2>3. e[0] = s0
        BY <1>9 DEF Iterates
    <2> QED
        BY <1>3, <1>9, <2>2, <2>3
<1> DEFINE f == CHOOSE f : f = [n \in 0..Len(s.calls) |->
                                    IF n = 0 THEN Pump([s EXCEPT !.up = FALSE])
                                    ELSE NoResponse(f[n-1])]
<1>11. f = [n \in 0..k |-> IF n = 0 THEN s0 ELSE NoResponse(f[n-1])]
    BY <1>2, <1>4, <1>10
<1>12. f[0] = s0 /\ \A n \in 1..k : f[n] = NoResponse(f[n-1])
    <2> HIDE DEF f
    <2> QED
        BY <1>3, <1>11
<1>13. Retired(s) = f[k]
    BY <1>2 DEF Retired
<1> HIDE DEF f
<1> DEFINE P == {n \in 0..k : f[n] \in Retiring(s, r, K, n)}
<1>14. P = 0..k
    <2>1. 0 \in P /\ P \in SUBSET (0..k)
        BY <1>3, <1>5, <1>12
    <2>2. ASSUME NEW n \in 1..k, n - 1 \in P PROVE n \in P
        <3>1. f[n-1] \in Retiring(s, r, K, n - 1)
            BY <2>2
        <3>2. NoResponse(f[n-1]) \in Retiring(s, r, K, n)
            BY <1>2, <3>1, RetiringStep
        <3> QED
            BY <1>12, <3>2
    <2> HIDE DEF P
    <2> QED
        BY <1>3, <2>1, <2>2, Climb
<1>15. f[k] \in Retiring(s, r, K, k)
    BY <1>3, <1>14
<1> HIDE DEF P, S, g
<1>16. PICK t : t = Retired(s)
    OBVIOUS
<1>17. Fit(t, r, K) /\ Settles_(s, t) /\ Extends(SubSeq(s.calls, k + 1, k), t.calls)
    BY <1>2, <1>13, <1>15, <1>16 DEF Retiring
<1>18. SubSeq(s.calls, k + 1, k) = << >>
    BY <1>1, <1>3, SubSeqEmpty DEF CallsT
<1>19. \A j \in DOMAIN t.calls : t.calls[j].ans = Wait
    <2>1. t.calls \in CallsT(K)
        BY <1>17, ChainFields
    <2>2. \A j \in DOMAIN t.calls : j \in Nat /\ j > 0
        BY <2>1 DEF CallsT
    <2>3. Len(<< >>) = 0
        OBVIOUS
    <2> QED
        BY <1>17, <1>18, <2>2, <2>3 DEF Extends
<1> QED
    BY <1>16, <1>17, <1>19

LEMMA SaltLeads ==
    ASSUME NEW r, NEW K, Family(K), NEW s, Fit(s, r, K)
    PROVE  Leads(s, [s EXCEPT !.salt = @ + 1], r, K)
<1>1. s \in RepT(r, K) /\ s.salt \in Nat
    BY ChainFields
<1>2. PICK t : t = [s EXCEPT !.salt = @ + 1]
    OBVIOUS
<1>3. t \in RepT(r, K)
    BY <1>1, <1>2 DEF RepT
<1>4. /\ t.chain = s.chain /\ t.pending = s.pending /\ t.res = s.res
      /\ t.resurrected = s.resurrected /\ t.salt = s.salt + 1 /\ t.calls = s.calls
      /\ t.append = s.append
    BY <1>1, <1>2 DEF RepT
<1>5. s.salt <= t.salt
    BY <1>1, <1>4
<1>6. Offer(s, K, t.append.base, t.append.items)
    BY <1>4 DEF Fit
<1> QED
    BY <1>2, <1>3, <1>4, <1>5, <1>6, Drop

LEMMA OpenedFit ==
    ASSUME NEW r, NEW K, Family(K), NEW s, Fit(s, r, K)
    PROVE  /\ Fit(Opened(s), r, K) /\ Settles_(s, Opened(s))
           /\ \A j \in DOMAIN Opened(s).calls : Opened(s).calls[j].ans = Wait
<1>1. s \in RepT(r, K) /\ s.salt \in Nat /\ Head_(s) \in Nat
    BY ChainFields
<1>2. PICK h : h = Head_(s)
    OBVIOUS
<1>3. PICK t : t = [s EXCEPT
        !.up = FALSE, !.known = h, !.reading = FALSE, !.caught_up = FALSE,
        !.append = NoBatch, !.streak = 0, !.repair = NoRepair, !.calls = << >>]
    OBVIOUS
<1>4. NoBatch \in BatchT(K) /\ NoBatch.items = << >> /\ NoRepair \in RepairT
    BY NoBatchT, NoRepairT
<1>5. << >> \in CallsT(K)
    BY DEF CallsT
<1>6. t \in RepT(r, K)
    BY <1>1, <1>2, <1>3, <1>4, <1>5 DEF RepT
<1>7. /\ t.chain = s.chain /\ t.pending = s.pending /\ t.res = s.res /\ t.me = s.me
      /\ t.resurrected = s.resurrected /\ t.salt = s.salt /\ t.calls = << >>
      /\ t.append = NoBatch
    BY <1>1, <1>3 DEF RepT
<1>8. Settles_(s, t)
    BY <1>1, <1>7 DEF Settles_
<1>9. Offer(t, K, t.append.base, t.append.items)
    BY <1>4, <1>7, NoItems
<1>10. ~Rollback => Truthful(t)
    BY <1>7 DEF Truthful, Fit
<1>11. Fit(t, r, K)
    BY <1>6, <1>7, <1>9, <1>10 DEF Fit
<1>12. PICK u : u = HeadFetch(t)
    OBVIOUS
<1>13. Leads(t, u, r, K)
    BY <1>11, <1>12, HeadFetchLeads
<1>14. Fit(u, r, K) /\ Settles_(t, u) /\ Extends(<< >>, u.calls)
    BY <1>7, <1>13 DEF Leads
<1>15. u \in RepT(r, K) /\ u.calls \in CallsT(K)
    BY <1>14, ChainFields
<1>16. Settles_(s, u)
    BY <1>1, <1>6, <1>8, <1>14, <1>15, SettlesTransitive
<1>17. \A j \in DOMAIN u.calls : u.calls[j].ans = Wait
    <2>1. \A j \in DOMAIN u.calls : j \in Nat /\ j > 0
        BY <1>15 DEF CallsT
    <2>2. Len(<< >>) = 0
        OBVIOUS
    <2> QED
        BY <1>14, <2>1, <2>2 DEF Extends
<1>18. Opened(s) = u
    BY <1>2, <1>3, <1>12 DEF Opened
<1> QED
    BY <1>14, <1>16, <1>17, <1>18

LEMMA NewFit ==
    ASSUME NEW r \in Replicas, NEW K, Family(K)
    PROVE  /\ Fit(NewReplica(r), r, K)
           /\ \A j \in DOMAIN NewReplica(r).calls : NewReplica(r).calls[j].ans = Wait
           /\ NewReplica(r).pending = {} /\ \A i \in WritesOf(r) : NewReplica(r).res[i] = "none"
<1>1. PICK res : res = [i \in WritesOf(r) |-> "none"]
    OBVIOUS
<1>2. res \in [WritesOf(r) -> Outcomes]
    BY <1>1 DEF Outcomes
<1>3. PICK s : s = [me |-> r, chain |-> << >>, pending |-> {}, res |-> res,
            own |-> {}, resurrected |-> {}, tail |-> {}, salt |-> 0,
            up |-> FALSE, known |-> 0, reading |-> FALSE, caught_up |-> FALSE,
            append |-> NoBatch, streak |-> 0, repair |-> NoRepair, calls |-> << >>]
    OBVIOUS
<1>4. NoBatch \in BatchT(K) /\ NoBatch.items = << >> /\ NoRepair \in RepairT
    BY NoBatchT, NoRepairT
<1>5. << >> \in CallsT(K) /\ << >> \in K
    BY DEF CallsT, Family
<1>6. {} \in Finite(WritesOf(r)) /\ {} \in Finite(Nat \X WritesOf(r))
    BY FS_EmptySet DEF Finite
<1>7. s \in RepT(r, K)
    BY <1>2, <1>3, <1>4, <1>5, <1>6 DEF RepT
<1>8. s.me = r /\ s.calls = << >> /\ s.append = NoBatch /\ s.resurrected = {} /\ s.res = res
      /\ s.pending = {}
    BY <1>3
<1>9. Offer(s, K, s.append.base, s.append.items)
    BY <1>4, <1>8, NoItems
<1>10. Truthful(s)
    BY <1>1, <1>8 DEF Truthful
<1>11. Fit(s, r, K)
    BY <1>7, <1>8, <1>9, <1>10 DEF Fit
<1>12. NewReplica(r) = Opened(s)
    BY <1>1, <1>3 DEF NewReplica
<1>13. Opened(s).pending = {} /\ Opened(s).res = res
    <2>1. PICK h : h = Head_(s)
        OBVIOUS
    <2>2. PICK t : t = [s EXCEPT
        !.up = FALSE, !.known = h, !.reading = FALSE, !.caught_up = FALSE,
        !.append = NoBatch, !.streak = 0, !.repair = NoRepair, !.calls = << >>]
        OBVIOUS
    <2>3. Opened(s) = HeadFetch(t)
        BY <2>1, <2>2 DEF Opened
    <2>4. t.pending = {} /\ t.res = res
        BY <1>7, <1>8, <2>2 DEF RepT
    <2>5. PICK d : d = Append(t.calls, Call("subscribe", << >>, << >>, 0))
        OBVIOUS
    <2>6. HeadFetch(t) = [t EXCEPT !.calls = d]
        BY <2>5 DEF HeadFetch, Queue
    <2>7. DOMAIN t = DOMAIN s
        BY <2>2
    <2> QED
        BY <2>3, <2>4, <2>6
<1> QED
    BY <1>1, <1>11, <1>12, <1>13, OpenedFit

-----------------------------------------------------------------------------
(***************************************************************************)
(* What the replica's own steps do.                                        *)
(***************************************************************************)
\* Tick.
Ticked(s) ==
    LET s1 == CASE s.append.st = "retry" /\ ~Repairing(s) ->
                     SendAppend(s, s.append.base, s.append.items)
                [] s.append.st = "wait" -> [s EXCEPT !.append = NoBatch]
                [] OTHER -> s
    IN Pump([s1 EXCEPT !.repair.wait = FALSE])

\* Push of the frame m.
Pushed_(s, m, inline) ==
    LET h  == Len(m.log)
        s1 == [s EXCEPT !.known = Max({@, h})]
    IN Pump(IF inline /\ m.from = Head_(s) + 1 /\ ~s.reading
            THEN ApplyItems(s1, m.log, m.from, h) ELSE s1)

LEMMA TickedLeads ==
    ASSUME NEW r \in Replicas, NEW K, Family(K), NEW s, Fit(s, r, K), Clear(s, K)
    PROVE  Leads(s, Ticked(s), r, K)
<1>1. s \in RepT(r, K) /\ s.salt \in Nat
    BY ChainFields
<1>2. PICK a : a = SendAppend(s, s.append.base, s.append.items)
    OBVIOUS
<1>3. Leads(s, a, r, K)
    BY <1>2, LeadsSelf, ResendLeads
<1>4. PICK b : b = [s EXCEPT !.append = NoBatch]
    OBVIOUS
<1>5. Leads(s, b, r, K)
    <2>1. NoBatch \in BatchT(K) /\ NoBatch.items = << >>
        BY NoBatchT
    <2>2. b \in RepT(r, K)
        BY <1>1, <1>4, <2>1 DEF RepT
    <2>3. /\ b.chain = s.chain /\ b.pending = s.pending /\ b.res = s.res
          /\ b.resurrected = s.resurrected /\ b.salt = s.salt /\ b.calls = s.calls
          /\ b.append = NoBatch
        BY <1>1, <1>4 DEF RepT
    <2>4. Offer(s, K, b.append.base, b.append.items)
        BY <2>1, <2>3, NoItems
    <2>5. s.salt <= b.salt
        BY <1>1, <2>3
    <2> QED
        BY <2>2, <2>3, <2>4, <2>5, Drop
<1>6. PICK s1 : s1 = CASE s.append.st = "retry" /\ ~Repairing(s) -> a
                       [] s.append.st = "wait" -> b
                       [] OTHER -> s
    OBVIOUS
<1>7. s1 \in {a, b, s}
    BY <1>6
<1>8. Leads(s, s1, r, K) /\ Fit(s1, r, K)
    <2>1. Leads(s, s1, r, K)
        BY <1>3, <1>5, <1>7, LeadsSelf
    <2> QED
        BY <2>1 DEF Leads
<1>9. s1 \in RepT(r, K) /\ s1.repair \in RepairT
    BY <1>8, ChainFields
<1>10. PICK q : q = [s1.repair EXCEPT !.wait = FALSE]
    OBVIOUS
<1>11. q \in RepairT
    BY <1>9, <1>10 DEF RepairT
<1>12. PICK t : t = [s1 EXCEPT !.repair = q]
    OBVIOUS
<1>13. Leads(s1, t, r, K)
    BY <1>8, <1>11, <1>12, RepairOnly
<1>14. Leads(s, t, r, K)
    BY <1>8, <1>13, LeadsOn
<1>15. t = [s1 EXCEPT !.repair.wait = FALSE]
    BY <1>9, <1>10, <1>12 DEF RepT
<1>16. Ticked(s) = Pump(t)
    BY <1>2, <1>4, <1>6, <1>15 DEF Ticked
<1> QED
    BY <1>14, <1>16, ThenPump

LEMMA PushedLeads ==
    ASSUME NEW r \in Replicas, NEW K, Family(K), NEW s, Fit(s, r, K), Clear(s, K),
           NEW m \in [log : K, from : Nat], NEW inline
    PROVE  Leads(s, Pushed_(s, m, inline), r, K)
<1>1. PICK h, d, f : h = Len(m.log) /\ d = m.log /\ f = m.from
    OBVIOUS
<1>2. d \in K /\ f \in Nat
    BY <1>1
<1>3. h \in Nat /\ h <= Len(d)
    <2>1. d \in ItemsT
        BY <1>2 DEF Family
    <2>2. Len(d) \in Nat
        BY <2>1 DEF ItemsT
    <2> QED
        BY <1>1, <2>2
<1>4. PICK s1 : s1 = [s EXCEPT !.known = Max({@, h})]
    OBVIOUS
<1>5. Leads(s, s1, r, K) /\ Fit(s1, r, K)
    <2>1. Leads(s, s1, r, K)
        BY <1>3, <1>4, KnownLeads
    <2> QED
        BY <2>1 DEF Leads
<1>6. PICK t : t = ApplyItems(s1, d, f, h)
    OBVIOUS
<1>7. Leads(s, t, r, K)
    <2>1. Leads(s1, t, r, K)
        BY <1>2, <1>3, <1>5, <1>6, ApplyItemsLeads
    <2> QED
        BY <1>5, <2>1, LeadsOn
<1>8. Pushed_(s, m, inline) \in {Pump(t), Pump(s1)}
    BY <1>1, <1>4, <1>6 DEF Pushed_
<1>9. Leads(s, Pump(t), r, K) /\ Leads(s, Pump(s1), r, K)
    BY <1>5, <1>7, ThenPump
<1> QED
    BY <1>8, <1>9

\* The pending writes are as they were.
Keeps(s, t) == "pending" \in DOMAIN s => "pending" \in DOMAIN t /\ t.pending = s.pending

LEMMA KeepsOn ==
    ASSUME NEW s, NEW t, NEW u, Keeps(s, t), Keeps(t, u)
    PROVE  Keeps(s, u)
    BY DEF Keeps

LEMMA KeepsRepair ==
    ASSUME NEW s, NEW q
    PROVE  Keeps(s, [s EXCEPT !.repair = q])
    BY DEF Keeps

LEMMA KeepsQueue ==
    ASSUME NEW s, NEW c
    PROVE  Keeps(s, Queue(s, c))
<1>1. PICK d : d = Append(s.calls, c)
    OBVIOUS
<1>2. Queue(s, c) = [s EXCEPT !.calls = d]
    BY <1>1 DEF Queue
<1>3. Keeps(s, [s EXCEPT !.calls = d])
    BY DEF Keeps
<1> QED
    BY <1>2, <1>3

LEMMA KeepsRequestRead ==
    ASSUME NEW s
    PROVE  Keeps(s, RequestRead(s))
<1>1. PICK t : t = [s EXCEPT !.reading = TRUE]
    OBVIOUS
<1>2. PICK c : c = Call("read", s.chain, << >>, 0)
    OBVIOUS
<1>3. RequestRead(s) \in {s, Queue(t, c)}
    BY <1>1, <1>2 DEF RequestRead
<1>4. Keeps(s, t) /\ Keeps(s, s)
    BY <1>1 DEF Keeps
<1>5. Keeps(t, Queue(t, c))
    BY KeepsQueue
<1> QED
    BY <1>3, <1>4, <1>5, KeepsOn

LEMMA KeepsProbeAt ==
    ASSUME NEW s, NEW p
    PROVE  Keeps(s, ProbeAt(s, p))
<1>1. PICK t : t = [s EXCEPT !.repair.busy = TRUE]
    OBVIOUS
<1>2. PICK c : c = Call("probe", s.chain, << >>, p)
    OBVIOUS
<1>3. ProbeAt(s, p) = Queue(t, c)
    BY <1>1, <1>2 DEF ProbeAt
<1>4. Keeps(s, t)
    BY <1>1 DEF Keeps
<1>5. Keeps(t, Queue(t, c))
    BY KeepsQueue
<1> QED
    BY <1>3, <1>4, <1>5, KeepsOn

LEMMA KeepsProbeDone ==
    ASSUME NEW s, NEW lo, ~Rollback
    PROVE  Keeps(s, ProbeDone(s, lo))
<1>1. PICK q : q = [NoRepair EXCEPT !.phase = "held", !.head = s.repair.head,
                                    !.from = s.repair.from, !.lo = lo]
    OBVIOUS
<1>2. PICK t : t = [s EXCEPT !.repair = q]
    OBVIOUS
<1>3. ProbeDone(s, lo) \in {t, TryRollback(t, lo)}
    BY <1>1, <1>2 DEF ProbeDone
<1>4. TryRollback(t, lo) = t
    BY DEF TryRollback
<1> QED
    BY <1>2, <1>3, <1>4, KeepsRepair

LEMMA KeepsSendRepair ==
    ASSUME NEW s, NEW at, ~Rollback
    PROVE  Keeps(s, SendRepair(s, at))
<1>1. PICK upto, rows : /\ upto = Min({at + BatchItems, s.repair.from})
                        /\ rows = {c \in s.tail : Len(c) \in at+1..upto}
    OBVIOUS
<1>2. PICK top : top = CHOOSE c \in rows : Len(c) = upto
    OBVIOUS
<1>3. PICK q : q = [s.repair EXCEPT !.phase = "repairing", !.at = at, !.n = upto - at,
                                    !.busy = TRUE, !.wait = FALSE]
    OBVIOUS
<1>4. PICK t : t = [s EXCEPT !.repair = q]
    OBVIOUS
<1>5. PICK c : c = Call("repair", Prefix(top, at), SubSeq(top, at + 1, upto), 0)
    OBVIOUS
<1>6. SendRepair(s, at) \in {RepairFinished(s), ProbeDone(s, at), Queue(t, c)}
    BY <1>1, <1>2, <1>3, <1>4, <1>5 DEF SendRepair
<1>7. Keeps(s, t) /\ Keeps(t, Queue(t, c))
    BY <1>4, KeepsRepair, KeepsQueue
<1>8. Keeps(s, RepairFinished(s))
    BY DEF RepairFinished, Keeps
<1>9. Keeps(s, ProbeDone(s, at))
    BY KeepsProbeDone
<1>10. Keeps(s, Queue(t, c))
    BY <1>7, KeepsOn
<1> QED
    BY <1>6, <1>8, <1>9, <1>10

LEMMA KeepsSearch ==
    ASSUME NEW s, NEW lo, NEW hi, ~Rollback
    PROVE  Keeps(s, Search(s, lo, hi))
<1>1. PICK t, p : /\ t = [s EXCEPT !.repair.lo = lo, !.repair.hi = hi, !.repair.busy = FALSE]
                  /\ p = NextProbe(s.repair.floor, lo, hi)
    OBVIOUS
<1>2. Search(s, lo, hi) \in {ProbeDone(t, lo), ProbeAt(t, p)}
    BY <1>1 DEF Search
<1>3. Keeps(s, t)
    BY <1>1 DEF Keeps
<1>4. Keeps(t, ProbeDone(t, lo)) /\ Keeps(t, ProbeAt(t, p))
    BY KeepsProbeDone, KeepsProbeAt
<1>5. Keeps(s, ProbeDone(t, lo)) /\ Keeps(s, ProbeAt(t, p))
    BY <1>3, <1>4, KeepsOn
<1> QED
    BY <1>2, <1>5

LEMMA KeepsRollbackProgress ==
    ASSUME NEW s
    PROVE  Keeps(s, RollbackProgress(s))
<1>1. PICK t : t = [s EXCEPT !.repair = NoRepair, !.known = Max({@, Head_(s)})]
    OBVIOUS
<1>2. RollbackProgress(s) \in {t, RequestRead(s)}
    BY <1>1 DEF RollbackProgress
<1>3. Keeps(s, t)
    BY <1>1 DEF Keeps
<1> QED
    BY <1>2, <1>3, KeepsRequestRead

LEMMA KeepsRepairStep ==
    ASSUME NEW s, ~Rollback
    PROVE  Keeps(s, RepairStep(s))
<1>1. PICK a, b, c : a = s.repair.lo /\ b = s.repair.hi /\ c = s.repair.at
    OBVIOUS
<1>2. RepairStep(s) \in {Search(s, a, b), SendRepair(s, c), RollbackProgress(s), s}
    BY <1>1 DEF RepairStep
<1>3. Keeps(s, s)
    BY DEF Keeps
<1>4. Keeps(s, Search(s, a, b)) /\ Keeps(s, SendRepair(s, c))
    BY KeepsSearch, KeepsSendRepair
<1> QED
    BY <1>2, <1>3, <1>4, KeepsRollbackProgress

LEMMA KeepsStale ==
    ASSUME NEW s, NEW kinds
    PROVE  Keeps(s, Stale(s, kinds))
<1>1. PICK d : d = [j \in DOMAIN s.calls |->
                      IF s.calls[j].k \in kinds THEN [s.calls[j] EXCEPT !.cur = FALSE]
                      ELSE s.calls[j]]
    OBVIOUS
<1>2. Stale(s, kinds) = [s EXCEPT !.calls = d]
    BY <1>1 DEF Stale
<1>3. Keeps(s, [s EXCEPT !.calls = d])
    BY DEF Keeps
<1> QED
    BY <1>2, <1>3

LEMMA KeepsSendAppend ==
    ASSUME NEW s, NEW b, NEW x
    PROVE  Keeps(s, SendAppend(s, b, x))
<1>1. PICK t : t = Stale(s, {"append"})
    OBVIOUS
<1>2. PICK u : u = [t EXCEPT !.append = [st |-> "flight", base |-> b, items |-> x]]
    OBVIOUS
<1>3. PICK c : c = Call("append", b, x, 0)
    OBVIOUS
<1>4. SendAppend(s, b, x) = Queue(u, c)
    BY <1>1, <1>2, <1>3 DEF SendAppend
<1>5. Keeps(s, t)
    BY <1>1, KeepsStale
<1>6. Keeps(t, u)
    BY <1>2 DEF Keeps
<1>7. Keeps(u, Queue(u, c))
    BY KeepsQueue
<1> QED
    BY <1>4, <1>5, <1>6, <1>7, KeepsOn

LEMMA PumpSettles ==
    ASSUME NEW r, NEW K, Family(K), NEW s, Fit(s, r, K), ~Rollback
    PROVE  \/ Pump(s).pending = s.pending
           \/ Pump(s).pending = s.pending \ (RejectedRows(s) \cup ConfirmedRows(s))
<1>1. s \in RepT(r, K)
    BY ChainFields
<1>2. "pending" \in DOMAIN s
    BY <1>1 DEF RepT
<1>3. PICK t, b, x : t = Settled(s) /\ b = s.chain /\ x = Sealed(s)
    OBVIOUS
<1>4. Pump(s) \in {RepairStep(s), RequestRead(s), t, SendAppend(t, b, x), s}
    BY <1>3 DEF Pump, SendBatch
<1>5. RepairStep(s).pending = s.pending
    BY <1>2, KeepsRepairStep DEF Keeps
<1>6. RequestRead(s).pending = s.pending
    BY <1>2, KeepsRequestRead DEF Keeps
<1>7. t.pending = s.pending \ (RejectedRows(s) \cup ConfirmedRows(s)) /\ "pending" \in DOMAIN t
    <2>1. Leads(s, t, r, K)
        BY <1>3, SettledLeads
    <2>2. t \in RepT(r, K)
        BY <2>1 DEF Leads, Fit
    <2>3. "pending" \in DOMAIN t
        BY <2>2 DEF RepT
    <2> QED
        BY <1>3, <2>3, SettledLeads
<1>8. SendAppend(t, b, x).pending = t.pending
    BY <1>7, KeepsSendAppend DEF Keeps
<1> QED
    BY <1>4, <1>5, <1>6, <1>7, <1>8

\* The write is captured: pending, or settled.
Used(s, i) == i \in s.pending \/ s.res[i] # "none"

\* The write is captured on top of the ones before it.
Captured(s, i) == [s EXCEPT !.pending = @ \cup {i}]
Fresh(s, r, i) == \A j \in WritesOf(r) : j >= i => j \notin s.pending /\ s.res[j] = "none"

AllUsed(s, r, K) ==
    ~Rollback => \A c \in K : \A p \in DOMAIN c : c[p][1] = r => Used(s, c[p][2])

OffersKept(s, t, K) == \A b : \A x \in ItemsT : Offer(s, K, b, x) => Offer(t, K, b, x)

LEMMA SubmitLeads ==
    ASSUME NEW r \in Replicas, NEW K, Family(K), NEW s, Fit(s, r, K), Clear(s, K),
           NEW i \in WritesOf(r), ~Rejected(s, s.chain, i), Fresh(s, r, i), AllUsed(s, r, K)
    PROVE  LET u == Captured(s, i)
               t == Pump(u)
           IN /\ Fit(t, r, K) /\ Settles_(u, t) /\ Extends(s.calls, t.calls)
              /\ u.pending = s.pending \cup {i} /\ u.res = s.res /\ u.me = s.me /\ u.salt = s.salt
              /\ u \in RepT(r, K)
              /\ ~Rollback => i \in t.pending
              /\ OffersKept(s, t, K)
<1> USE DEF Fresh, AllUsed, Captured, OffersKept
<1>1. /\ s \in RepT(r, K) /\ s.chain \in K /\ s.chain \in ItemsT /\ s.me = r
      /\ s.calls \in CallsT(K) /\ s.append \in BatchT(K)
    BY ChainFields
<1>2. s.pending \subseteq Nat /\ s.pending \in Finite(WritesOf(r)) /\ WritesOf(r) \subseteq Nat
    <2>1. s.pending \in Finite(WritesOf(r))
        BY <1>1 DEF RepT
    <2>2. WritesOf(r) \subseteq Nat
        BY ReplicaAssumption DEF WritesOf
    <2> QED
        BY <2>1, <2>2 DEF Finite
<1>3. PICK P : P = s.pending \cup {i}
    OBVIOUS
<1>4. P \in Finite(WritesOf(r))
    BY <1>2, <1>3, FS_AddElement DEF Finite
<1>5. PICK u : u = [s EXCEPT !.pending = @ \cup {i}]
    OBVIOUS
<1>6. u \in RepT(r, K)
    BY <1>1, <1>3, <1>4, <1>5 DEF RepT
<1>7. /\ u.me = r /\ u.chain = s.chain /\ u.pending = P /\ u.res = s.res
      /\ u.resurrected = s.resurrected /\ u.salt = s.salt /\ u.calls = s.calls
      /\ u.append = s.append
    BY <1>1, <1>3, <1>5 DEF RepT
<1>8. ASSUME NEW b, NEW x \in ItemsT, Offer(s, K, b, x) PROVE Offer(u, K, b, x)
    <2>1. CASE b \o x \in K
        BY <2>1 DEF Offer
    <2>2. CASE Planned(s, b, x)
        <3>1. ASSUME NEW n \in DOMAIN x, ~Rollback, i < x[n][2] PROVE FALSE
            <4>1. PICK a : a = x[n]
                OBVIOUS
            <4>2. a \in ItemT
                BY <4>1 DEF ItemsT
            <4>3. a[1] = r /\ Used(s, a[2])
                BY <1>1, <2>2, <3>1, <4>1 DEF Planned, Used
            <4>4. a[2] \in WritesOf(r) /\ a[2] \in Nat
                BY <4>2, <4>3, ItemFields
            <4>5. a[2] >= i
                BY <1>2, <3>1, <4>1, <4>4
            <4> QED
                BY <4>3, <4>4, <4>5 DEF Used
        <3>2. Planned(u, b, x)
            BY <1>1, <1>3, <1>7, <2>2, <3>1 DEF Planned
        <3> QED
            BY <3>2 DEF Offer
    <2> QED
        BY <1>8, <2>1, <2>2 DEF Offer
<1>9. \A j \in DOMAIN u.calls : Offer(u, K, u.calls[j].base, u.calls[j].items)
    <2> SUFFICES ASSUME NEW j \in DOMAIN s.calls
                 PROVE  Offer(u, K, s.calls[j].base, s.calls[j].items)
        BY <1>7
    <2>1. PICK b, x : b = s.calls[j].base /\ x = s.calls[j].items
        OBVIOUS
    <2>2. x \in ItemsT
        BY <1>1, <2>1, CallFields
    <2>3. Offer(s, K, b, x)
        BY <2>1 DEF Fit
    <2>4. Offer(u, K, b, x)
        BY <1>8, <2>2, <2>3
    <2> QED
        BY <2>1, <2>4
<1>10. Offer(u, K, u.append.base, u.append.items)
    <2>1. PICK b, x : b = s.append.base /\ x = s.append.items
        OBVIOUS
    <2>2. x \in ItemsT /\ Offer(s, K, b, x)
        BY <1>1, <2>1 DEF Fit, BatchT
    <2>3. Offer(u, K, b, x)
        BY <1>8, <2>2
    <2> QED
        BY <1>7, <2>1, <2>3
<1>11. ~Rollback => Truthful(u)
    BY <1>1, <1>7 DEF Truthful, Fit
<1>12. Fit(u, r, K)
    BY <1>6, <1>9, <1>10, <1>11 DEF Fit
<1>13. Clear(u, K)
    <2> SUFFICES ASSUME ~Rollback, NEW c \in K, NEW p \in DOMAIN c, NEW j \in P,
                        c[p][1] = r, j < c[p][2]
                 PROVE  \E q \in DOMAIN c : WriteOf(c[q]) = <<r, j>>
        BY <1>7 DEF Clear
    <2>1. j # i
        <3> SUFFICES ASSUME i < c[p][2] PROVE FALSE
            OBVIOUS
        <3>1. PICK a : a = c[p]
            OBVIOUS
        <3>2. a \in ItemT
            BY <3>1 DEF Family, ItemsT
        <3>3. a[1] = r /\ Used(s, a[2])
            BY <3>1
        <3>4. a[2] \in WritesOf(r) /\ a[2] \in Nat
            BY <3>2, <3>3, ItemFields
        <3>5. a[2] >= i
            BY <1>2, <3>1, <3>4
        <3> QED
            BY <3>3, <3>4, <3>5 DEF Used
    <2> QED
        BY <1>1, <1>3, <2>1 DEF Clear
<1>14. PICK t : t = Pump(u)
    OBVIOUS
<1>15. Leads(u, t, r, K)
    BY <1>12, <1>13, <1>14, PumpLeads
<1>16. Fit(t, r, K) /\ Settles_(u, t) /\ Extends(s.calls, t.calls)
    BY <1>7, <1>15 DEF Leads
<1>17. ASSUME ~Rollback PROVE i \in t.pending
    <2>1. i \in P
        BY <1>3
    <2>2. i \notin RejectedRows(u)
        <3>1. Rejected(u, u.chain, i) <=> Rejected(s, s.chain, i)
            BY <1>1, <1>7 DEF Rejected
        <3> QED
            BY <3>1 DEF RejectedRows
    <2>3. i \notin ConfirmedRows(u)
        <3> SUFFICES ASSUME <<r, i>> \in WritesIn(s.chain) PROVE FALSE
            BY <1>7 DEF ConfirmedRows
        <3>1. PICK p \in DOMAIN s.chain : <<r, i>> = WriteOf(s.chain[p])
            BY DEF WritesIn
        <3>2. s.chain[p][1] = r /\ s.chain[p][2] = i
            BY <3>1 DEF WriteOf
        <3>3. Used(s, i)
            BY <1>1, <1>17, <3>2
        <3>4. i >= i
            BY <1>2
        <3> QED
            BY <3>3, <3>4 DEF Used
    <2> QED
        BY <1>7, <1>12, <1>14, <1>17, <2>1, <2>2, <2>3, PumpSettles
<1>18. \A b : \A x \in ItemsT : Offer(s, K, b, x) => Offer(t, K, b, x)
    <2> SUFFICES ASSUME NEW b, NEW x \in ItemsT, Offer(s, K, b, x) PROVE Offer(t, K, b, x)
        OBVIOUS
    <2>1. Offer(u, K, b, x)
        BY <1>8
    <2>2. t \in RepT(r, K)
        BY <1>16 DEF Fit
    <2> QED
        BY <1>6, <1>16, <2>1, <2>2, OfferKept
<1> QED
    BY <1>1, <1>3, <1>5, <1>6, <1>7, <1>14, <1>16, <1>17, <1>18

-----------------------------------------------------------------------------
(***************************************************************************)
(* What a chain that was the log once says of the log, of what it lost and *)
(* of the replicas.                                                        *)
(***************************************************************************)
\* Without rollbacks: the writes are in their authors' capture order and no two of them
\* compete; each is captured, and none captured before it and still pending is missing; and
\* the log has them still, or has lost some writes.
Told(c, lg, ls, rp) ==
    /\ \A p \in DOMAIN c : c[p][3] <= rp[c[p][1]].salt
    /\ ~Rollback =>
        /\ \A p, q \in DOMAIN c : p < q /\ c[p][1] = c[q][1] => c[p][2] < c[q][2]
        /\ \A p, q \in DOMAIN c :
              c[p][1] # c[q][1] /\ c[p][2] = c[q][2] => c[p][2] \notin Contended
        /\ \A p \in DOMAIN c : Used(rp[c[p][1]], c[p][2])
        /\ \A p \in DOMAIN c : \A j \in rp[c[p][1]].pending :
              j < c[p][2] => \E q \in DOMAIN c : q < p /\ WriteOf(c[q]) = <<c[p][1], j>>
        /\ WritesIn(c) \subseteq WritesIn(lg) \cup ls
        /\ ls = {} => IsPrefix(c, lg)

Chains(lg, ls, rp) == {c \in ItemsT : Told(c, lg, ls, rp)}

LEMMA PrefixIs ==
    ASSUME NEW c \in ItemsT, NEW n \in 0..Len(c)
    PROVE  /\ Prefix(c, n) \in ItemsT /\ Len(Prefix(c, n)) = n /\ DOMAIN Prefix(c, n) = 1..n
           /\ \A p \in 1..n : Prefix(c, n)[p] = c[p]
           /\ DOMAIN c = 1..Len(c) /\ Len(c) \in Nat
<1>1. c \in Seq(ItemT) /\ Len(c) \in Nat /\ DOMAIN c = 1..Len(c)
    BY DEF ItemsT
<1>2. \A i \in 1..n : c[i] \in ItemT
    BY <1>1
<1>3. /\ SubSeq(c, 1, n) \in Seq(ItemT)
      /\ Len(SubSeq(c, 1, n)) = IF 1 <= n THEN n - 1 + 1 ELSE 0
      /\ \A i \in 1..(n - 1 + 1) : SubSeq(c, 1, n)[i] = c[1 + i - 1]
    BY <1>1, <1>2, SubSeqProperties
<1>4. Len(SubSeq(c, 1, n)) = n /\ \A i \in 1..n : SubSeq(c, 1, n)[i] = c[i]
    BY <1>1, <1>3
<1> QED
    BY <1>1, <1>3, <1>4 DEF Prefix, ItemsT

LEMMA PrefixAlike ==
    ASSUME NEW c \in ItemsT, NEW d \in ItemsT
    PROVE  /\ IsPrefix(c, d) <=> Len(c) <= Len(d) /\ \A p \in 1..Len(c) : c[p] = d[p]
           /\ IsPrefix(c, d) <=> Len(c) \in 0..Len(d) /\ c = Prefix(d, Len(c))
<1>1. Len(c) \in Nat /\ Len(d) \in Nat /\ DOMAIN c = 1..Len(c)
    BY DEF ItemsT
<1>2. SubSeq(c, 1, Len(c)) = c
    BY SubSeqFull DEF ItemsT
<1>3. IsPrefix(c, d) <=> Len(c) <= Len(d) /\ c = SubSeq(d, 1, Len(c))
    BY <1>2 DEF IsPrefix
<1>4. ASSUME Len(c) <= Len(d)
      PROVE  c = SubSeq(d, 1, Len(c)) <=> \A p \in 1..Len(c) : c[p] = d[p]
    <2>1. PICK n : n = Len(c)
        OBVIOUS
    <2>2. n \in 0..Len(d)
        BY <1>1, <1>4, <2>1
    <2>3. PICK e : e = SubSeq(d, 1, n)
        OBVIOUS
    <2>4. e \in Seq(ItemT) /\ Len(e) = n /\ \A p \in 1..n : e[p] = d[p]
        BY <2>2, <2>3, PrefixIs DEF Prefix, ItemsT
    <2>5. c \in Seq(ItemT)
        BY DEF ItemsT
    <2>6. (\A p \in 1..n : c[p] = e[p]) => c = e
        BY <2>1, <2>4, <2>5, SeqEqual
    <2> QED
        BY <2>1, <2>3, <2>4, <2>6
<1> QED
    BY <1>1, <1>3, <1>4 DEF Prefix

LEMMA PrefixOn ==
    ASSUME NEW c \in ItemsT, NEW d \in ItemsT, NEW e \in ItemsT, IsPrefix(c, d), IsPrefix(d, e)
    PROVE  IsPrefix(c, e)
<1>1. Len(c) \in Nat /\ Len(d) \in Nat /\ Len(e) \in Nat
    BY DEF ItemsT
<1>2. Len(c) <= Len(d) /\ \A p \in 1..Len(c) : c[p] = d[p]
    BY PrefixAlike
<1>3. Len(d) <= Len(e) /\ \A p \in 1..Len(d) : d[p] = e[p]
    BY PrefixAlike
<1>4. Len(c) <= Len(e) /\ \A p \in 1..Len(c) : c[p] = e[p]
    BY <1>1, <1>2, <1>3
<1> QED
    BY <1>4, PrefixAlike

LEMMA Joined ==
    ASSUME NEW b \in ItemsT, NEW x \in ItemsT
    PROVE  /\ b \o x \in ItemsT /\ Len(b \o x) = Len(b) + Len(x)
           /\ DOMAIN (b \o x) = 1..(Len(b) + Len(x)) /\ DOMAIN b = 1..Len(b) /\ DOMAIN x = 1..Len(x)
           /\ Len(b) \in Nat /\ Len(x) \in Nat
           /\ \A p \in 1..Len(b) : (b \o x)[p] = b[p]
           /\ \A p \in 1..Len(x) : (b \o x)[Len(b) + p] = x[p]
           /\ \A p \in 1..(Len(b) + Len(x)) :
                  p > Len(b) => p - Len(b) \in 1..Len(x) /\ (b \o x)[p] = x[p - Len(b)]
           /\ IsPrefix(b, b \o x)
<1>1. b \in Seq(ItemT) /\ x \in Seq(ItemT) /\ Len(b) \in Nat /\ Len(x) \in Nat
    BY DEF ItemsT
<1>2. PICK c : c = b \o x
    OBVIOUS
<1>3. /\ c \in Seq(ItemT) /\ Len(c) = Len(b) + Len(x)
      /\ \A i \in 1..(Len(b) + Len(x)) : c[i] = IF i <= Len(b) THEN b[i] ELSE x[i - Len(b)]
    BY <1>1, <1>2, ConcatProperties
<1>4. \A p \in 1..Len(b) : c[p] = b[p]
    BY <1>1, <1>3
<1>5. \A p \in 1..Len(x) : c[Len(b) + p] = x[p]
    <2> SUFFICES ASSUME NEW p \in 1..Len(x) PROVE c[Len(b) + p] = x[p]
        OBVIOUS
    <2>1. PICK i : i = Len(b) + p
        OBVIOUS
    <2>2. i \in 1..(Len(b) + Len(x)) /\ ~(i <= Len(b)) /\ i - Len(b) = p
        BY <1>1, <2>1
    <2>3. c[i] = x[i - Len(b)]
        BY <1>3, <2>2
    <2> QED
        BY <2>1, <2>2, <2>3
<1>6. \A p \in 1..(Len(b) + Len(x)) :
          p > Len(b) => p - Len(b) \in 1..Len(x) /\ c[p] = x[p - Len(b)]
    BY <1>1, <1>3
<1>7. c \in ItemsT /\ DOMAIN c = 1..(Len(b) + Len(x)) /\ DOMAIN b = 1..Len(b)
      /\ DOMAIN x = 1..Len(x)
    BY <1>1, <1>3 DEF ItemsT
<1>8. Len(b) <= Len(c)
    BY <1>1, <1>3
<1>9. \A p \in 1..Len(b) : b[p] = c[p]
    BY <1>4
<1>10. IsPrefix(b, c)
    BY <1>7, <1>8, <1>9, PrefixAlike
<1>11. /\ c \in ItemsT /\ Len(c) = Len(b) + Len(x) /\ DOMAIN c = 1..(Len(b) + Len(x))
       /\ \A p \in 1..Len(b) : c[p] = b[p]
       /\ \A p \in 1..Len(x) : c[Len(b) + p] = x[p]
       /\ \A p \in 1..(Len(b) + Len(x)) :
              p > Len(b) => p - Len(b) \in 1..Len(x) /\ c[p] = x[p - Len(b)]
       /\ IsPrefix(b, c)
    BY <1>3, <1>4, <1>5, <1>6, <1>7, <1>10
<1> QED
    BY <1>1, <1>2, <1>7, <1>11

LEMMA ItemAt ==
    ASSUME NEW c \in ItemsT, NEW p \in DOMAIN c
    PROVE  /\ c[p] \in ItemT /\ c[p][1] \in Replicas /\ c[p][2] \in Nat /\ c[p][3] \in Nat
           /\ c[p][2] \in WritesOf(c[p][1]) /\ WriteOf(c[p]) = <<c[p][1], c[p][2]>>
           /\ WriteOf(c[p]) \in Writes /\ p \in Nat /\ p >= 1 /\ p <= Len(c) /\ Len(c) \in Nat
<1>1. PICK a : a = c[p]
    OBVIOUS
<1>2. a \in ItemT /\ p \in Nat /\ p >= 1 /\ p <= Len(c) /\ Len(c) \in Nat
    BY <1>1 DEF ItemsT
<1>3. /\ a[1] \in Replicas /\ a[2] \in Nat /\ a[3] \in Nat /\ WriteOf(a) \in Writes
      /\ a[2] \in WritesOf(a[1])
    BY <1>2, ItemFields
<1>4. WriteOf(a) = <<a[1], a[2]>>
    BY DEF WriteOf
<1> QED
    BY <1>1, <1>2, <1>3, <1>4

LEMMA WritesGrow ==
    ASSUME NEW c \in ItemsT, NEW d \in ItemsT, IsPrefix(c, d)
    PROVE  WritesIn(c) \subseteq WritesIn(d)
<1>1. Len(c) <= Len(d) /\ \A p \in 1..Len(c) : c[p] = d[p]
    BY PrefixAlike
<1>2. DOMAIN c = 1..Len(c) /\ DOMAIN d = 1..Len(d) /\ Len(c) \in Nat /\ Len(d) \in Nat
    BY DEF ItemsT
<1>3. \A p \in DOMAIN c : p \in DOMAIN d /\ c[p] = d[p]
    BY <1>1, <1>2
<1> QED
    BY <1>3 DEF WritesIn

LEMMA ToldPrefix ==
    ASSUME NEW c \in ItemsT, NEW lg \in ItemsT, NEW ls, NEW rp, Told(c, lg, ls, rp),
           NEW n \in 0..Len(c)
    PROVE  Told(Prefix(c, n), lg, ls, rp)
<1>1. PICK d : d = Prefix(c, n)
    OBVIOUS
<1>2. /\ d \in ItemsT /\ Len(d) = n /\ DOMAIN d = 1..n /\ \A p \in 1..n : d[p] = c[p]
      /\ DOMAIN c = 1..Len(c) /\ Len(c) \in Nat
    BY <1>1, PrefixIs
<1>3. \A p \in DOMAIN d : p \in DOMAIN c /\ d[p] = c[p]
    BY <1>2
<1>4. IsPrefix(d, c)
    BY <1>2, PrefixAlike
<1>5. \A p \in DOMAIN d : d[p][3] <= rp[d[p][1]].salt
    BY <1>3 DEF Told
<1>6. ASSUME ~Rollback
      PROVE  /\ \A p, q \in DOMAIN d : p < q /\ d[p][1] = d[q][1] => d[p][2] < d[q][2]
             /\ \A p, q \in DOMAIN d :
                   d[p][1] # d[q][1] /\ d[p][2] = d[q][2] => d[p][2] \notin Contended
             /\ \A p \in DOMAIN d : Used(rp[d[p][1]], d[p][2])
    BY <1>3, <1>6 DEF Told
<1>7. ASSUME ~Rollback, NEW p \in DOMAIN d, NEW j \in rp[d[p][1]].pending, j < d[p][2]
      PROVE  \E q \in DOMAIN d : q < p /\ WriteOf(d[q]) = <<d[p][1], j>>
    <2>1. p \in DOMAIN c /\ d[p] = c[p]
        BY <1>3
    <2>2. PICK q \in DOMAIN c : q < p /\ WriteOf(c[q]) = <<c[p][1], j>>
        BY <1>7, <2>1 DEF Told
    <2>3. q \in DOMAIN d /\ d[q] = c[q]
        BY <1>2, <2>1, <2>2
    <2> QED
        BY <2>1, <2>2, <2>3
<1>8. ASSUME ~Rollback
      PROVE  WritesIn(d) \subseteq WritesIn(lg) \cup ls /\ (ls = {} => IsPrefix(d, lg))
    <2>1. WritesIn(c) \subseteq WritesIn(lg) \cup ls /\ (ls = {} => IsPrefix(c, lg))
        BY <1>8 DEF Told
    <2>2. WritesIn(d) \subseteq WritesIn(c)
        BY <1>2, <1>4, WritesGrow
    <2>3. IsPrefix(c, lg) => IsPrefix(d, lg)
        BY <1>2, <1>4, PrefixOn
    <2> QED
        BY <2>1, <2>2, <2>3
<1>9. Told(d, lg, ls, rp)
    BY <1>5, <1>6, <1>7, <1>8 DEF Told
<1> QED
    BY <1>1, <1>9

LEMMA ToldNothing ==
    ASSUME NEW lg \in ItemsT, NEW ls, NEW rp
    PROVE  << >> \in ItemsT /\ Told(<< >>, lg, ls, rp)
<1>1. << >> \in ItemsT /\ DOMAIN << >> = {} /\ Len(<< >>) = 0 /\ Len(lg) \in Nat
    BY DEF ItemsT
<1>2. IsPrefix(<< >>, lg)
    <2>1. PICK c : c = << >>
        OBVIOUS
    <2>2. c \in ItemsT /\ Len(c) = 0 /\ Len(c) <= Len(lg) /\ 1..Len(c) = {}
        BY <1>1, <2>1
    <2>3. \A p \in 1..Len(c) : c[p] = lg[p]
        BY <2>2
    <2>4. IsPrefix(c, lg)
        BY <2>2, <2>3, PrefixAlike
    <2> QED
        BY <2>1, <2>4
<1>3. WritesIn(<< >>) = {}
    BY <1>1 DEF WritesIn
<1> QED
    BY <1>1, <1>2, <1>3 DEF Told

LEMMA ChainsFamily ==
    ASSUME NEW lg \in ItemsT, NEW ls, NEW rp
    PROVE  Family(Chains(lg, ls, rp))
<1>1. << >> \in Chains(lg, ls, rp)
    BY ToldNothing DEF Chains
<1>2. ASSUME NEW c \in Chains(lg, ls, rp), NEW n \in 0..Len(c)
      PROVE  Prefix(c, n) \in Chains(lg, ls, rp)
    <2>1. c \in ItemsT /\ Told(c, lg, ls, rp)
        BY DEF Chains
    <2>2. Prefix(c, n) \in ItemsT /\ Told(Prefix(c, n), lg, ls, rp)
        BY <2>1, PrefixIs, ToldPrefix
    <2> QED
        BY <2>2 DEF Chains
<1>3. Chains(lg, ls, rp) \subseteq ItemsT
    BY DEF Chains
<1> QED
    BY <1>1, <1>2, <1>3 DEF Family

LEMMA ToldStep ==
    ASSUME NEW c \in ItemsT, NEW lg, NEW ls, NEW rp, NEW rp2, Told(c, lg, ls, rp),
           \A q \in Replicas : /\ Settles_(rp[q], rp2[q]) /\ rp[q].me = q
                               /\ rp[q].salt \in Nat /\ rp2[q].salt \in Nat
    PROVE  Told(c, lg, ls, rp2)
<1>1. ASSUME NEW p \in DOMAIN c PROVE c[p][3] <= rp2[c[p][1]].salt
    <2>1. PICK a : a = c[p][1]
        OBVIOUS
    <2>2. a \in Replicas /\ c[p][3] \in Nat
        BY <2>1, ItemAt
    <2>3. c[p][3] <= rp[a].salt
        BY <2>1 DEF Told
    <2>4. rp[a].salt \in Nat /\ rp2[a].salt \in Nat /\ rp[a].salt <= rp2[a].salt
        BY <2>2 DEF Settles_
    <2> QED
        BY <2>1, <2>2, <2>3, <2>4
<1>2. ASSUME ~Rollback, NEW p \in DOMAIN c PROVE Used(rp2[c[p][1]], c[p][2])
    <2>1. PICK a, i : a = c[p][1] /\ i = c[p][2]
        OBVIOUS
    <2>2. a \in Replicas /\ i \in WritesOf(a)
        BY <2>1, ItemAt
    <2>3. Used(rp[a], i)
        BY <1>2, <2>1 DEF Told
    <2>4. /\ i \in rp[a].pending /\ i \notin rp2[a].pending => rp2[a].res[i] # "none"
          /\ i \notin rp[a].pending => rp2[a].res[i] = rp[a].res[i]
        BY <1>2, <2>2 DEF Settles_
    <2>5. Used(rp2[a], i)
        BY <2>3, <2>4 DEF Used
    <2> QED
        BY <2>1, <2>5
<1>3. ASSUME ~Rollback, NEW p \in DOMAIN c, NEW j \in rp2[c[p][1]].pending, j < c[p][2]
      PROVE  \E q \in DOMAIN c : q < p /\ WriteOf(c[q]) = <<c[p][1], j>>
    <2>1. PICK a : a = c[p][1]
        OBVIOUS
    <2>2. a \in Replicas
        BY <2>1, ItemAt
    <2>3. rp2[a].pending \subseteq rp[a].pending
        BY <1>3, <2>2 DEF Settles_
    <2>4. j \in rp[c[p][1]].pending
        BY <2>1, <2>3
    <2> QED
        BY <1>3, <2>4 DEF Told
<1>4. ~Rollback =>
        /\ \A p, q \in DOMAIN c : p < q /\ c[p][1] = c[q][1] => c[p][2] < c[q][2]
        /\ \A p, q \in DOMAIN c :
              c[p][1] # c[q][1] /\ c[p][2] = c[q][2] => c[p][2] \notin Contended
        /\ WritesIn(c) \subseteq WritesIn(lg) \cup ls
        /\ ls = {} => IsPrefix(c, lg)
    BY DEF Told
<1> QED
    BY <1>1, <1>2, <1>3, <1>4 DEF Told

LEMMA ToldSubmit ==
    ASSUME NEW c \in ItemsT, NEW lg, NEW ls, NEW rp, NEW rp2, Told(c, lg, ls, rp),
           NEW r \in Replicas, NEW i \in WritesOf(r), NEW u,
           u.pending = rp[r].pending \cup {i}, u.res = rp[r].res, u.salt = rp[r].salt,
           \A j \in WritesOf(r) : j >= i => j \notin rp[r].pending /\ rp[r].res[j] = "none",
           rp2[r] = u, \A q \in Replicas : q # r => rp2[q] = rp[q]
    PROVE  Told(c, lg, ls, rp2)
<1>1. ASSUME NEW p \in DOMAIN c PROVE c[p][3] <= rp2[c[p][1]].salt
    <2>1. PICK a : a = c[p][1]
        OBVIOUS
    <2>2. a \in Replicas
        BY <2>1, ItemAt
    <2>3. c[p][3] <= rp[a].salt
        BY <2>1 DEF Told
    <2>4. rp2[a].salt = rp[a].salt
        BY <2>2
    <2> QED
        BY <2>1, <2>3, <2>4
<1>2. ASSUME ~Rollback, NEW p \in DOMAIN c PROVE Used(rp2[c[p][1]], c[p][2])
    <2>1. PICK a, j : a = c[p][1] /\ j = c[p][2]
        OBVIOUS
    <2>2. a \in Replicas
        BY <2>1, ItemAt
    <2>3. Used(rp[a], j)
        BY <1>2, <2>1 DEF Told
    <2>4. Used(rp2[a], j)
        BY <2>2, <2>3 DEF Used
    <2> QED
        BY <2>1, <2>4
<1>3. ASSUME ~Rollback, NEW p \in DOMAIN c, NEW j \in rp2[c[p][1]].pending, j < c[p][2]
      PROVE  \E q \in DOMAIN c : q < p /\ WriteOf(c[q]) = <<c[p][1], j>>
    <2>1. PICK a, m : a = c[p][1] /\ m = c[p][2]
        OBVIOUS
    <2>2. a \in Replicas /\ m \in WritesOf(a) /\ m \in Nat
        BY <2>1, ItemAt
    <2>3. Used(rp[a], m)
        BY <1>3, <2>1 DEF Told
    <2>4. ASSUME a = r, j = i PROVE FALSE
        <3>1. i \in Nat /\ i < m
            BY <1>3, <2>1, <2>4, ReplicaAssumption DEF WritesOf
        <3>2. m >= i
            BY <2>2, <3>1
        <3> QED
            BY <2>2, <2>3, <2>4, <3>2 DEF Used
    <2>5. j \in rp[a].pending
        BY <2>1, <2>2, <2>4
    <2> QED
        BY <1>3, <2>1, <2>5 DEF Told
<1>4. ~Rollback =>
        /\ \A p, q \in DOMAIN c : p < q /\ c[p][1] = c[q][1] => c[p][2] < c[q][2]
        /\ \A p, q \in DOMAIN c :
              c[p][1] # c[q][1] /\ c[p][2] = c[q][2] => c[p][2] \notin Contended
        /\ WritesIn(c) \subseteq WritesIn(lg) \cup ls
        /\ ls = {} => IsPrefix(c, lg)
    BY DEF Told
<1> QED
    BY <1>1, <1>2, <1>3, <1>4 DEF Told

LEMMA ToldLog ==
    ASSUME NEW c \in ItemsT, NEW lg, NEW ls, NEW lg2, NEW ls2, NEW rp, Told(c, lg, ls, rp),
           ~Rollback => /\ WritesIn(lg) \cup ls \subseteq WritesIn(lg2) \cup ls2
                        /\ ls2 = {} => ls = {} /\ (IsPrefix(c, lg) => IsPrefix(c, lg2))
    PROVE  Told(c, lg2, ls2, rp)
<1>1. ~Rollback => WritesIn(c) \subseteq WritesIn(lg2) \cup ls2 /\ (ls2 = {} => IsPrefix(c, lg2))
    <2> SUFFICES ASSUME ~Rollback
                 PROVE  WritesIn(c) \subseteq WritesIn(lg2) \cup ls2 /\ (ls2 = {} => IsPrefix(c, lg2))
        OBVIOUS
    <2>1. WritesIn(c) \subseteq WritesIn(lg) \cup ls /\ (ls = {} => IsPrefix(c, lg))
        BY DEF Told
    <2> QED
        BY <2>1
<1>2. /\ \A p \in DOMAIN c : c[p][3] <= rp[c[p][1]].salt
      /\ ~Rollback =>
        /\ \A p, q \in DOMAIN c : p < q /\ c[p][1] = c[q][1] => c[p][2] < c[q][2]
        /\ \A p, q \in DOMAIN c :
              c[p][1] # c[q][1] /\ c[p][2] = c[q][2] => c[p][2] \notin Contended
        /\ \A p \in DOMAIN c : Used(rp[c[p][1]], c[p][2])
        /\ \A p \in DOMAIN c : \A j \in rp[c[p][1]].pending :
              j < c[p][2] => \E q \in DOMAIN c : q < p /\ WriteOf(c[q]) = <<c[p][1], j>>
    BY DEF Told
<1> QED
    BY <1>1, <1>2 DEF Told

LEMMA ToldMore ==
    ASSUME NEW c \in ItemsT, NEW lg \in ItemsT, NEW ls, NEW rp, Told(c, lg, ls, rp),
           NEW lg2 \in ItemsT, IsPrefix(lg, lg2)
    PROVE  Told(c, lg2, ls, rp)
<1>1. WritesIn(lg) \subseteq WritesIn(lg2)
    BY WritesGrow
<1>2. IsPrefix(c, lg) => IsPrefix(c, lg2)
    BY PrefixOn
<1> QED
    BY <1>1, <1>2, ToldLog

LEMMA ToldLost ==
    ASSUME NEW c \in ItemsT, NEW lg \in ItemsT, NEW ls, NEW rp, Told(c, lg, ls, rp),
           Told(lg, lg, ls, rp), NEW n \in 0..Len(lg), n < Len(lg),
           NEW ls2, ls2 = ls \cup (WritesIn(lg) \ WritesIn(Prefix(lg, n)))
    PROVE  /\ Told(c, Prefix(lg, n), ls2, rp)
           /\ ~Rollback => WriteOf(lg[n + 1]) \in ls2
<1>1. PICK lg2 : lg2 = Prefix(lg, n)
    OBVIOUS
<1>2. /\ lg2 \in ItemsT /\ Len(lg2) = n /\ DOMAIN lg2 = 1..n /\ \A p \in 1..n : lg2[p] = lg[p]
      /\ DOMAIN lg = 1..Len(lg) /\ Len(lg) \in Nat
    BY <1>1, PrefixIs
<1>3. ASSUME ~Rollback PROVE WriteOf(lg[n + 1]) \in ls2
    <2>1. PICK m : m = n + 1
        OBVIOUS
    <2>2. m \in DOMAIN lg /\ m \in Nat /\ n \in Nat
        BY <1>2, <2>1
    <2>3. WriteOf(lg[m]) \in WritesIn(lg)
        BY <2>2 DEF WritesIn
    <2>4. ASSUME WriteOf(lg[m]) \in WritesIn(lg2) PROVE FALSE
        <3>1. PICK p \in DOMAIN lg2 : WriteOf(lg[m]) = WriteOf(lg2[p])
            BY <2>4 DEF WritesIn
        <3>2. p \in DOMAIN lg /\ p < m /\ lg2[p] = lg[p]
            BY <1>2, <2>1, <2>2
        <3>3. lg[m][1] = lg[p][1] /\ lg[m][2] = lg[p][2]
            BY <3>1, <3>2 DEF WriteOf
        <3>4. lg[p][2] < lg[m][2]
            BY <1>3, <2>2, <3>2, <3>3 DEF Told
        <3>5. lg[p][2] \in Nat
            BY <3>2, ItemAt
        <3> QED
            BY <3>3, <3>4, <3>5
    <2> QED
        BY <1>1, <2>1, <2>3, <2>4
<1>4. WritesIn(lg) \cup ls \subseteq WritesIn(lg2) \cup ls2
    BY <1>1
<1>5. Told(c, lg2, ls2, rp)
    <2>1. ~Rollback => ls2 # {}
        BY <1>3
    <2>2. ~Rollback => /\ WritesIn(lg) \cup ls \subseteq WritesIn(lg2) \cup ls2
                       /\ ls2 = {} => ls = {} /\ (IsPrefix(c, lg) => IsPrefix(c, lg2))
        BY <1>4, <2>1
    <2> QED
        BY <2>2, ToldLog
<1> QED
    BY <1>1, <1>3, <1>5

LEMMA ToldPublished ==
    ASSUME NEW lg \in ItemsT, NEW x \in ItemsT, NEW ls, NEW rp, Told(lg, lg, ls, rp),
           NEW r \in Replicas, rp[r].me = r, Planned(rp[r], lg, x)
    PROVE  Told(lg \o x, lg \o x, ls, rp)
<1>1. PICK c, n, k : c = lg \o x /\ n = Len(lg) /\ k = Len(x)
    OBVIOUS
<1>2. /\ c \in ItemsT /\ Len(c) = n + k /\ DOMAIN c = 1..(n + k)
      /\ DOMAIN lg = 1..n /\ DOMAIN x = 1..k /\ n \in Nat /\ k \in Nat
      /\ \A p \in 1..n : c[p] = lg[p]
      /\ \A p \in 1..k : c[n + p] = x[p]
      /\ \A p \in 1..(n + k) : p > n => p - n \in 1..k /\ c[p] = x[p - n]
      /\ IsPrefix(lg, c)
    BY <1>1, Joined
<1>3. \A p \in DOMAIN c : \/ p \in DOMAIN lg /\ c[p] = lg[p]
                          \/ p > n /\ p - n \in DOMAIN x /\ c[p] = x[p - n]
    BY <1>2
<1>4. \A m \in DOMAIN x :
        /\ x[m][1] = r
        /\ x[m][3] <= rp[r].salt
        /\ ~Rollback =>
            /\ Used(rp[r], x[m][2])
            /\ \A p \in DOMAIN lg : lg[p][1] = r => lg[p][2] < x[m][2]
            /\ \A p \in DOMAIN lg : lg[p][2] = x[m][2] /\ lg[p][1] # r => lg[p][2] \notin Contended
            /\ \A l \in DOMAIN x : l < m => x[l][2] < x[m][2]
            /\ \A j \in rp[r].pending : j < x[m][2] =>
                  \/ \E p \in DOMAIN lg : WriteOf(lg[p]) = <<r, j>>
                  \/ \E l \in DOMAIN x : l < m /\ x[l][2] = j
    BY DEF Planned, Used
<1>5. ASSUME NEW p \in DOMAIN c PROVE c[p][3] <= rp[c[p][1]].salt
    <2>1. CASE p \in DOMAIN lg /\ c[p] = lg[p]
        BY <2>1 DEF Told
    <2>2. CASE p > n /\ p - n \in DOMAIN x /\ c[p] = x[p - n]
        BY <1>4, <2>2
    <2> QED
        BY <1>3, <2>1, <2>2
<1>6. ASSUME ~Rollback, NEW p \in DOMAIN c, NEW q \in DOMAIN c, p < q, c[p][1] = c[q][1]
      PROVE  c[p][2] < c[q][2]
    <2>1. p \in Nat /\ q \in Nat
        BY <1>2
    <2>2. CASE q \in DOMAIN lg /\ c[q] = lg[q]
        <3>1. p \in DOMAIN lg /\ c[p] = lg[p]
            BY <1>2, <1>6, <2>1, <2>2
        <3> QED
            BY <1>6, <2>2, <3>1 DEF Told
    <2>3. CASE q > n /\ q - n \in DOMAIN x /\ c[q] = x[q - n]
        <3>1. PICK m : m = q - n
            OBVIOUS
        <3>2. m \in DOMAIN x /\ c[q] = x[m]
            BY <2>3, <3>1
        <3>3. CASE p \in DOMAIN lg /\ c[p] = lg[p]
            BY <1>4, <1>6, <3>2, <3>3
        <3>4. CASE p > n /\ p - n \in DOMAIN x /\ c[p] = x[p - n]
            <4>1. PICK l : l = p - n
                OBVIOUS
            <4>2. l \in DOMAIN x /\ c[p] = x[l] /\ l < m
                BY <1>2, <1>6, <2>1, <3>1, <3>4, <4>1
            <4> QED
                BY <1>4, <1>6, <3>2, <4>2
        <3> QED
            BY <1>3, <3>3, <3>4
    <2> QED
        BY <1>3, <2>2, <2>3
<1>7. ASSUME ~Rollback, NEW p \in DOMAIN c, NEW q \in DOMAIN c,
             c[p][1] # c[q][1], c[p][2] = c[q][2]
      PROVE  c[p][2] \notin Contended
    <2>1. CASE p \in DOMAIN lg /\ c[p] = lg[p] /\ q \in DOMAIN lg /\ c[q] = lg[q]
        BY <1>7, <2>1 DEF Told
    <2>2. CASE p \in DOMAIN lg /\ c[p] = lg[p] /\ q - n \in DOMAIN x /\ c[q] = x[q - n]
        BY <1>4, <1>7, <2>2
    <2>3. CASE q \in DOMAIN lg /\ c[q] = lg[q] /\ p - n \in DOMAIN x /\ c[p] = x[p - n]
        BY <1>4, <1>7, <2>3
    <2>4. CASE q - n \in DOMAIN x /\ c[q] = x[q - n] /\ p - n \in DOMAIN x /\ c[p] = x[p - n]
        BY <1>4, <1>7, <2>4
    <2> QED
        BY <1>3, <2>1, <2>2, <2>3, <2>4
<1>8. ASSUME ~Rollback, NEW p \in DOMAIN c PROVE Used(rp[c[p][1]], c[p][2])
    <2>1. CASE p \in DOMAIN lg /\ c[p] = lg[p]
        BY <1>8, <2>1 DEF Told
    <2>2. CASE p > n /\ p - n \in DOMAIN x /\ c[p] = x[p - n]
        BY <1>4, <1>8, <2>2
    <2> QED
        BY <1>3, <2>1, <2>2
<1>9. ASSUME ~Rollback, NEW p \in DOMAIN c, NEW j \in rp[c[p][1]].pending, j < c[p][2]
      PROVE  \E q \in DOMAIN c : q < p /\ WriteOf(c[q]) = <<c[p][1], j>>
    <2>1. \A q \in DOMAIN lg : q \in DOMAIN c /\ c[q] = lg[q]
        BY <1>2
    <2>2. CASE p \in DOMAIN lg /\ c[p] = lg[p]
        <3>1. PICK q \in DOMAIN lg : q < p /\ WriteOf(lg[q]) = <<lg[p][1], j>>
            BY <1>9, <2>2 DEF Told
        <3> QED
            BY <2>1, <2>2, <3>1
    <2>3. CASE p > n /\ p - n \in DOMAIN x /\ c[p] = x[p - n]
        <3>1. PICK m : m = p - n
            OBVIOUS
        <3>2. m \in DOMAIN x /\ c[p] = x[m] /\ c[p][1] = r /\ p \in Nat
            BY <1>2, <1>4, <2>3, <3>1
        <3>3. CASE \E q \in DOMAIN lg : WriteOf(lg[q]) = <<r, j>>
            <4>1. PICK q \in DOMAIN lg : WriteOf(lg[q]) = <<r, j>>
                BY <3>3
            <4>2. q < p
                BY <1>2, <2>3, <3>2
            <4> QED
                BY <2>1, <3>2, <4>1, <4>2
        <3>4. CASE \E l \in DOMAIN x : l < m /\ x[l][2] = j
            <4>1. PICK l \in DOMAIN x : l < m /\ x[l][2] = j
                BY <3>4
            <4>2. PICK q : q = n + l
                OBVIOUS
            <4>3. q \in DOMAIN c /\ q < p /\ c[q] = x[l]
                BY <1>2, <3>1, <3>2, <4>1, <4>2
            <4>4. WriteOf(c[q]) = <<r, j>>
                BY <1>4, <4>1, <4>3 DEF WriteOf
            <4> QED
                BY <3>2, <4>3, <4>4
        <3> QED
            BY <1>4, <1>9, <3>2, <3>3, <3>4
    <2> QED
        BY <1>3, <2>2, <2>3
<1>10. IsPrefix(c, c)
    BY <1>2, PrefixAlike
<1>11. Told(c, c, ls, rp)
    BY <1>5, <1>6, <1>7, <1>8, <1>9, <1>10 DEF Told
<1> QED
    BY <1>1, <1>11

LEMMA CallGrows ==
    ASSUME NEW K, NEW K2, K \subseteq K2
    PROVE  CallsT(K) \subseteq CallsT(K2) /\ BatchT(K) \subseteq BatchT(K2)
<1>1. AnsT(K) \subseteq AnsT(K2)
    BY DEF AnsT
<1>2. CallT(K) \subseteq CallT(K2)
    BY <1>1 DEF CallT
<1>3. CallsT(K) \subseteq CallsT(K2)
    BY <1>2 DEF CallsT
<1> QED
    BY <1>3 DEF BatchT

LEMMA OfferGrows ==
    ASSUME NEW K, NEW K2, K \subseteq K2, NEW s, NEW b, NEW x, Offer(s, K, b, x)
    PROVE  Offer(s, K2, b, x)
    BY DEF Offer

LEMMA FitGrows ==
    ASSUME NEW r, NEW K, NEW K2, K \subseteq K2, NEW s, Fit(s, r, K)
    PROVE  Fit(s, r, K2)
<1>1. s \in RepT(r, K)
    BY DEF Fit
<1>2. CallsT(K) \subseteq CallsT(K2) /\ BatchT(K) \subseteq BatchT(K2)
    BY CallGrows
<1>3. s \in RepT(r, K2)
    BY <1>1, <1>2 DEF RepT
<1>4. \A j \in DOMAIN s.calls : Offer(s, K2, s.calls[j].base, s.calls[j].items)
    BY OfferGrows DEF Fit
<1>5. Offer(s, K2, s.append.base, s.append.items)
    BY OfferGrows DEF Fit
<1> QED
    BY <1>3, <1>4, <1>5 DEF Fit

\* The service's answer to the call j, and the page it may be.
WithAnswer(s, j, a) == [s EXCEPT !.calls[j].ans = a]
PageFits(a, c) == a.upto <= Len(c.base) \/ a.upto <= Len(a.log)

Awaits(s, j, a, K) == j \in DOMAIN s.calls /\ a \in AnsT(K) /\ PageFits(a, s.calls[j])

\* Nothing but the answer changes.
AnswersOnly(s, t, j, a) ==
    /\ t.pending = s.pending /\ t.res = s.res /\ t.chain = s.chain /\ t.me = s.me
    /\ t.salt = s.salt
    /\ DOMAIN t.calls = DOMAIN s.calls /\ Len(t.calls) = Len(s.calls)
    /\ t.calls[j].ans = a
    /\ \A m \in DOMAIN s.calls : m # j => t.calls[m] = s.calls[m]

LEMMA AnswerFit ==
    ASSUME NEW r, NEW K, Family(K), NEW s, Fit(s, r, K), NEW j, NEW a, Awaits(s, j, a, K)
    PROVE  LET t == WithAnswer(s, j, a) IN
           Fit(t, r, K) /\ Settles_(s, t) /\ AnswersOnly(s, t, j, a)
<1>1. s \in RepT(r, K) /\ s.calls \in CallsT(K) /\ s.salt \in Nat /\ s.append \in BatchT(K)
    BY ChainFields
<1>2. PICK cs : cs = s.calls
    OBVIOUS
<1>3. cs \in CallsT(K) /\ j \in DOMAIN cs /\ a \in AnsT(K) /\ PageFits(a, cs[j])
    BY <1>1, <1>2 DEF Awaits
<1>4. PICK c : c = cs[j]
    OBVIOUS
<1>5. c \in CallT(K)
    BY <1>3, <1>4, CallFields
<1>6. PICK d : d = [c EXCEPT !.ans = a]
    OBVIOUS
<1>7. d \in CallT(K) /\ d.ans = a /\ d.base = c.base /\ d.items = c.items
    <2>1. c \in [k : Kinds, base : K, items : ItemsT, p : Nat, cur : BOOLEAN, ans : AnsT(K)]
        BY <1>5 DEF CallT
    <2>2. /\ d \in [k : Kinds, base : K, items : ItemsT, p : Nat, cur : BOOLEAN, ans : AnsT(K)]
          /\ d.ans = a /\ d.base = c.base /\ d.items = c.items
        BY <1>3, <1>6, <2>1
    <2>3. PageOK(d)
        BY <1>3, <1>4, <2>2 DEF PageOK, PageFits
    <2> QED
        BY <2>2, <2>3 DEF CallT
<1>8. PICK ds : ds = [cs EXCEPT ![j] = d]
    OBVIOUS
<1>9. /\ ds \in CallsT(K) /\ DOMAIN ds = DOMAIN cs /\ Len(ds) = Len(cs) /\ ds[j] = d
      /\ \A m \in DOMAIN cs : m # j => ds[m] = cs[m]
    BY <1>3, <1>7, <1>8 DEF CallsT
<1>10. PICK t : t = [s EXCEPT !.calls = ds]
    OBVIOUS
<1>11. WithAnswer(s, j, a) = t
    BY <1>2, <1>4, <1>6, <1>8, <1>10 DEF WithAnswer
<1>12. t \in RepT(r, K)
    BY <1>1, <1>9, <1>10 DEF RepT
<1>13. /\ t.chain = s.chain /\ t.pending = s.pending /\ t.res = s.res /\ t.me = s.me
       /\ t.resurrected = s.resurrected /\ t.salt = s.salt /\ t.calls = ds
       /\ t.append = s.append
    BY <1>1, <1>10 DEF RepT
<1>14. Settles_(s, t)
    BY <1>1, <1>13 DEF Settles_
<1>15. \A m \in DOMAIN t.calls : Offer(t, K, t.calls[m].base, t.calls[m].items)
    <2> SUFFICES ASSUME NEW m \in DOMAIN cs PROVE Offer(t, K, ds[m].base, ds[m].items)
        BY <1>9, <1>13
    <2>1. PICK b, x : b = cs[m].base /\ x = cs[m].items
        OBVIOUS
    <2>2. ds[m].base = b /\ ds[m].items = x
        BY <1>4, <1>7, <1>9, <2>1
    <2>3. x \in ItemsT
        BY <1>3, <2>1, CallFields
    <2>4. Offer(s, K, b, x)
        BY <1>2, <2>1 DEF Fit
    <2>5. Offer(t, K, b, x)
        BY <1>1, <1>12, <1>14, <2>3, <2>4, OfferKept
    <2> QED
        BY <2>2, <2>5
<1>16. Offer(t, K, t.append.base, t.append.items)
    <2>1. PICK b, x : b = s.append.base /\ x = s.append.items
        OBVIOUS
    <2>2. x \in ItemsT /\ Offer(s, K, b, x)
        BY <1>1, <2>1 DEF Fit, BatchT
    <2>3. Offer(t, K, b, x)
        BY <1>1, <1>12, <1>14, <2>2, OfferKept
    <2> QED
        BY <1>13, <2>1, <2>3
<1>17. ~Rollback => Truthful(t)
    BY <1>13 DEF Truthful, Fit
<1>18. Fit(t, r, K)
    BY <1>12, <1>15, <1>16, <1>17 DEF Fit
<1>19. AnswersOnly(s, t, j, a)
    BY <1>2, <1>7, <1>9, <1>13 DEF AnswersOnly
<1> QED
    BY <1>11, <1>14, <1>18, <1>19

LEMMA ChainsClear ==
    ASSUME NEW lg, NEW ls, NEW rp, NEW r, rp[r].me = r
    PROVE  Clear(rp[r], Chains(lg, ls, rp))
<1> SUFFICES ASSUME ~Rollback, NEW c \in Chains(lg, ls, rp), NEW p \in DOMAIN c,
                    NEW j \in rp[r].pending, c[p][1] = r, j < c[p][2]
             PROVE  \E q \in DOMAIN c : WriteOf(c[q]) = <<r, j>>
    BY DEF Clear
<1>1. Told(c, lg, ls, rp)
    BY DEF Chains
<1>2. j \in rp[c[p][1]].pending
    OBVIOUS
<1>3. \E q \in DOMAIN c : q < p /\ WriteOf(c[q]) = <<c[p][1], j>>
    BY <1>1, <1>2 DEF Told
<1> QED
    BY <1>3

-----------------------------------------------------------------------------
(***************************************************************************)
(* A session's replies and its answered calls.                             *)
(***************************************************************************)
FrameT(K) == [log : K, from : Nat]
Replies(fr) == {j \in DOMAIN fr : fr[j] = Reply}

\* The first n calls are answered, and at most as many replies are on their way.
Served(cs, fr, n) ==
    /\ n \in 0..Len(cs)
    /\ \A j \in DOMAIN cs : cs[j].ans.t # "wait" <=> j <= n
    /\ Cardinality(Replies(fr)) <= n

FrontOK(cs, fr) == \E n \in Nat : Served(cs, fr, n)

LEMMA RepliesFinite ==
    ASSUME NEW K, NEW fr \in Seq(FrameT(K))
    PROVE  /\ IsFiniteSet(Replies(fr)) /\ Cardinality(Replies(fr)) \in Nat
           /\ Replies(fr) \subseteq 1..Len(fr) /\ Len(fr) \in Nat /\ DOMAIN fr = 1..Len(fr)
<1>1. Len(fr) \in Nat /\ DOMAIN fr = 1..Len(fr)
    OBVIOUS
<1>2. IsFiniteSet(1..Len(fr))
    BY <1>1, FS_Interval
<1>3. Replies(fr) \subseteq 1..Len(fr)
    BY <1>1 DEF Replies
<1>4. IsFiniteSet(Replies(fr))
    BY <1>2, <1>3, FS_Subset
<1> QED
    BY <1>1, <1>3, <1>4, FS_CardinalityType

LEMMA RepliesTail ==
    ASSUME NEW K, NEW fr \in Seq(FrameT(K)), fr # << >>
    PROVE  /\ Tail(fr) \in Seq(FrameT(K))
           /\ Head(fr) \in FrameT(K)
           /\ Cardinality(Replies(Tail(fr))) <= Cardinality(Replies(fr))
           /\ Head(fr) = Reply => Cardinality(Replies(Tail(fr))) <= Cardinality(Replies(fr)) - 1
           /\ Head(fr) = Reply => Cardinality(Replies(fr)) >= 1
<1>1. PICK d, k : d = Tail(fr) /\ k = Len(fr)
    OBVIOUS
<1>2. /\ d \in Seq(FrameT(K)) /\ k \in Nat /\ k >= 1 /\ Len(d) = k - 1 /\ Head(fr) = fr[1]
      /\ \A j \in 1..(k - 1) : d[j] = fr[j + 1]
      /\ DOMAIN fr = 1..k /\ DOMAIN d = 1..(k - 1) /\ fr[1] \in FrameT(K)
    BY <1>1
<1>3. PICK A, B : A = Replies(fr) \ {1} /\ B = Replies(d)
    OBVIOUS
<1>4. IsFiniteSet(Replies(fr)) /\ Cardinality(Replies(fr)) \in Nat
    BY RepliesFinite
<1>5. /\ IsFiniteSet(A)
      /\ Cardinality(A) = IF 1 \in Replies(fr) THEN Cardinality(Replies(fr)) - 1
                          ELSE Cardinality(Replies(fr))
    BY <1>3, <1>4, FS_RemoveElement
<1>6. PICK f : f = [j \in A |-> j - 1]
    OBVIOUS
<1>7. f \in Surjection(A, B)
    <2>1. \A j \in A : j \in 2..k /\ fr[j] = Reply
        BY <1>2, <1>3 DEF Replies
    <2>2. ASSUME NEW j \in A PROVE j - 1 \in B
        <3>1. PICK i : i = j - 1
            OBVIOUS
        <3>2. i \in 1..(k - 1) /\ i + 1 = j
            BY <1>2, <2>1, <3>1
        <3>3. d[i] = Reply
            BY <1>2, <2>1, <3>2
        <3> QED
            BY <1>2, <1>3, <3>1, <3>2, <3>3 DEF Replies
    <2>3. ASSUME NEW i \in B PROVE \E j \in A : f[j] = i
        <3>1. PICK j : j = i + 1
            OBVIOUS
        <3>2. i \in 1..(k - 1) /\ d[i] = Reply
            BY <1>2, <1>3 DEF Replies
        <3>3. j \in 2..k /\ fr[j] = Reply /\ j - 1 = i
            BY <1>2, <3>1, <3>2
        <3>4. j \in A
            BY <1>2, <1>3, <3>3 DEF Replies
        <3> QED
            BY <1>6, <3>3, <3>4
    <2>4. f \in [A -> B]
        BY <1>6, <2>2
    <2> QED
        BY <2>3, <2>4 DEF Surjection
<1>8. Cardinality(B) <= Cardinality(A)
    BY <1>5, <1>7, FS_Surjection DEF ExistsSurjection
<1>9. Head(fr) = Reply <=> 1 \in Replies(fr)
    BY <1>2 DEF Replies
<1>10. Cardinality(B) \in Nat /\ Cardinality(A) \in Nat
    <2>1. Cardinality(A) \in Nat
        BY <1>5, FS_CardinalityType
    <2>2. Cardinality(B) \in Nat
        BY <1>2, <1>3, RepliesFinite
    <2> QED
        BY <2>1, <2>2
<1> QED
    BY <1>1, <1>2, <1>3, <1>4, <1>5, <1>8, <1>9, <1>10

LEMMA RepliesAppend ==
    ASSUME NEW K, NEW fr \in Seq(FrameT(K)), NEW m \in FrameT(K)
    PROVE  /\ Append(fr, m) \in Seq(FrameT(K))
           /\ m # Reply => Cardinality(Replies(Append(fr, m))) = Cardinality(Replies(fr))
           /\ Cardinality(Replies(Append(fr, m))) <= Cardinality(Replies(fr)) + 1
<1>1. PICK d, k : d = Append(fr, m) /\ k = Len(fr)
    OBVIOUS
<1>2. /\ d \in Seq(FrameT(K)) /\ k \in Nat /\ Len(d) = k + 1
      /\ \A j \in 1..k : d[j] = fr[j]
      /\ d[k + 1] = m
      /\ DOMAIN fr = 1..k /\ DOMAIN d = 1..(k + 1)
    BY <1>1
<1>3. Replies(d) = Replies(fr) \cup (IF m = Reply THEN {k + 1} ELSE {})
    BY <1>2 DEF Replies
<1>4. IsFiniteSet(Replies(fr)) /\ Cardinality(Replies(fr)) \in Nat
    BY RepliesFinite
<1>5. Cardinality(Replies(fr) \cup {k + 1}) <= Cardinality(Replies(fr)) + 1
    <2>1. PICK S, x : S = Replies(fr) /\ x = k + 1
        OBVIOUS
    <2>2. IsFiniteSet(S) /\ Cardinality(S) \in Nat
        BY <1>4, <2>1
    <2>3. Cardinality(S \cup {x}) = IF x \in S THEN Cardinality(S) ELSE Cardinality(S) + 1
        BY <2>2, FS_AddElement
    <2>4. Cardinality(S \cup {x}) <= Cardinality(S) + 1
        BY <2>2, <2>3
    <2> QED
        BY <2>1, <2>4
<1>6. m # Reply => Cardinality(Replies(d)) = Cardinality(Replies(fr))
    BY <1>3
<1>7. Cardinality(Replies(d)) <= Cardinality(Replies(fr)) + 1
    <2>1. CASE m = Reply
        BY <1>3, <1>5, <2>1
    <2>2. CASE m # Reply
        BY <1>4, <1>6, <2>2
    <2> QED
        BY <2>1, <2>2
<1> QED
    BY <1>1, <1>2, <1>6, <1>7

LEMMA FrontExtends ==
    ASSUME NEW K, NEW c \in CallsT(K), NEW d \in CallsT(K), Extends(c, d), NEW fr,
           FrontOK(c, fr)
    PROVE  FrontOK(d, fr)
<1>1. PICK n \in Nat : Served(c, fr, n)
    BY DEF FrontOK
<1>2. /\ DOMAIN c = 1..Len(c) /\ DOMAIN d = 1..Len(d) /\ Len(c) \in Nat /\ Len(d) \in Nat
      /\ Len(c) <= Len(d)
    BY DEF CallsT, Extends
<1>3. n \in 0..Len(d)
    BY <1>1, <1>2 DEF Served
<1>4. ASSUME NEW j \in DOMAIN d PROVE d[j].ans.t # "wait" <=> j <= n
    <2>1. CASE j \in DOMAIN c
        BY <1>1, <2>1 DEF Served, Extends
    <2>2. CASE j \notin DOMAIN c
        <3>1. j > Len(c) /\ ~(j <= n)
            BY <1>1, <1>2, <2>2 DEF Served
        <3>2. d[j].ans = Wait
            BY <3>1 DEF Extends
        <3> QED
            BY <3>1, <3>2 DEF Wait
    <2> QED
        BY <2>1, <2>2
<1>5. Served(d, fr, n)
    BY <1>1, <1>3, <1>4 DEF Served
<1> QED
    BY <1>5 DEF FrontOK

LEMMA FrontFrames ==
    ASSUME NEW K, NEW c \in CallsT(K), NEW fr \in Seq(FrameT(K)), NEW fr2 \in Seq(FrameT(K)),
           FrontOK(c, fr), Cardinality(Replies(fr2)) <= Cardinality(Replies(fr))
    PROVE  FrontOK(c, fr2)
<1>1. PICK n \in Nat : Served(c, fr, n)
    BY DEF FrontOK
<1>2. Cardinality(Replies(fr)) \in Nat /\ Cardinality(Replies(fr2)) \in Nat
    BY RepliesFinite
<1>3. Served(c, fr2, n)
    BY <1>1, <1>2 DEF Served
<1> QED
    BY <1>3 DEF FrontOK

LEMMA FrontReply ==
    ASSUME NEW K, NEW c \in CallsT(K), NEW fr \in Seq(FrameT(K)), FrontOK(c, fr),
           fr # << >>, Head(fr) = Reply
    PROVE  c # << >> /\ Tail(c) \in CallsT(K) /\ FrontOK(Tail(c), Tail(fr))
<1>1. PICK n \in Nat : Served(c, fr, n)
    BY DEF FrontOK
<1>2. PICK a, b : a = Cardinality(Replies(fr)) /\ b = Cardinality(Replies(Tail(fr)))
    OBVIOUS
<1>3. Tail(fr) \in Seq(FrameT(K)) /\ b <= a - 1 /\ a >= 1
    BY <1>2, RepliesTail
<1>4. a \in Nat /\ b \in Nat
    BY <1>2, <1>3, RepliesFinite
<1>5. a <= n /\ n \in 0..Len(c)
    BY <1>1, <1>2 DEF Served
<1>6. Len(c) \in Nat /\ Len(c) >= 1 /\ n >= 1 /\ n - 1 \in Nat
    BY <1>3, <1>4, <1>5 DEF CallsT
<1>7. PICK d, m : d = Tail(c) /\ m = n - 1
    OBVIOUS
<1>8. /\ c # << >> /\ d \in CallsT(K) /\ Len(d) = Len(c) - 1 /\ DOMAIN d = 1..(Len(c) - 1)
      /\ \A j \in DOMAIN d : j + 1 \in DOMAIN c /\ d[j] = c[j + 1]
    BY <1>6, <1>7 DEF CallsT
<1>9. m \in 0..Len(d) /\ b <= m /\ m \in Nat
    BY <1>3, <1>4, <1>5, <1>6, <1>7, <1>8
<1>10. ASSUME NEW j \in DOMAIN d PROVE d[j].ans.t # "wait" <=> j <= m
    <2>1. PICK i : i = j + 1
        OBVIOUS
    <2>2. i \in DOMAIN c /\ d[j] = c[i] /\ (i <= n <=> j <= m)
        BY <1>6, <1>7, <1>8, <2>1
    <2>3. c[i].ans.t # "wait" <=> i <= n
        BY <1>1, <2>2 DEF Served
    <2> QED
        BY <2>2, <2>3
<1>11. Served(d, Tail(fr), m)
    BY <1>2, <1>9, <1>10 DEF Served
<1> QED
    BY <1>7, <1>8, <1>9, <1>11 DEF FrontOK

LEMMA FrontFresh ==
    ASSUME NEW K, NEW c \in CallsT(K), \A j \in DOMAIN c : c[j].ans = Wait
    PROVE  FrontOK(c, << >>)
<1>1. Len(c) \in Nat /\ \A j \in DOMAIN c : j \in Nat /\ j >= 1
    BY DEF CallsT
<1>2. Replies(<< >>) = {}
    BY DEF Replies
<1>3. Cardinality(Replies(<< >>)) = 0
    BY <1>2, FS_EmptySet
<1>4. Served(c, << >>, 0)
    BY <1>1, <1>3 DEF Served, Wait
<1> QED
    BY <1>4 DEF FrontOK

LEMMA FrontIs ==
    ASSUME NEW K, NEW c \in CallsT(K), NEW fr, NEW n \in Nat, Served(c, fr, n)
    PROVE  /\ {j \in DOMAIN c : c[j].ans.t # "wait"} = 1..n
           /\ Cardinality({j \in DOMAIN c : c[j].ans.t # "wait"}) = n
<1>1. DOMAIN c = 1..Len(c) /\ Len(c) \in Nat /\ n \in 0..Len(c)
    BY DEF CallsT, Served
<1>2. {j \in DOMAIN c : c[j].ans.t # "wait"} = 1..n
    BY <1>1 DEF Served
<1>3. Cardinality(1..n) = n
    BY FS_Interval
<1> QED
    BY <1>2, <1>3

LEMMA FrontAnswer ==
    ASSUME NEW K, NEW c \in CallsT(K), NEW d \in CallsT(K), NEW fr, NEW n \in Nat,
           Served(c, fr, n), n + 1 \in DOMAIN c, DOMAIN d = DOMAIN c, Len(d) = Len(c),
           d[n + 1].ans.t # "wait", \A m \in DOMAIN c : m # n + 1 => d[m] = c[m],
           NEW fr2, Cardinality(Replies(fr2)) <= n + 1
    PROVE  FrontOK(d, fr2)
<1>1. DOMAIN c = 1..Len(c) /\ Len(c) \in Nat
    BY DEF CallsT
<1>2. PICK i : i = n + 1
    OBVIOUS
<1>3. i \in Nat /\ i \in 0..Len(d) /\ i \in DOMAIN c
    BY <1>1, <1>2
<1>4. ASSUME NEW j \in DOMAIN d PROVE d[j].ans.t # "wait" <=> j <= i
    <2>1. CASE j = i
        BY <1>2, <1>3, <2>1
    <2>2. CASE j # i
        <3>1. d[j] = c[j] /\ j \in DOMAIN c
            BY <1>2, <2>2
        <3>2. c[j].ans.t # "wait" <=> j <= n
            BY <3>1 DEF Served
        <3>3. j <= n <=> j <= i
            BY <1>1, <1>2, <2>2, <3>1
        <3> QED
            BY <3>1, <3>2, <3>3
    <2> QED
        BY <2>1, <2>2
<1>5. Served(d, fr2, i)
    BY <1>2, <1>3, <1>4 DEF Served
<1> QED
    BY <1>3, <1>5 DEF FrontOK

-----------------------------------------------------------------------------
(***************************************************************************)
(* The invariant, as a property of the state's parts.                      *)
(***************************************************************************)
RepsInv(rp, K) == DOMAIN rp = Replicas /\ \A q \in Replicas : Fit(rp[q], q, K)

\* An append of an ended session is what some replica may offer.
LateInv(lt, rp, K) ==
    \A a \in lt : /\ a.base \in K /\ a.items \in ItemsT
                  /\ \E q \in Replicas : Offer(rp[q], K, a.base, a.items)

FrontInv(rp, fr) == \A q \in Replicas : FrontOK(rp[q].calls, fr[q])

FramesT(K) == [Replicas -> Seq(FrameT(K))]

LEMMA FramesGrow ==
    ASSUME NEW K, NEW K2, K \subseteq K2
    PROVE  FramesT(K) \subseteq FramesT(K2) /\ Seq(FrameT(K)) \subseteq Seq(FrameT(K2))
<1>1. FrameT(K) \subseteq FrameT(K2)
    BY DEF FrameT
<1>2. Seq(FrameT(K)) \subseteq Seq(FrameT(K2))
    BY <1>1
<1> QED
    BY <1>2 DEF FramesT

LEMMA RepFields ==
    ASSUME NEW K, Family(K), NEW rp, RepsInv(rp, K), NEW q \in Replicas
    PROVE  /\ Fit(rp[q], q, K) /\ rp[q] \in RepT(q, K) /\ rp[q].me = q /\ rp[q].salt \in Nat
           /\ rp[q].calls \in CallsT(K)
<1>1. Fit(rp[q], q, K)
    BY DEF RepsInv
<1> QED
    BY <1>1, ChainFields

LEMMA SettlesSelf ==
    ASSUME NEW r, NEW K, NEW s \in RepT(r, K)
    PROVE  Settles_(s, s)
<1>1. s.salt \in Nat
    BY DEF RepT
<1> QED
    BY <1>1 DEF Settles_

\* Replica r alone has changed, to t.
Changed(rp, rp2, r, t) ==
    DOMAIN rp2 = Replicas /\ rp2[r] = t /\ \A q \in Replicas : q # r => rp2[q] = rp[q]

LEMMA RepsMove ==
    ASSUME NEW K, NEW K2, K \subseteq K2, NEW rp, NEW rp2, NEW r \in Replicas, NEW t,
           RepsInv(rp, K), Changed(rp, rp2, r, t), Fit(t, r, K), OffersKept(rp[r], t, K),
           NEW lt, LateInv(lt, rp, K)
    PROVE  RepsInv(rp2, K2) /\ LateInv(lt, rp2, K2)
<1>1. /\ DOMAIN rp2 = Replicas /\ rp2[r] = t /\ \A q \in Replicas : q # r => rp2[q] = rp[q]
    BY DEF Changed
<1>2. ASSUME NEW q \in Replicas PROVE Fit(rp2[q], q, K2)
    <2>1. Fit(rp2[q], q, K)
        BY <1>1 DEF RepsInv
    <2> QED
        BY <2>1, FitGrows
<1>3. ASSUME NEW a \in lt
      PROVE  /\ a.base \in K2 /\ a.items \in ItemsT
             /\ \E q \in Replicas : Offer(rp2[q], K2, a.base, a.items)
    <2>1. PICK b, x : b = a.base /\ x = a.items
        OBVIOUS
    <2>2. b \in K2 /\ x \in ItemsT
        BY <2>1 DEF LateInv
    <2>3. PICK q \in Replicas : Offer(rp[q], K, b, x)
        BY <2>1 DEF LateInv
    <2>4. Offer(rp2[q], K, b, x)
        BY <1>1, <2>2, <2>3 DEF OffersKept
    <2>5. Offer(rp2[q], K2, b, x)
        BY <2>4, OfferGrows
    <2> QED
        BY <2>1, <2>2, <2>5
<1> QED
    BY <1>1, <1>2, <1>3 DEF RepsInv, LateInv

LEMMA ReplicaMoves ==
    ASSUME NEW lg \in ItemsT, NEW ls, NEW rp, NEW rp2, NEW r \in Replicas, NEW t,
           RepsInv(rp, Chains(lg, ls, rp)), rp2 = [rp EXCEPT ![r] = t],
           Fit(t, r, Chains(lg, ls, rp)), Settles_(rp[r], t),
           NEW lt, LateInv(lt, rp, Chains(lg, ls, rp))
    PROVE  /\ Chains(lg, ls, rp) \subseteq Chains(lg, ls, rp2)
           /\ RepsInv(rp2, Chains(lg, ls, rp2)) /\ LateInv(lt, rp2, Chains(lg, ls, rp2))
<1>1. PICK K, K2 : K = Chains(lg, ls, rp) /\ K2 = Chains(lg, ls, rp2)
    OBVIOUS
<1>2. Family(K)
    BY <1>1, ChainsFamily
<1>3. RepsInv(rp, K) /\ Fit(t, r, K) /\ LateInv(lt, rp, K)
    BY <1>1
<1>4. t \in RepT(r, K) /\ t.salt \in Nat
    BY <1>2, <1>3, ChainFields
<1>5. rp[r] \in RepT(r, K)
    BY <1>2, <1>3, RepFields
<1>6. rp2[r] = t /\ \A q \in Replicas : q # r => rp2[q] = rp[q]
    BY <1>3 DEF RepsInv
<1>7. ASSUME NEW q \in Replicas
      PROVE  Settles_(rp[q], rp2[q]) /\ rp[q].me = q /\ rp[q].salt \in Nat /\ rp2[q].salt \in Nat
    <2>1. rp[q] \in RepT(q, K) /\ rp[q].me = q /\ rp[q].salt \in Nat
        BY <1>2, <1>3, RepFields
    <2>2. CASE q = r
        BY <1>4, <1>6, <2>1, <2>2
    <2>3. CASE q # r
        BY <1>6, <2>1, <2>3, SettlesSelf
    <2> QED
        BY <2>2, <2>3
<1>8. K \subseteq K2
    <2> SUFFICES ASSUME NEW c \in K PROVE c \in K2
        OBVIOUS
    <2>1. c \in ItemsT /\ Told(c, lg, ls, rp)
        BY <1>1 DEF Chains
    <2>2. Told(c, lg, ls, rp2)
        BY <1>7, <2>1, ToldStep
    <2> QED
        BY <1>1, <2>1, <2>2 DEF Chains
<1>9. OffersKept(rp[r], t, K)
    BY <1>4, <1>5, OfferKept DEF OffersKept
<1>10. RepsInv(rp2, K2) /\ LateInv(lt, rp2, K2)
    <2>1. Changed(rp, rp2, r, t)
        BY <1>3 DEF Changed, RepsInv
    <2> QED
        BY <1>3, <1>8, <1>9, <2>1, RepsMove
<1> QED
    BY <1>1, <1>8, <1>10

\* The receipt of the captured write is pending, the others are settled as they may be.
SubmitSettles(s, t, i) == i \in t.pending /\ Settles_(Captured(s, i), t)

LEMMA SubmitMoves ==
    ASSUME NEW lg \in ItemsT, NEW ls, NEW rp, NEW rp2, NEW r \in Replicas,
           NEW i \in WritesOf(r), ~Rejected(rp[r], rp[r].chain, i),
           Fresh(rp[r], r, i), RepsInv(rp, Chains(lg, ls, rp)),
           Changed(rp, rp2, r, Pump(Captured(rp[r], i))),
           NEW lt, LateInv(lt, rp, Chains(lg, ls, rp))
    PROVE  /\ Chains(lg, ls, rp) \subseteq Chains(lg, ls, rp2)
           /\ RepsInv(rp2, Chains(lg, ls, rp2)) /\ LateInv(lt, rp2, Chains(lg, ls, rp2))
           /\ Extends(rp[r].calls, rp2[r].calls)
           /\ ~Rollback => SubmitSettles(rp[r], rp2[r], i)
<1>1. PICK K, K2, s, u : /\ K = Chains(lg, ls, rp) /\ K2 = Chains(lg, ls, rp2) /\ s = rp[r]
                         /\ u = Captured(rp[r], i)
    OBVIOUS
<1>2. PICK t : t = Pump(u)
    OBVIOUS
<1>3. Family(K)
    BY <1>1, ChainsFamily
<1>4. RepsInv(rp, K) /\ LateInv(lt, rp, K) /\ u = Captured(s, i) /\ Changed(rp, rp2, r, t)
    BY <1>1, <1>2
<1>5. Fit(s, r, K) /\ s \in RepT(r, K) /\ s.me = r /\ s.salt \in Nat
    BY <1>1, <1>3, <1>4, RepFields
<1>6. Clear(s, K)
    <2>1. rp[r].me = r
        BY <1>1, <1>5
    <2> QED
        BY <1>1, <2>1, ChainsClear
<1>7. AllUsed(s, r, K)
    BY <1>1 DEF Chains, Told, AllUsed
<1>8. ~Rejected(s, s.chain, i) /\ Fresh(s, r, i)
    BY <1>1
<1>9. /\ Fit(t, r, K) /\ Settles_(u, t) /\ Extends(s.calls, t.calls)
      /\ u.pending = s.pending \cup {i} /\ u.res = s.res /\ u.me = s.me /\ u.salt = s.salt
      /\ u \in RepT(r, K)
      /\ ~Rollback => i \in t.pending
      /\ OffersKept(s, t, K)
    BY <1>2, <1>3, <1>4, <1>5, <1>6, <1>7, <1>8, SubmitLeads
<1>10. t \in RepT(r, K) /\ t.salt \in Nat
    BY <1>3, <1>9, ChainFields
<1>11. PICK rpu : rpu = [rp EXCEPT ![r] = u]
    OBVIOUS
<1>12. /\ rpu[r] = u /\ rp2[r] = t
       /\ \A q \in Replicas : q # r => rpu[q] = rp[q] /\ rp2[q] = rp[q]
    BY <1>4, <1>11 DEF RepsInv, Changed
<1>13. ASSUME NEW q \in Replicas
       PROVE  /\ Settles_(rpu[q], rp2[q]) /\ rpu[q].me = q
              /\ rpu[q].salt \in Nat /\ rp2[q].salt \in Nat
    <2>1. rp[q] \in RepT(q, K) /\ rp[q].me = q /\ rp[q].salt \in Nat
        BY <1>3, <1>4, RepFields
    <2>2. CASE q = r
        BY <1>5, <1>9, <1>10, <1>12, <2>2
    <2>3. CASE q # r
        BY <1>12, <2>1, <2>3, SettlesSelf
    <2> QED
        BY <2>2, <2>3
<1>14. K \subseteq K2
    <2> SUFFICES ASSUME NEW c \in K PROVE c \in K2
        OBVIOUS
    <2>1. c \in ItemsT /\ Told(c, lg, ls, rp)
        BY <1>1 DEF Chains
    <2>2. u.pending = rp[r].pending \cup {i} /\ u.res = rp[r].res /\ u.salt = rp[r].salt
        BY <1>1, <1>9
    <2>3. Told(c, lg, ls, rpu)
        BY <1>12, <2>1, <2>2, ToldSubmit DEF Fresh
    <2>4. Told(c, lg, ls, rp2)
        BY <1>13, <2>1, <2>3, ToldStep
    <2> QED
        BY <1>1, <2>1, <2>4 DEF Chains
<1>15. OffersKept(rp[r], t, K) /\ Changed(rp, rp2, r, t)
    BY <1>1, <1>4, <1>9
<1>16. RepsInv(rp2, K2) /\ LateInv(lt, rp2, K2)
    BY <1>4, <1>9, <1>14, <1>15, RepsMove
<1>17. Extends(rp[r].calls, rp2[r].calls)
    BY <1>1, <1>9, <1>12
<1>18. ~Rollback => SubmitSettles(rp[r], rp2[r], i)
    BY <1>1, <1>4, <1>9, <1>12 DEF SubmitSettles
<1> QED
    BY <1>1, <1>14, <1>16, <1>17, <1>18

LEMMA LogMoves ==
    ASSUME NEW lg \in ItemsT, NEW ls, NEW lg2 \in ItemsT, NEW ls2, NEW rp,
           RepsInv(rp, Chains(lg, ls, rp)), NEW lt, LateInv(lt, rp, Chains(lg, ls, rp)),
           Chains(lg, ls, rp) \subseteq Chains(lg2, ls2, rp)
    PROVE  RepsInv(rp, Chains(lg2, ls2, rp)) /\ LateInv(lt, rp, Chains(lg2, ls2, rp))
<1>1. PICK K, K2 : K = Chains(lg, ls, rp) /\ K2 = Chains(lg2, ls2, rp)
    OBVIOUS
<1>2. K \subseteq K2 /\ RepsInv(rp, K) /\ LateInv(lt, rp, K)
    BY <1>1
<1>3. RepsInv(rp, K2)
    BY <1>2, FitGrows DEF RepsInv
<1>4. ASSUME NEW a \in lt
      PROVE  /\ a.base \in K2 /\ a.items \in ItemsT
             /\ \E q \in Replicas : Offer(rp[q], K2, a.base, a.items)
    <2>1. PICK b, x : b = a.base /\ x = a.items
        OBVIOUS
    <2>2. b \in K2 /\ x \in ItemsT
        BY <1>2, <2>1 DEF LateInv
    <2>3. PICK q \in Replicas : Offer(rp[q], K, b, x)
        BY <1>2, <2>1 DEF LateInv
    <2>4. Offer(rp[q], K2, b, x)
        BY <1>2, <2>3, OfferGrows
    <2> QED
        BY <2>1, <2>2, <2>4
<1>5. LateInv(lt, rp, K2)
    BY <1>4 DEF LateInv
<1> QED
    BY <1>1, <1>3, <1>5

LEMMA Publishes ==
    ASSUME NEW lg, NEW ls, NEW rp, lg \in Chains(lg, ls, rp),
           NEW r \in Replicas, rp[r].me = r, NEW x \in ItemsT,
           Offer(rp[r], Chains(lg, ls, rp), lg, x)
    PROVE  /\ lg \o x \in ItemsT
           /\ lg \o x \in Chains(lg \o x, ls, rp)
           /\ Chains(lg, ls, rp) \subseteq Chains(lg \o x, ls, rp)
<1>1. lg \in ItemsT /\ Told(lg, lg, ls, rp)
    BY DEF Chains
<1>2. PICK lg2 : lg2 = lg \o x
    OBVIOUS
<1>3. lg2 \in ItemsT /\ IsPrefix(lg, lg2)
    BY <1>1, <1>2, Joined
<1>4. Told(lg2, lg2, ls, rp)
    <2>1. CASE lg2 \in Chains(lg, ls, rp)
        <3>1. Told(lg2, lg, ls, rp)
            BY <2>1 DEF Chains
        <3> QED
            BY <1>1, <1>3, <3>1, ToldMore
    <2>2. CASE Planned(rp[r], lg, x)
        BY <1>1, <1>2, <2>2, ToldPublished
    <2> QED
        BY <1>2, <2>1, <2>2 DEF Offer
<1>5. Chains(lg, ls, rp) \subseteq Chains(lg2, ls, rp)
    <2> SUFFICES ASSUME NEW c \in ItemsT, Told(c, lg, ls, rp) PROVE Told(c, lg2, ls, rp)
        BY DEF Chains
    <2> QED
        BY <1>1, <1>3, ToldMore
<1>6. lg2 \in Chains(lg2, ls, rp)
    BY <1>3, <1>4 DEF Chains
<1> QED
    BY <1>2, <1>3, <1>5, <1>6

InvOf(lg, sb, fr, lt, ls, rp) ==
    /\ lg \in Chains(lg, ls, rp) /\ sb \subseteq Replicas /\ ls \subseteq Writes
    /\ fr \in FramesT(Chains(lg, ls, rp))
    /\ RepsInv(rp, Chains(lg, ls, rp)) /\ LateInv(lt, rp, Chains(lg, ls, rp))
    /\ FrontInv(rp, fr)

LEMMA InvFields ==
    ASSUME NEW lg, NEW sb, NEW fr, NEW lt, NEW ls, NEW rp, InvOf(lg, sb, fr, lt, ls, rp),
           NEW r \in Replicas
    PROVE  LET K == Chains(lg, ls, rp) IN
           /\ lg \in ItemsT /\ Family(K) /\ fr[r] \in Seq(FrameT(K)) /\ Fit(rp[r], r, K)
           /\ rp[r] \in RepT(r, K) /\ rp[r].me = r /\ rp[r].calls \in CallsT(K)
           /\ FrontOK(rp[r].calls, fr[r]) /\ Clear(rp[r], K) /\ RepsInv(rp, K)
           /\ LateInv(lt, rp, K)
<1>1. PICK K : K = Chains(lg, ls, rp)
    OBVIOUS
<1>2. lg \in ItemsT /\ fr \in FramesT(K) /\ RepsInv(rp, K) /\ FrontInv(rp, fr)
      /\ LateInv(lt, rp, K)
    BY <1>1 DEF InvOf, Chains
<1>3. Family(K)
    BY <1>1, <1>2, ChainsFamily
<1>4. /\ Fit(rp[r], r, K) /\ rp[r] \in RepT(r, K) /\ rp[r].me = r
      /\ rp[r].calls \in CallsT(K)
    BY <1>2, <1>3, RepFields
<1>5. fr[r] \in Seq(FrameT(K)) /\ FrontOK(rp[r].calls, fr[r])
    BY <1>2 DEF FramesT, FrontInv
<1>6. Clear(rp[r], K)
    BY <1>1, <1>4, ChainsClear
<1> QED
    BY <1>1, <1>2, <1>3, <1>4, <1>5, <1>6

\* The frames of the other replicas are as they were.
OthersKeep(fr, fr2, r) == \A q \in Replicas : q # r => fr2[q] = fr[q]

LEMMA OwnStep ==
    ASSUME NEW lg, NEW sb, NEW fr, NEW lt, NEW ls, NEW rp, InvOf(lg, sb, fr, lt, ls, rp),
           NEW r \in Replicas, NEW t, Fit(t, r, Chains(lg, ls, rp)), Settles_(rp[r], t),
           NEW rp2, rp2 = [rp EXCEPT ![r] = t],
           NEW fr2, fr2 \in FramesT(Chains(lg, ls, rp)), OthersKeep(fr, fr2, r),
           FrontOK(t.calls, fr2[r]), NEW sb2, sb2 \subseteq Replicas,
           NEW lt2, LateInv(lt2, rp, Chains(lg, ls, rp))
    PROVE  InvOf(lg, sb2, fr2, lt2, ls, rp2)
<1>1. PICK K, K2 : K = Chains(lg, ls, rp) /\ K2 = Chains(lg, ls, rp2)
    OBVIOUS
<1>2. lg \in K /\ lg \in ItemsT /\ ls \subseteq Writes /\ RepsInv(rp, K) /\ FrontInv(rp, fr)
    BY <1>1 DEF InvOf, Chains
<1>3. K \subseteq K2 /\ RepsInv(rp2, K2) /\ LateInv(lt2, rp2, K2)
    <2>1. RepsInv(rp, Chains(lg, ls, rp)) /\ LateInv(lt2, rp, Chains(lg, ls, rp))
        BY <1>1, <1>2
    <2>2. /\ Chains(lg, ls, rp) \subseteq Chains(lg, ls, rp2)
          /\ RepsInv(rp2, Chains(lg, ls, rp2)) /\ LateInv(lt2, rp2, Chains(lg, ls, rp2))
        BY <1>2, <2>1, ReplicaMoves
    <2> QED
        BY <1>1, <2>2
<1>4. fr2 \in FramesT(K2)
    BY <1>1, <1>3, FramesGrow
<1>5. FrontInv(rp2, fr2)
    <2>1. rp2[r] = t /\ \A q \in Replicas : q # r => rp2[q] = rp[q]
        BY <1>2 DEF RepsInv
    <2> QED
        BY <1>2, <2>1 DEF FrontInv, OthersKeep
<1> QED
    BY <1>1, <1>2, <1>3, <1>4, <1>5 DEF InvOf

\* Nobody has more replies on their way.
NoMoreReplies(fr, fr2) ==
    \A q \in Replicas : Cardinality(Replies(fr2[q])) <= Cardinality(Replies(fr[q]))

LEMMA LogStep ==
    ASSUME NEW lg, NEW sb, NEW fr, NEW lt, NEW ls, NEW rp, InvOf(lg, sb, fr, lt, ls, rp),
           NEW lg2, NEW ls2, ls2 \subseteq Writes, lg2 \in Chains(lg2, ls2, rp),
           Chains(lg, ls, rp) \subseteq Chains(lg2, ls2, rp),
           NEW fr2, fr2 \in FramesT(Chains(lg2, ls2, rp)), NoMoreReplies(fr, fr2),
           NEW lt2, lt2 \subseteq lt
    PROVE  InvOf(lg2, sb, fr2, lt2, ls2, rp)
<1>1. PICK K, K2 : K = Chains(lg, ls, rp) /\ K2 = Chains(lg2, ls2, rp)
    OBVIOUS
<1>2. /\ lg \in ItemsT /\ sb \subseteq Replicas /\ RepsInv(rp, K) /\ LateInv(lt, rp, K)
      /\ FrontInv(rp, fr) /\ fr \in FramesT(K) /\ lg2 \in ItemsT
    BY <1>1 DEF InvOf, Chains
<1>3. RepsInv(rp, K2) /\ LateInv(lt, rp, K2)
    BY <1>1, <1>2, LogMoves
<1>4. LateInv(lt2, rp, K2)
    BY <1>3 DEF LateInv
<1>5. ASSUME NEW q \in Replicas PROVE FrontOK(rp[q].calls, fr2[q])
    <2>1. K \subseteq K2 /\ fr2 \in FramesT(K2)
        BY <1>1
    <2>2. fr \in FramesT(K2)
        BY <1>2, <2>1, FramesGrow
    <2>3. fr[q] \in Seq(FrameT(K2)) /\ fr2[q] \in Seq(FrameT(K2))
        BY <2>1, <2>2 DEF FramesT
    <2>4. Family(K2)
        BY <1>1, <1>2, ChainsFamily
    <2>5. rp[q].calls \in CallsT(K2)
        BY <1>3, <2>4, RepFields
    <2>6. FrontOK(rp[q].calls, fr[q]) /\ Cardinality(Replies(fr2[q])) <= Cardinality(Replies(fr[q]))
        BY <1>2 DEF FrontInv, NoMoreReplies
    <2> QED
        BY <2>3, <2>5, <2>6, FrontFrames
<1> QED
    BY <1>1, <1>2, <1>3, <1>4, <1>5 DEF InvOf, FrontInv

Heard == Chains(log, lost, rep)

ReplicaInv == InvOf(log, subs, out, late, lost, rep)

LEMMA InvInit ==
    ASSUME Init
    PROVE  ReplicaInv
<1>1. PICK K : K = Chains(log, lost, rep)
    OBVIOUS
<1>2. log = << >> /\ log \in ItemsT /\ subs = {} /\ lost = {} /\ late = {}
    BY DEF Init, ItemsT
<1>3. Family(K)
    BY <1>1, <1>2, ChainsFamily
<1>4. log \in K
    BY <1>2, <1>3 DEF Family
<1>5. ASSUME NEW r \in Replicas
      PROVE  Fit(rep[r], r, K) /\ out[r] = << >> /\ FrontOK(rep[r].calls, out[r])
    <2>1. PICK s : s = NewReplica(r)
        OBVIOUS
    <2>2. Fit(s, r, K) /\ \A j \in DOMAIN s.calls : s.calls[j].ans = Wait
        BY <1>3, <2>1, NewFit
    <2>3. rep[r] = s /\ out[r] = << >>
        BY <2>1 DEF Init
    <2>4. s.calls \in CallsT(K)
        BY <1>3, <2>2, ChainFields
    <2>5. FrontOK(s.calls, << >>)
        BY <2>2, <2>4, FrontFresh
    <2> QED
        BY <2>2, <2>3, <2>5
<1>6. DOMAIN rep = Replicas
    BY DEF Init
<1>7. out \in FramesT(K)
    BY DEF Init, FramesT
<1>8. LateInv(late, rep, K)
    BY <1>2 DEF LateInv
<1>9. RepsInv(rep, K) /\ FrontInv(rep, out)
    BY <1>5, <1>6 DEF RepsInv, FrontInv
<1> QED
    BY <1>1, <1>2, <1>4, <1>7, <1>8, <1>9 DEF ReplicaInv, InvOf

-----------------------------------------------------------------------------
(***************************************************************************)
(* Every action keeps the invariant.  First the steps of a replica.        *)
(***************************************************************************)
\* The entry of r becomes v.
Put(f, r, v) == [f EXCEPT ![r] = v]

ReceiptOf(s, i) == IF i \in s.pending THEN "pending" ELSE s.res[i]

\* What may become of the receipts of a replica.
ReceiptsMove(s, t, r) ==
    \A i \in WritesOf(r) :
        \/ ReceiptOf(t, i) = ReceiptOf(s, i)
        \/ ReceiptOf(s, i) = "none" /\ ReceiptOf(t, i) = "pending"
        \/ ReceiptOf(s, i) = "pending" /\ i \notin t.pending /\ t.res[i] # "none"

\* Only r has changed, and its receipts as they may.
OwnMove(r) ==
    /\ log' = log /\ lost' = lost /\ \A q \in Replicas : q # r => rep'[q] = rep[q]
    /\ ~Rollback => ReceiptsMove(rep[r], rep'[r], r)

LEMMA SettlesMove ==
    ASSUME NEW r, NEW s, s.me = r, NEW t, Settles_(s, t), ~Rollback
    PROVE  ReceiptsMove(s, t, r)
<1> SUFFICES ASSUME NEW i \in WritesOf(r)
             PROVE  \/ ReceiptOf(t, i) = ReceiptOf(s, i)
                    \/ ReceiptOf(s, i) = "pending" /\ i \notin t.pending /\ t.res[i] # "none"
    BY DEF ReceiptsMove
<1>1. /\ t.pending \subseteq s.pending
      /\ i \in s.pending /\ i \notin t.pending => t.res[i] # "none"
      /\ i \notin s.pending => t.res[i] = s.res[i]
    BY DEF Settles_
<1> QED
    BY <1>1 DEF ReceiptOf

LEMMA OwnMoved ==
    ASSUME ReplicaInv, NEW r \in Replicas, NEW t, Settles_(rep[r], t), rep' = Put(rep, r, t),
           log' = log, lost' = lost
    PROVE  OwnMove(r)
<1>1. InvOf(log, subs, out, late, lost, rep)
    BY DEF ReplicaInv
<1>2. rep[r].me = r /\ RepsInv(rep, Chains(log, lost, rep))
    BY <1>1, InvFields
<1>3. rep'[r] = t /\ \A q \in Replicas : q # r => rep'[q] = rep[q]
    BY <1>2 DEF Put, RepsInv
<1>4. ~Rollback => ReceiptsMove(rep[r], t, r)
    BY <1>2, SettlesMove
<1> QED
    BY <1>3, <1>4 DEF OwnMove

LEMMA LeadsStep ==
    ASSUME NEW lg, NEW sb, NEW fr, NEW lt, NEW ls, NEW rp, InvOf(lg, sb, fr, lt, ls, rp),
           NEW r \in Replicas, NEW t, Leads(rp[r], t, r, Chains(lg, ls, rp)),
           NEW rp2, rp2 = [rp EXCEPT ![r] = t]
    PROVE  InvOf(lg, sb, fr, lt, ls, rp2)
<1>1. PICK K : K = Chains(lg, ls, rp)
    OBVIOUS
<1>2. /\ Family(K) /\ rp[r].calls \in CallsT(K) /\ FrontOK(rp[r].calls, fr[r])
      /\ LateInv(lt, rp, K)
    BY <1>1, InvFields
<1>3. fr \in FramesT(K) /\ sb \subseteq Replicas
    BY <1>1 DEF InvOf
<1>4. Fit(t, r, K) /\ Settles_(rp[r], t) /\ Extends(rp[r].calls, t.calls)
    BY <1>1 DEF Leads
<1>5. t.calls \in CallsT(K)
    BY <1>2, <1>4, ChainFields
<1>6. FrontOK(t.calls, fr[r])
    BY <1>2, <1>4, <1>5, FrontExtends
<1>7. OthersKeep(fr, fr, r)
    BY DEF OthersKeep
<1> QED
    BY <1>1, <1>2, <1>3, <1>4, <1>6, <1>7, OwnStep

LEMMA TickKeeps ==
    ASSUME ReplicaInv, NEW r \in Replicas, Tick(r)
    PROVE  ReplicaInv' /\ OwnMove(r)
<1>1. InvOf(log, subs, out, late, lost, rep)
    BY DEF ReplicaInv
<1>2. PICK K, t : K = Chains(log, lost, rep) /\ t = Ticked(rep[r])
    OBVIOUS
<1>3. rep' = [rep EXCEPT ![r] = t]
    BY <1>2 DEF Tick, Ticked
<1>4. Family(K) /\ Fit(rep[r], r, K) /\ Clear(rep[r], K)
    BY <1>1, <1>2, InvFields
<1>5. Leads(rep[r], t, r, K)
    BY <1>2, <1>4, TickedLeads
<1>6. InvOf(log, subs, out, late, lost, rep')
    BY <1>1, <1>2, <1>3, <1>5, LeadsStep
<1>7. UNCHANGED <<log, subs, out, late, lost>>
    BY DEF Tick
<1>8. OwnMove(r)
    <2>1. Settles_(rep[r], t) /\ rep' = Put(rep, r, t)
        BY <1>3, <1>5 DEF Leads, Put
    <2> QED
        BY <1>7, <2>1, OwnMoved
<1> QED
    BY <1>6, <1>7, <1>8 DEF ReplicaInv

LEMMA ConnectKeeps ==
    ASSUME ReplicaInv, NEW r \in Replicas, Connect(r)
    PROVE  ReplicaInv' /\ OwnMove(r)
<1>1. InvOf(log, subs, out, late, lost, rep)
    BY DEF ReplicaInv
<1>2. PICK K, t : K = Chains(log, lost, rep) /\ t = Reconnected(rep[r])
    OBVIOUS
<1>3. rep' = [rep EXCEPT ![r] = t]
    BY <1>2 DEF Connect
<1>4. Family(K) /\ Fit(rep[r], r, K) /\ Clear(rep[r], K)
    BY <1>1, <1>2, InvFields
<1>5. Leads(rep[r], t, r, K)
    BY <1>2, <1>4, ReconnectedLeads
<1>6. InvOf(log, subs, out, late, lost, rep')
    BY <1>1, <1>2, <1>3, <1>5, LeadsStep
<1>7. UNCHANGED <<log, subs, out, late, lost>>
    BY DEF Connect
<1>8. OwnMove(r)
    <2>1. Settles_(rep[r], t) /\ rep' = Put(rep, r, t)
        BY <1>3, <1>5 DEF Leads, Put
    <2> QED
        BY <1>7, <2>1, OwnMoved
<1> QED
    BY <1>6, <1>7, <1>8 DEF ReplicaInv

LEMMA SubmitKeeps ==
    ASSUME ReplicaInv, NEW r \in Replicas, NEW i \in WritesOf(r), Submit(r, i)
    PROVE  ReplicaInv' /\ OwnMove(r)
<1>1. InvOf(log, subs, out, late, lost, rep)
    BY DEF ReplicaInv
<1>2. PICK K, K2 : K = Chains(log, lost, rep) /\ K2 = Chains(log, lost, rep')
    OBVIOUS
<1>3. /\ ~Rejected(rep[r], rep[r].chain, i) /\ Fresh(rep[r], r, i)
      /\ rep' = [rep EXCEPT ![r] = Pump(Captured(rep[r], i))]
    BY DEF Submit, Captured, Fresh
<1>4. /\ log \in ItemsT /\ RepsInv(rep, K) /\ LateInv(late, rep, K)
      /\ FrontOK(rep[r].calls, out[r]) /\ rep[r].calls \in CallsT(K)
    BY <1>1, <1>2, InvFields
<1>5. /\ K \subseteq K2 /\ RepsInv(rep', K2) /\ LateInv(late, rep', K2)
      /\ Extends(rep[r].calls, rep'[r].calls)
      /\ ~Rollback => SubmitSettles(rep[r], rep'[r], i)
    <2>1. PICK rp2 : rp2 = rep'
        OBVIOUS
    <2>2. Changed(rep, rp2, r, Pump(Captured(rep[r], i)))
        BY <1>3, <1>4, <2>1 DEF Changed, RepsInv
    <2>3. RepsInv(rep, Chains(log, lost, rep)) /\ LateInv(late, rep, Chains(log, lost, rep))
        BY <1>2, <1>4
    <2>4. /\ Chains(log, lost, rep) \subseteq Chains(log, lost, rp2)
          /\ RepsInv(rp2, Chains(log, lost, rp2)) /\ LateInv(late, rp2, Chains(log, lost, rp2))
          /\ Extends(rep[r].calls, rp2[r].calls)
          /\ ~Rollback => SubmitSettles(rep[r], rp2[r], i)
        BY <1>3, <1>4, <2>2, <2>3, SubmitMoves
    <2> QED
        BY <1>2, <2>1, <2>4
<1>6. log \in K2 /\ subs \subseteq Replicas /\ lost \subseteq Writes /\ out \in FramesT(K2)
    <2>1. log \in K /\ subs \subseteq Replicas /\ lost \subseteq Writes /\ out \in FramesT(K)
        BY <1>1, <1>2 DEF InvOf
    <2> QED
        BY <1>5, <2>1, FramesGrow
<1>7. ASSUME NEW q \in Replicas PROVE FrontOK(rep'[q].calls, out[q])
    <2>1. CASE q = r
        <3>1. Family(K2)
            BY <1>2, <1>4, ChainsFamily
        <3>2. rep'[r].calls \in CallsT(K2)
            BY <1>5, <3>1, RepFields
        <3>3. rep[r].calls \in CallsT(K2)
            BY <1>4, <1>5, CallGrows
        <3>4. FrontOK(rep'[r].calls, out[r])
            BY <1>4, <1>5, <3>2, <3>3, FrontExtends
        <3> QED
            BY <2>1, <3>4
    <2>2. CASE q # r
        <3>1. rep'[q] = rep[q]
            BY <1>3, <1>4, <2>2 DEF RepsInv
        <3>2. FrontOK(rep[q].calls, out[q])
            BY <1>1 DEF InvOf, FrontInv
        <3> QED
            BY <3>1, <3>2
    <2> QED
        BY <2>1, <2>2
<1>8. InvOf(log, subs, out, late, lost, rep')
    BY <1>2, <1>5, <1>6, <1>7 DEF InvOf, FrontInv
<1>9. UNCHANGED <<log, subs, out, late, lost>>
    BY DEF Submit
<1>10. ASSUME ~Rollback PROVE ReceiptsMove(rep[r], rep'[r], r)
    <2>1. PICK s, u, t : s = rep[r] /\ u = Captured(rep[r], i) /\ t = rep'[r]
        OBVIOUS
    <2>2. rep[r] \in RepT(r, K)
        BY <1>1, <1>2, InvFields
    <2>3. u.me = r /\ u.pending = s.pending \cup {i} /\ u.res = s.res /\ s.me = r
        BY <2>1, <2>2 DEF Captured, RepT
    <2>4. Settles_(u, t) /\ i \in t.pending
        BY <1>5, <1>10, <2>1 DEF SubmitSettles
    <2>5. ReceiptsMove(u, t, r)
        BY <1>10, <2>3, <2>4, SettlesMove
    <2>6. i \notin s.pending /\ s.res[i] = "none"
        <3>1. i \in Nat
            BY ReplicaAssumption DEF WritesOf
        <3> QED
            BY <1>3, <2>1, <3>1 DEF Fresh
    <2>7. ReceiptOf(s, i) = "none" /\ ReceiptOf(t, i) = "pending"
        BY <2>4, <2>6 DEF ReceiptOf
    <2>8. \A k \in WritesOf(r) : k # i => ReceiptOf(u, k) = ReceiptOf(s, k)
        BY <2>3 DEF ReceiptOf
    <2>9. ReceiptsMove(s, t, r)
        BY <2>5, <2>7, <2>8 DEF ReceiptsMove
    <2> QED
        BY <2>1, <2>9
<1>11. OwnMove(r)
    <2>1. \A q \in Replicas : q # r => rep'[q] = rep[q]
        BY <1>3, <1>4 DEF RepsInv
    <2> QED
        BY <1>9, <1>10, <2>1 DEF OwnMove
<1> QED
    BY <1>8, <1>9, <1>11 DEF ReplicaInv

LEMMA FramesMove ==
    ASSUME NEW K, NEW fr \in FramesT(K), NEW r \in Replicas, NEW f \in Seq(FrameT(K)),
           NEW fr2, fr2 = Put(fr, r, f)
    PROVE  fr2 \in FramesT(K) /\ fr2[r] = f /\ OthersKeep(fr, fr2, r)
    BY DEF FramesT, OthersKeep, Put

LEMMA PushKeeps ==
    ASSUME ReplicaInv, NEW r \in Replicas, NEW inline, Push(r, inline)
    PROVE  ReplicaInv' /\ OwnMove(r)
<1>1. InvOf(log, subs, out, late, lost, rep)
    BY DEF ReplicaInv
<1>2. PICK K, m, f : K = Chains(log, lost, rep) /\ m = Head(out[r]) /\ f = Tail(out[r])
    OBVIOUS
<1>3. PICK t : t = Pushed_(rep[r], m, inline)
    OBVIOUS
<1>4. rep' = [rep EXCEPT ![r] = t]
    BY <1>2, <1>3 DEF Push, Pushed_
<1>5. out' = [out EXCEPT ![r] = f] /\ out[r] # << >>
    BY <1>2 DEF Push
<1>6. /\ Family(K) /\ Fit(rep[r], r, K) /\ Clear(rep[r], K) /\ out[r] \in Seq(FrameT(K))
      /\ rep[r].calls \in CallsT(K) /\ FrontOK(rep[r].calls, out[r]) /\ LateInv(late, rep, K)
    BY <1>1, <1>2, InvFields
<1>7. /\ f \in Seq(FrameT(K)) /\ m \in FrameT(K)
      /\ Cardinality(Replies(f)) <= Cardinality(Replies(out[r]))
    BY <1>2, <1>5, <1>6, RepliesTail
<1>8. Leads(rep[r], t, r, K)
    BY <1>3, <1>6, <1>7, PushedLeads DEF FrameT
<1>9. Fit(t, r, K) /\ Settles_(rep[r], t) /\ Extends(rep[r].calls, t.calls)
    BY <1>8 DEF Leads
<1>10. t.calls \in CallsT(K)
    BY <1>6, <1>9, ChainFields
<1>11. FrontOK(t.calls, f)
    <2>1. FrontOK(rep[r].calls, f)
        BY <1>6, <1>7, FrontFrames
    <2> QED
        BY <1>6, <1>9, <1>10, <2>1, FrontExtends
<1>12. out \in FramesT(K) /\ subs \subseteq Replicas
    BY <1>1, <1>2 DEF InvOf
<1>13. out' \in FramesT(K) /\ out'[r] = f /\ OthersKeep(out, out', r)
    <2>1. PICK fr2 : fr2 = out'
        OBVIOUS
    <2>2. fr2 = Put(out, r, f)
        BY <1>5, <2>1 DEF Put
    <2>3. fr2 \in FramesT(K) /\ fr2[r] = f /\ OthersKeep(out, fr2, r)
        BY <1>7, <1>12, <2>2, FramesMove
    <2> QED
        BY <2>1, <2>3
<1>14. FrontOK(t.calls, out'[r])
    BY <1>11, <1>13
<1>15. InvOf(log, subs, out', late, lost, rep')
    BY <1>1, <1>2, <1>4, <1>6, <1>9, <1>12, <1>13, <1>14, OwnStep
<1>16. UNCHANGED <<log, subs, late, lost>>
    BY DEF Push
<1>17. OwnMove(r)
    <2>1. rep' = Put(rep, r, t)
        BY <1>4 DEF Put
    <2> QED
        BY <1>9, <1>16, <2>1, OwnMoved
<1> QED
    BY <1>15, <1>16, <1>17 DEF ReplicaInv

LEMMA DeliverKeeps ==
    ASSUME ReplicaInv, NEW r \in Replicas, Deliver(r)
    PROVE  ReplicaInv' /\ OwnMove(r)
<1>1. InvOf(log, subs, out, late, lost, rep)
    BY DEF ReplicaInv
<1>2. PICK K, s, f : K = Chains(log, lost, rep) /\ s = rep[r] /\ f = Tail(out[r])
    OBVIOUS
<1>3. PICK c, u : c = Head(s.calls) /\ u = [s EXCEPT !.calls = Tail(@)]
    OBVIOUS
<1>4. PICK t : t = OnReply(u, c)
    OBVIOUS
<1>5. /\ rep' = [rep EXCEPT ![r] = t]
      /\ out' = [out EXCEPT ![r] = f] /\ out[r] # << >> /\ Head(out[r]) = Reply
    BY <1>2, <1>3, <1>4 DEF Deliver
<1>6. /\ Family(K) /\ Fit(s, r, K) /\ Clear(s, K) /\ out[r] \in Seq(FrameT(K))
      /\ s \in RepT(r, K) /\ s.calls \in CallsT(K) /\ FrontOK(s.calls, out[r])
      /\ LateInv(late, rep, K)
    BY <1>1, <1>2, InvFields
<1>7. s.calls # << >> /\ FrontOK(Tail(s.calls), f)
    BY <1>2, <1>5, <1>6, FrontReply
<1>8. Fit(u, r, K) /\ Settles_(s, u) /\ u.calls = Tail(s.calls) /\ c \in CallT(K)
    BY <1>3, <1>6, <1>7, TailFit
<1>9. Clear(u, K)
    BY <1>6, <1>8, ClearKept
<1>10. Leads(u, t, r, K)
    BY <1>4, <1>6, <1>8, <1>9, OnReplyLeads
<1>11. Fit(t, r, K) /\ Settles_(u, t) /\ Extends(u.calls, t.calls)
    BY <1>10 DEF Leads
<1>12. t \in RepT(r, K) /\ t.calls \in CallsT(K) /\ u \in RepT(r, K) /\ u.calls \in CallsT(K)
    BY <1>6, <1>8, <1>11, ChainFields
<1>13. Settles_(s, t)
    BY <1>6, <1>8, <1>11, <1>12, SettlesTransitive
<1>14. FrontOK(t.calls, f)
    BY <1>7, <1>8, <1>11, <1>12, FrontExtends
<1>15. out \in FramesT(K) /\ subs \subseteq Replicas
    BY <1>1, <1>2 DEF InvOf
<1>16. out' \in FramesT(K) /\ out'[r] = f /\ OthersKeep(out, out', r)
    <2>1. f \in Seq(FrameT(K))
        BY <1>2, <1>5, <1>6, RepliesTail
    <2>2. PICK fr2 : fr2 = out'
        OBVIOUS
    <2>3. fr2 = Put(out, r, f)
        BY <1>5, <2>2 DEF Put
    <2>4. fr2 \in FramesT(K) /\ fr2[r] = f /\ OthersKeep(out, fr2, r)
        BY <1>15, <2>1, <2>3, FramesMove
    <2> QED
        BY <2>2, <2>4
<1>17. FrontOK(t.calls, out'[r]) /\ Settles_(rep[r], t)
    BY <1>2, <1>13, <1>14, <1>16
<1>18. InvOf(log, subs, out', late, lost, rep')
    <2>1. PICK rp2, fr2 : rp2 = rep' /\ fr2 = out'
        OBVIOUS
    <2>2. /\ rp2 = [rep EXCEPT ![r] = t] /\ fr2 \in FramesT(Chains(log, lost, rep))
          /\ OthersKeep(out, fr2, r) /\ FrontOK(t.calls, fr2[r])
        BY <1>2, <1>5, <1>16, <1>17, <2>1
    <2>3. /\ Fit(t, r, Chains(log, lost, rep)) /\ LateInv(late, rep, Chains(log, lost, rep))
        BY <1>2, <1>6, <1>11
    <2>4. InvOf(log, subs, fr2, late, lost, rp2)
        BY <1>1, <1>15, <1>17, <2>2, <2>3, OwnStep
    <2> QED
        BY <2>1, <2>4
<1>19. UNCHANGED <<log, subs, late, lost>>
    BY DEF Deliver
<1>20. OwnMove(r)
    <2>1. rep' = Put(rep, r, t)
        BY <1>5 DEF Put
    <2> QED
        BY <1>17, <1>19, <2>1, OwnMoved
<1> QED
    BY <1>18, <1>19, <1>20 DEF ReplicaInv

\* What a session that ends leaves behind.
LEMMA LeftOffered ==
    ASSUME ReplicaInv, NEW r \in Replicas
    PROVE  LateInv(late \cup Left(r), rep, Chains(log, lost, rep))
<1>1. InvOf(log, subs, out, late, lost, rep)
    BY DEF ReplicaInv
<1>2. PICK K, cs : K = Chains(log, lost, rep) /\ cs = rep[r].calls
    OBVIOUS
<1>3. Fit(rep[r], r, K) /\ cs \in CallsT(K) /\ LateInv(late, rep, K)
    BY <1>1, <1>2, InvFields
<1>4. ASSUME NEW a \in Left(r)
      PROVE  /\ a.base \in K /\ a.items \in ItemsT
             /\ \E q \in Replicas : Offer(rep[q], K, a.base, a.items)
    <2>1. PICK c \in Range(cs) : a = [base |-> c.base, items |-> c.items]
        BY <1>2 DEF Left
    <2>2. PICK j \in DOMAIN cs : c = cs[j]
        BY DEF Range
    <2>3. c.base \in K /\ c.items \in ItemsT
        BY <1>3, <2>2, CallFields
    <2>4. Offer(rep[r], K, c.base, c.items)
        BY <1>2, <1>3, <2>2 DEF Fit
    <2>5. a.base = c.base /\ a.items = c.items
        BY <2>1
    <2> QED
        BY <2>3, <2>4, <2>5
<1> QED
    BY <1>2, <1>3, <1>4 DEF LateInv

LEMMA EndKeeps ==
    ASSUME ReplicaInv, NEW r \in Replicas, NEW t, EndSession(r, t),
           Fit(t, r, Chains(log, lost, rep)), Settles_(rep[r], t),
           \A j \in DOMAIN t.calls : t.calls[j].ans = Wait
    PROVE  ReplicaInv' /\ OwnMove(r)
<1>1. InvOf(log, subs, out, late, lost, rep)
    BY DEF ReplicaInv
<1>2. PICK K : K = Chains(log, lost, rep)
    OBVIOUS
<1>3. /\ rep' = [rep EXCEPT ![r] = t] /\ late' = late \cup Left(r) /\ subs' = subs \ {r}
      /\ out' = [out EXCEPT ![r] = << >>] /\ log' = log /\ lost' = lost
    BY DEF EndSession
<1>4. Family(K) /\ out \in FramesT(K) /\ subs' \subseteq Replicas
    <2>1. Family(K)
        BY <1>1, <1>2, InvFields
    <2> QED
        BY <1>1, <1>2, <1>3, <2>1 DEF InvOf
<1>5. LateInv(late', rep, K)
    BY <1>2, <1>3, LeftOffered
<1>6. out' \in FramesT(K) /\ out'[r] = << >> /\ OthersKeep(out, out', r)
    <2>1. << >> \in Seq(FrameT(K))
        OBVIOUS
    <2>2. PICK f : f = << >>
        OBVIOUS
    <2>3. f \in Seq(FrameT(K)) /\ out' = [out EXCEPT ![r] = f]
        BY <1>3, <2>1, <2>2
    <2>4. PICK fr2 : fr2 = out'
        OBVIOUS
    <2>5. fr2 = Put(out, r, f)
        BY <2>3, <2>4 DEF Put
    <2>6. fr2 \in FramesT(K) /\ fr2[r] = f /\ OthersKeep(out, fr2, r)
        BY <1>4, <2>3, <2>5, FramesMove
    <2> QED
        BY <2>2, <2>4, <2>6
<1>7. FrontOK(t.calls, out'[r])
    <2>1. t.calls \in CallsT(K)
        BY <1>2, <1>4, ChainFields
    <2>2. FrontOK(t.calls, << >>)
        BY <2>1, FrontFresh
    <2> QED
        BY <1>6, <2>2
<1>8. InvOf(log, subs', out', late', lost, rep')
    BY <1>1, <1>2, <1>3, <1>4, <1>5, <1>6, <1>7, OwnStep
<1>9. OwnMove(r)
    <2>1. rep' = Put(rep, r, t)
        BY <1>3 DEF Put
    <2> QED
        BY <1>3, <2>1, OwnMoved
<1> QED
    BY <1>3, <1>8, <1>9 DEF ReplicaInv

LEMMA CutKeeps ==
    ASSUME ReplicaInv, NEW r \in Replicas, Cut(r)
    PROVE  ReplicaInv' /\ OwnMove(r)
<1>1. InvOf(log, subs, out, late, lost, rep)
    BY DEF ReplicaInv
<1>2. PICK K, t : K = Chains(log, lost, rep) /\ t = Retired(rep[r])
    OBVIOUS
<1>3. Family(K) /\ Fit(rep[r], r, K) /\ Clear(rep[r], K)
    BY <1>1, <1>2, InvFields
<1>4. /\ Fit(t, r, K) /\ Settles_(rep[r], t)
      /\ \A j \in DOMAIN t.calls : t.calls[j].ans = Wait
    BY <1>2, <1>3, RetiredLeads
<1>5. EndSession(r, t)
    BY <1>2 DEF Cut
<1> QED
    BY <1>2, <1>4, <1>5, EndKeeps

LEMMA CrashKeeps ==
    ASSUME ReplicaInv, NEW r \in Replicas, Crash(r)
    PROVE  ReplicaInv' /\ OwnMove(r)
<1>1. InvOf(log, subs, out, late, lost, rep)
    BY DEF ReplicaInv
<1>2. PICK K, u : K = Chains(log, lost, rep) /\ u = [rep[r] EXCEPT !.salt = @ + 1]
    OBVIOUS
<1>3. PICK t : t = Opened(u)
    OBVIOUS
<1>4. Family(K) /\ Fit(rep[r], r, K) /\ rep[r] \in RepT(r, K)
    BY <1>1, <1>2, InvFields
<1>5. Fit(u, r, K) /\ Settles_(rep[r], u)
    <2>1. Leads(rep[r], u, r, K)
        BY <1>2, <1>4, SaltLeads
    <2> QED
        BY <2>1 DEF Leads
<1>6. /\ Fit(t, r, K) /\ Settles_(u, t)
      /\ \A j \in DOMAIN t.calls : t.calls[j].ans = Wait
    BY <1>3, <1>4, <1>5, OpenedFit
<1>7. Settles_(rep[r], t)
    <2>1. u \in RepT(r, K) /\ t \in RepT(r, K)
        BY <1>5, <1>6 DEF Fit
    <2> QED
        BY <1>4, <1>5, <1>6, <2>1, SettlesTransitive
<1>8. EndSession(r, t)
    BY <1>2, <1>3 DEF Crash
<1> QED
    BY <1>2, <1>6, <1>7, <1>8, EndKeeps

-----------------------------------------------------------------------------
(***************************************************************************)
(* The steps of the service.                                               *)
(***************************************************************************)
\* The frames of a handler, with or without the reply.
WithReply(fr, fr2, r) == fr2 = fr \/ fr2 = Put(fr, r, Append(fr[r], Reply))

LEMMA ReplyT ==
    ASSUME NEW K, Family(K)
    PROVE  Reply \in FrameT(K)
    BY DEF Reply, FrameT, Family

LEMMA ReplyFrames ==
    ASSUME NEW K, Family(K), NEW fr \in FramesT(K), NEW r \in Replicas, NEW fr2,
           WithReply(fr, fr2, r)
    PROVE  /\ fr2 \in FramesT(K) /\ OthersKeep(fr, fr2, r)
           /\ Cardinality(Replies(fr2[r])) <= Cardinality(Replies(fr[r])) + 1
<1>1. fr[r] \in Seq(FrameT(K))
    BY DEF FramesT
<1>2. Cardinality(Replies(fr[r])) \in Nat
    BY <1>1, RepliesFinite
<1>3. CASE fr2 = fr
    BY <1>2, <1>3 DEF OthersKeep
<1>4. CASE fr2 = Put(fr, r, Append(fr[r], Reply))
    <2>1. PICK f, m : f = Append(fr[r], m) /\ m = Reply
        OBVIOUS
    <2>2. m \in FrameT(K)
        BY <2>1, ReplyT
    <2>3. f \in Seq(FrameT(K)) /\ Cardinality(Replies(f)) <= Cardinality(Replies(fr[r])) + 1
        BY <1>1, <2>1, <2>2, RepliesAppend
    <2>4. fr2 = Put(fr, r, f)
        BY <1>4, <2>1
    <2>5. fr2 \in FramesT(K) /\ fr2[r] = f /\ OthersKeep(fr, fr2, r)
        BY <2>3, <2>4, FramesMove
    <2> QED
        BY <2>3, <2>5
<1> QED
    BY <1>3, <1>4 DEF WithReply

\* The answer a to the call j, the first unanswered one.
Answerable(lg, ls, rp, fr, r, j, a) ==
    /\ j \in DOMAIN rp[r].calls /\ Served(rp[r].calls, fr[r], j - 1)
    /\ a \in AnsT(Chains(lg, ls, rp)) /\ a.t # "wait" /\ PageFits(a, rp[r].calls[j])

LEMMA AnswerStep ==
    ASSUME NEW lg, NEW sb, NEW fr, NEW lt, NEW ls, NEW rp, InvOf(lg, sb, fr, lt, ls, rp),
           NEW r \in Replicas, NEW j, NEW a, Answerable(lg, ls, rp, fr, r, j, a),
           NEW fr2, WithReply(fr, fr2, r), NEW sb2, sb2 \subseteq Replicas
    PROVE  InvOf(lg, sb2, fr2, lt, ls, Put(rp, r, WithAnswer(rp[r], j, a)))
<1>1. PICK K, s : K = Chains(lg, ls, rp) /\ s = rp[r]
    OBVIOUS
<1>2. PICK t : t = WithAnswer(s, j, a)
    OBVIOUS
<1>3. /\ Family(K) /\ Fit(s, r, K) /\ s.calls \in CallsT(K) /\ fr[r] \in Seq(FrameT(K))
      /\ LateInv(lt, rp, K)
    BY <1>1, InvFields
<1>4. j \in DOMAIN s.calls /\ a \in AnsT(K) /\ a.t # "wait" /\ PageFits(a, s.calls[j])
    BY <1>1 DEF Answerable
<1>5. /\ Fit(t, r, K) /\ Settles_(s, t)
      /\ DOMAIN t.calls = DOMAIN s.calls /\ Len(t.calls) = Len(s.calls)
      /\ t.calls[j].ans = a
      /\ \A m \in DOMAIN s.calls : m # j => t.calls[m] = s.calls[m]
    <2>1. Awaits(s, j, a, K)
        BY <1>4 DEF Awaits
    <2>2. Fit(t, r, K) /\ Settles_(s, t) /\ AnswersOnly(s, t, j, a)
        BY <1>2, <1>3, <2>1, AnswerFit
    <2> QED
        BY <2>2 DEF AnswersOnly
<1>6. fr \in FramesT(K)
    BY <1>1 DEF InvOf
<1>7. /\ fr2 \in FramesT(K) /\ OthersKeep(fr, fr2, r)
      /\ Cardinality(Replies(fr2[r])) <= Cardinality(Replies(fr[r])) + 1
    BY <1>3, <1>6, ReplyFrames
<1>8. PICK n : n = j - 1
    OBVIOUS
<1>9. n \in Nat /\ j = n + 1 /\ Served(s.calls, fr[r], n)
    <2>1. j \in 1..Len(s.calls) /\ Len(s.calls) \in Nat
        BY <1>3, <1>4 DEF CallsT
    <2>2. Served(s.calls, fr[r], j - 1)
        BY <1>1 DEF Answerable
    <2> QED
        BY <1>8, <2>1, <2>2
<1>10. Cardinality(Replies(fr2[r])) <= n + 1
    <2>1. fr2[r] \in Seq(FrameT(K))
        BY <1>7 DEF FramesT
    <2>2. Cardinality(Replies(fr[r])) \in Nat /\ Cardinality(Replies(fr2[r])) \in Nat
        BY <1>3, <2>1, RepliesFinite
    <2> QED
        BY <1>7, <1>9, <2>2 DEF Served
<1>11. FrontOK(t.calls, fr2[r])
    <2>1. t.calls \in CallsT(K)
        BY <1>3, <1>5, ChainFields
    <2>2. t.calls[n + 1].ans.t # "wait" /\ n + 1 \in DOMAIN s.calls
          /\ \A m \in DOMAIN s.calls : m # n + 1 => t.calls[m] = s.calls[m]
        BY <1>4, <1>5, <1>9
    <2> QED
        BY <1>3, <1>5, <1>9, <1>10, <2>1, <2>2, FrontAnswer
<1>12. PICK rp2 : rp2 = Put(rp, r, WithAnswer(rp[r], j, a))
    OBVIOUS
<1>13. /\ rp2 = [rp EXCEPT ![r] = t] /\ Fit(t, r, Chains(lg, ls, rp)) /\ Settles_(rp[r], t)
       /\ fr2 \in FramesT(Chains(lg, ls, rp)) /\ LateInv(lt, rp, Chains(lg, ls, rp))
    BY <1>1, <1>2, <1>3, <1>5, <1>7, <1>12 DEF Put
<1>14. InvOf(lg, sb2, fr2, lt, ls, rp2)
    BY <1>7, <1>11, <1>13, OwnStep
<1> QED
    BY <1>12, <1>14

\* The call a session serves next is its first unanswered one.
LEMMA NextIs ==
    ASSUME ReplicaInv, NEW r \in Replicas, CanServe(r)
    PROVE  NextCall(r) \in DOMAIN rep[r].calls /\ Served(rep[r].calls, out[r], NextCall(r) - 1)
<1>1. InvOf(log, subs, out, late, lost, rep)
    BY DEF ReplicaInv
<1>2. PICK K : K = Chains(log, lost, rep)
    OBVIOUS
<1>3. rep[r].calls \in CallsT(K) /\ FrontOK(rep[r].calls, out[r])
    BY <1>1, <1>2, InvFields
<1>4. PICK n \in Nat : Served(rep[r].calls, out[r], n)
    BY <1>3 DEF FrontOK
<1>5. Cardinality(Answered(r)) = n
    BY <1>3, <1>4, FrontIs DEF Answered
<1>6. NextCall(r) = n + 1 /\ n + 1 <= Len(rep[r].calls)
    BY <1>5 DEF NextCall, CanServe
<1>7. n + 1 \in DOMAIN rep[r].calls
    BY <1>3, <1>6 DEF CallsT
<1> QED
    BY <1>4, <1>6, <1>7

LEMMA QuietFrames ==
    ASSUME NEW r, Quiet(r)
    PROVE  WithReply(out, out', r)
<1>1. \/ out' = out
      \/ out' = [out EXCEPT ![r] = Append(@, Reply)]
    BY DEF Quiet
<1>2. [out EXCEPT ![r] = Append(@, Reply)] = Put(out, r, Append(out[r], Reply))
    BY DEF Put
<1> QED
    BY <1>1, <1>2 DEF WithReply

\* A handler that commits nothing.
LEMMA QuietKeeps ==
    ASSUME ReplicaInv, NEW r \in Replicas, CanServe(r), NEW t \in {"log", "ok", "moved", "busy"},
           NEW c \in Chains(log, lost, rep), NEW upto \in Nat,
           upto <= Len(rep[r].calls[NextCall(r)].base) \/ upto <= Len(c),
           Answer(r, t, c, upto), Quiet(r), subs' \subseteq Replicas,
           UNCHANGED <<log, late, lost>>
    PROVE  ReplicaInv' /\ OwnMove(r)
<1>1. InvOf(log, subs, out, late, lost, rep)
    BY DEF ReplicaInv
<1>2. PICK a : a = [t |-> t, log |-> c, upto |-> upto]
    OBVIOUS
<1>3. a \in AnsT(Chains(log, lost, rep)) /\ a.t # "wait" /\ a.upto = upto /\ a.log = c
    BY <1>2 DEF AnsT
<1>4. PICK j : j = NextCall(r)
    OBVIOUS
<1>5. j \in DOMAIN rep[r].calls /\ Served(rep[r].calls, out[r], j - 1)
    BY <1>4, NextIs
<1>6. PICK rp2, fr2, sb2 : rp2 = rep' /\ fr2 = out' /\ sb2 = subs'
    OBVIOUS
<1>7. rp2 = Put(rep, r, WithAnswer(rep[r], j, a))
    <2>1. rp2 = [rep EXCEPT ![r].calls[j].ans = a]
        BY <1>2, <1>4, <1>6 DEF Answer
    <2> QED
        BY <2>1 DEF WithAnswer, Put
<1>8. WithReply(out, fr2, r) /\ sb2 \subseteq Replicas
    BY <1>6, QuietFrames
<1>9. PageFits(a, rep[r].calls[j])
    BY <1>3, <1>4 DEF PageFits
<1>10. Answerable(log, lost, rep, out, r, j, a)
    BY <1>3, <1>5, <1>9 DEF Answerable
<1>11. InvOf(log, sb2, fr2, late, lost, Put(rep, r, WithAnswer(rep[r], j, a)))
    BY <1>1, <1>8, <1>10, AnswerStep
<1>12. OwnMove(r)
    <2>1. Fit(rep[r], r, Chains(log, lost, rep)) /\ Family(Chains(log, lost, rep))
        BY <1>1, InvFields
    <2>2. Awaits(rep[r], j, a, Chains(log, lost, rep))
        BY <1>10 DEF Answerable, Awaits
    <2>3. Settles_(rep[r], WithAnswer(rep[r], j, a))
        BY <2>1, <2>2, AnswerFit
    <2> QED
        BY <1>6, <1>7, <2>3, OwnMoved
<1> QED
    BY <1>6, <1>7, <1>11, <1>12 DEF ReplicaInv

LEMMA SubscribeKeeps ==
    ASSUME ReplicaInv, NEW r \in Replicas, Subscribe(r)
    PROVE  ReplicaInv' /\ OwnMove(r)
<1>1. log \in Chains(log, lost, rep) /\ subs \subseteq Replicas
    BY DEF ReplicaInv, InvOf
<1>2. /\ CanServe(r) /\ Answer(r, "log", log, 0) /\ Quiet(r) /\ subs' = subs \cup {r}
      /\ UNCHANGED <<log, late, lost>>
    BY DEF Subscribe
<1>3. 0 <= Len(log) /\ 0 \in Nat
    BY <1>1 DEF Chains, ItemsT
<1>4. subs' \subseteq Replicas
    BY <1>1, <1>2
<1> QED
    BY <1>1, <1>2, <1>3, <1>4, QuietKeeps

LEMMA BusyKeeps ==
    ASSUME ReplicaInv, NEW r \in Replicas, Busy(r)
    PROVE  ReplicaInv' /\ OwnMove(r)
<1>1. log \in ItemsT /\ subs \subseteq Replicas
    BY DEF ReplicaInv, InvOf, Chains
<1>2. /\ CanServe(r) /\ Answer(r, "busy", << >>, 0) /\ Quiet(r) /\ subs' = subs
      /\ UNCHANGED <<log, late, lost>>
    BY DEF Busy
<1>3. << >> \in Chains(log, lost, rep) /\ 0 <= Len(<< >>) /\ 0 \in Nat
    BY <1>1, ToldNothing DEF Chains
<1>4. subs' \subseteq Replicas
    BY <1>1, <1>2
<1> QED
    BY <1>2, <1>3, <1>4, QuietKeeps

LEMMA ReadKeeps ==
    ASSUME ReplicaInv, NEW r \in Replicas, Read(r)
    PROVE  ReplicaInv' /\ OwnMove(r)
<1>1. log \in Chains(log, lost, rep) /\ log \in ItemsT /\ subs \subseteq Replicas
    BY DEF ReplicaInv, InvOf, Chains
<1>2. PICK after : after = Len(rep[r].calls[NextCall(r)].base)
    OBVIOUS
<1>3. /\ CanServe(r) /\ Quiet(r) /\ subs' = subs /\ UNCHANGED <<log, late, lost>>
      /\ \E upto \in after..Max({after, Len(log)}) : Answer(r, "log", log, upto)
    BY <1>2 DEF Read
<1>4. PICK upto \in after..Max({after, Len(log)}) : Answer(r, "log", log, upto)
    BY <1>3
<1>5. after \in Nat /\ Len(log) \in Nat
    <2>1. NextCall(r) \in DOMAIN rep[r].calls
        BY <1>3, NextIs
    <2>2. PICK K, cs, j : K = Chains(log, lost, rep) /\ cs = rep[r].calls /\ j = NextCall(r)
        OBVIOUS
    <2>3. InvOf(log, subs, out, late, lost, rep)
        BY DEF ReplicaInv
    <2>4. Family(K) /\ cs \in CallsT(K) /\ j \in DOMAIN cs
        BY <2>1, <2>2, <2>3, InvFields
    <2>5. cs[j].base \in K
        BY <2>4, CallFields
    <2>6. cs[j].base \in ItemsT
        BY <2>4, <2>5 DEF Family
    <2> QED
        BY <1>1, <1>2, <2>1, <2>2, <2>6 DEF ItemsT
<1>6. Max({after, Len(log)}) \in {after, Len(log)}
    BY <1>5, MaxPair
<1>7. upto \in Nat /\ (upto <= after \/ upto <= Len(log))
    BY <1>4, <1>5, <1>6
<1>8. upto <= Len(rep[r].calls[NextCall(r)].base) \/ upto <= Len(log)
    BY <1>2, <1>7
<1>9. subs' \subseteq Replicas
    BY <1>1, <1>3
<1> QED
    BY <1>1, <1>3, <1>4, <1>7, <1>8, <1>9, QuietKeeps

LEMMA RefuseKeeps ==
    ASSUME ReplicaInv, NEW r \in Replicas, Refuse(r)
    PROVE  ReplicaInv' /\ OwnMove(r)
<1>1. log \in Chains(log, lost, rep) /\ log \in ItemsT /\ subs \subseteq Replicas
    BY DEF ReplicaInv, InvOf, Chains
<1>2. PICK c, d : c = rep[r].calls[NextCall(r)] /\ d = c.base \o c.items
    OBVIOUS
<1>3. /\ CanServe(r) /\ Quiet(r) /\ subs' = subs /\ UNCHANGED <<log, late, lost>>
      /\ (IsPrefix(d, log) /\ Answer(r, "ok", d, 0)) \/ Answer(r, "moved", log, 0)
    BY <1>2 DEF Refuse, Holds
<1>4. subs' \subseteq Replicas /\ 0 \in Nat /\ 0 <= Len(log)
    BY <1>1, <1>3 DEF ItemsT
<1>5. CASE Answer(r, "moved", log, 0)
    BY <1>1, <1>3, <1>4, <1>5, QuietKeeps
<1>6. CASE IsPrefix(d, log) /\ Answer(r, "ok", d, 0)
    <2>1. d \in ItemsT
        <3>1. NextCall(r) \in DOMAIN rep[r].calls
            BY <1>3, NextIs
        <3>2. PICK K, cs, j : K = Chains(log, lost, rep) /\ cs = rep[r].calls /\ j = NextCall(r)
            OBVIOUS
        <3>3. InvOf(log, subs, out, late, lost, rep)
            BY DEF ReplicaInv
        <3>4. Family(K) /\ cs \in CallsT(K) /\ j \in DOMAIN cs /\ c = cs[j]
            BY <1>2, <3>1, <3>2, <3>3, InvFields
        <3>5. c.base \in K /\ c.items \in ItemsT
            BY <3>4, CallFields
        <3>6. c.base \in ItemsT
            BY <3>4, <3>5 DEF Family
        <3> QED
            BY <1>2, <3>5, <3>6, Joined
    <2>2. Len(d) \in 0..Len(log) /\ d = Prefix(log, Len(d))
        BY <1>1, <1>6, <2>1, PrefixAlike
    <2>3. d \in Chains(log, lost, rep)
        <3>1. Family(Chains(log, lost, rep))
            BY <1>1, ChainsFamily
        <3> QED
            BY <1>1, <2>2, <3>1 DEF Family
    <2>4. 0 <= Len(d)
        BY <2>1 DEF ItemsT
    <2> QED
        BY <1>3, <1>4, <1>6, <2>3, <2>4, QuietKeeps
<1> QED
    BY <1>3, <1>5, <1>6

\* The frames once every subscriber is pushed m.
PushedTo(fr, sb, m) == [q \in Replicas |-> IF q \in sb THEN Append(fr[q], m) ELSE fr[q]]

LEMMA PushedFrames ==
    ASSUME NEW K, NEW fr \in FramesT(K), NEW sb, NEW m \in FrameT(K), m # Reply
    PROVE  /\ PushedTo(fr, sb, m) \in FramesT(K)
           /\ \A q \in Replicas :
                 Cardinality(Replies(PushedTo(fr, sb, m)[q])) = Cardinality(Replies(fr[q]))
<1>1. PICK fr2 : fr2 = PushedTo(fr, sb, m)
    OBVIOUS
<1>2. ASSUME NEW q \in Replicas
      PROVE  fr2[q] \in Seq(FrameT(K)) /\ Cardinality(Replies(fr2[q])) = Cardinality(Replies(fr[q]))
    <2>1. fr[q] \in Seq(FrameT(K))
        BY DEF FramesT
    <2>2. PICK f : f = Append(fr[q], m)
        OBVIOUS
    <2>3. f \in Seq(FrameT(K)) /\ Cardinality(Replies(f)) = Cardinality(Replies(fr[q]))
        BY <2>1, <2>2, RepliesAppend
    <2>4. fr2[q] \in {f, fr[q]}
        BY <1>1, <2>2 DEF PushedTo
    <2> QED
        BY <2>1, <2>3, <2>4
<1>3. fr2 \in [Replicas -> Seq(FrameT(K))]
    <2>1. fr2 = [q \in Replicas |-> fr2[q]]
        BY <1>1 DEF PushedTo
    <2> QED
        BY <1>2, <2>1
<1> QED
    BY <1>1, <1>2, <1>3 DEF FramesT

PushOf(lg, x) == [log |-> lg \o x, from |-> Len(lg) + 1]

LEMMA PublishStep ==
    ASSUME NEW lg, NEW sb, NEW fr, NEW lt, NEW ls, NEW rp, InvOf(lg, sb, fr, lt, ls, rp),
           NEW r \in Replicas, NEW x \in ItemsT, Offer(rp[r], Chains(lg, ls, rp), lg, x),
           NEW lt2, lt2 \subseteq lt
    PROVE  /\ InvOf(lg \o x, sb, PushedTo(fr, sb, PushOf(lg, x)), lt2, ls, rp)
           /\ \A q \in Replicas :
                 Cardinality(Replies(PushedTo(fr, sb, PushOf(lg, x))[q]))
                     = Cardinality(Replies(fr[q]))
           /\ Chains(lg, ls, rp) \subseteq Chains(lg \o x, ls, rp)
<1>1. PICK lg2, m, fr2 : lg2 = lg \o x /\ m = PushOf(lg, x) /\ fr2 = PushedTo(fr, sb, PushOf(lg, x))
    OBVIOUS
<1>2. PICK K, K2 : K = Chains(lg, ls, rp) /\ K2 = Chains(lg2, ls, rp)
    OBVIOUS
<1>3. lg \in Chains(lg, ls, rp) /\ lg \in ItemsT /\ ls \subseteq Writes /\ fr \in FramesT(K)
    BY <1>2 DEF InvOf, Chains
<1>4. rp[r].me = r
    BY InvFields
<1>5. lg2 \in ItemsT /\ lg2 \in K2 /\ K \subseteq K2
    BY <1>1, <1>2, <1>3, <1>4, Publishes
<1>6. m \in FrameT(K2) /\ m # Reply
    <2>1. Len(lg) \in Nat
        BY <1>3 DEF ItemsT
    <2>2. m = [log |-> lg2, from |-> Len(lg) + 1]
        BY <1>1 DEF PushOf
    <2>3. m.from # 0 /\ m \in [log : K2, from : Nat]
        BY <1>5, <2>1, <2>2
    <2>4. Reply.from = 0
        BY DEF Reply
    <2> QED
        BY <2>3, <2>4 DEF FrameT
<1>7. fr \in FramesT(K2)
    BY <1>3, <1>5, FramesGrow
<1>8. /\ fr2 \in FramesT(K2)
      /\ \A q \in Replicas : Cardinality(Replies(fr2[q])) = Cardinality(Replies(fr[q]))
    <2>1. fr2 = PushedTo(fr, sb, m)
        BY <1>1
    <2> QED
        BY <1>6, <1>7, <2>1, PushedFrames
<1>9. NoMoreReplies(fr, fr2)
    <2> SUFFICES ASSUME NEW q \in Replicas
                 PROVE  Cardinality(Replies(fr2[q])) <= Cardinality(Replies(fr[q]))
        BY DEF NoMoreReplies
    <2>1. fr[q] \in Seq(FrameT(K2))
        BY <1>7 DEF FramesT
    <2>2. Cardinality(Replies(fr[q])) \in Nat
        BY <2>1, RepliesFinite
    <2> QED
        BY <1>8, <2>2
<1>10. InvOf(lg2, sb, fr2, lt2, ls, rp)
    BY <1>2, <1>3, <1>5, <1>8, <1>9, LogStep
<1> QED
    BY <1>1, <1>2, <1>5, <1>8, <1>10

\* What some replica may offer is appended, and no receipt moves.
PublishMove ==
    /\ lost' = lost
    /\ \A q \in Replicas : rep'[q].pending = rep[q].pending /\ rep'[q].res = rep[q].res
    /\ \E q \in Replicas, x \in ItemsT :
          log' = log \o x /\ Offer(rep[q], Chains(log, lost, rep), log, x)

LEMMA LateAppendKeeps ==
    ASSUME ReplicaInv, NEW a \in late, LateAppend(a)
    PROVE  ReplicaInv' /\ PublishMove
<1>1. InvOf(log, subs, out, late, lost, rep)
    BY DEF ReplicaInv
<1>2. PICK m, x : m = Pushed(a.items) /\ x = a.items
    OBVIOUS
<1>3. m = PushOf(log, x)
    BY <1>2 DEF Pushed, PushOf
<1>4. x \in ItemsT /\ \E q \in Replicas : Offer(rep[q], Chains(log, lost, rep), log, x)
    <2>1. LateInv(late, rep, Chains(log, lost, rep)) /\ a.base = log
        BY <1>1 DEF InvOf, LateAppend
    <2> QED
        BY <1>2, <2>1 DEF LateInv
<1>5. PICK q \in Replicas : Offer(rep[q], Chains(log, lost, rep), log, x)
    BY <1>4
<1>6. late \ {a} \subseteq late
    OBVIOUS
<1>7. InvOf(log \o x, subs, PushedTo(out, subs, PushOf(log, x)), late \ {a}, lost, rep)
    BY <1>1, <1>4, <1>5, <1>6, PublishStep
<1>8. /\ log' = log \o x /\ out' = PushedTo(out, subs, m) /\ late' = late \ {a}
      /\ UNCHANGED <<subs, lost, rep>>
    BY <1>2 DEF LateAppend, PushedTo
<1>9. PublishMove
    BY <1>4, <1>5, <1>8 DEF PublishMove
<1> QED
    BY <1>3, <1>7, <1>8, <1>9 DEF ReplicaInv

LEMMA AcceptKeeps ==
    ASSUME ReplicaInv, NEW r \in Replicas, Accept(r)
    PROVE  ReplicaInv' /\ PublishMove
<1>1. InvOf(log, subs, out, late, lost, rep)
    BY DEF ReplicaInv
<1>2. PICK j, K : j = NextCall(r) /\ K = Chains(log, lost, rep)
    OBVIOUS
<1>3. PICK c : c = rep[r].calls[j]
    OBVIOUS
<1>4. PICK x, d : x = c.items /\ d = log \o x
    OBVIOUS
<1>5. PICK m, fr : m = Pushed(x) /\ fr = PushedTo(out, subs, m)
    OBVIOUS
<1>6. /\ CanServe(r) /\ c.base = log /\ Answer(r, "ok", d, 0) /\ log' = d
      /\ out' = [q \in Replicas |->
                    (IF q \in subs THEN Append(out[q], m) ELSE out[q])
                    \o (IF q = r /\ ~Parallel THEN <<Reply>> ELSE << >>)]
      /\ UNCHANGED <<subs, late, lost>>
    BY <1>2, <1>3, <1>4, <1>5 DEF Accept
<1>7. j \in DOMAIN rep[r].calls /\ Served(rep[r].calls, out[r], j - 1)
    BY <1>2, <1>6, NextIs
<1>8. x \in ItemsT /\ Offer(rep[r], Chains(log, lost, rep), log, x)
    <2>1. Fit(rep[r], r, K) /\ rep[r].calls \in CallsT(K)
        BY <1>1, <1>2, InvFields
    <2>2. x \in ItemsT
        BY <1>3, <1>4, <1>7, <2>1, CallFields
    <2>3. Offer(rep[r], K, c.base, c.items)
        BY <1>3, <1>7, <2>1 DEF Fit
    <2> QED
        BY <1>2, <1>4, <1>6, <2>2, <2>3
<1>9. m = PushOf(log, x)
    BY <1>5 DEF Pushed, PushOf
<1>10. /\ InvOf(d, subs, fr, late, lost, rep)
       /\ \A q \in Replicas : Cardinality(Replies(fr[q])) = Cardinality(Replies(out[q]))
    <2>1. late \subseteq late
        OBVIOUS
    <2>2. /\ InvOf(log \o x, subs, PushedTo(out, subs, PushOf(log, x)), late, lost, rep)
          /\ \A q \in Replicas :
                Cardinality(Replies(PushedTo(out, subs, PushOf(log, x))[q]))
                    = Cardinality(Replies(out[q]))
        BY <1>1, <1>8, <2>1, PublishStep
    <2> QED
        BY <1>4, <1>5, <1>9, <2>2
<1>11. PICK a : a = [t |-> "ok", log |-> d, upto |-> 0]
    OBVIOUS
<1>12. Answerable(d, lost, rep, fr, r, j, a)
    <2>1. Served(rep[r].calls, fr[r], j - 1)
        BY <1>7, <1>10 DEF Served
    <2>2. d \in Chains(d, lost, rep) /\ d \in ItemsT
        BY <1>10 DEF InvOf, Chains
    <2>3. a \in AnsT(Chains(d, lost, rep)) /\ a.t # "wait" /\ a.upto = 0 /\ a.log = d
        BY <1>11, <2>2 DEF AnsT
    <2>4. PageFits(a, rep[r].calls[j])
        BY <2>2, <2>3 DEF PageFits, ItemsT
    <2> QED
        BY <1>7, <2>1, <2>3, <2>4 DEF Answerable
<1>13. PICK fr2, rp2 : fr2 = out' /\ rp2 = rep'
    OBVIOUS
<1>14. WithReply(fr, fr2, r)
    <2>1. fr \in FramesT(Chains(d, lost, rep))
        BY <1>10 DEF InvOf
    <2>2. PICK F : F = FrameT(Chains(d, lost, rep))
        OBVIOUS
    <2>3. fr \in [Replicas -> Seq(F)]
        BY <2>1, <2>2 DEF FramesT
    <2>4. Reply \in F
        <3>1. Family(Chains(d, lost, rep))
            BY <1>10, InvFields
        <3> QED
            BY <2>2, <3>1, ReplyT
    <2>5. fr2 = [q \in Replicas |-> fr[q] \o (IF q = r /\ ~Parallel THEN <<Reply>> ELSE << >>)]
        BY <1>5, <1>6, <1>13 DEF PushedTo
    <2>6. \A q \in Replicas : fr[q] \o << >> = fr[q] /\ fr[q] \o <<Reply>> = Append(fr[q], Reply)
        BY <2>3, <2>4, ConcatEmptySeq, AppendIsConcat
    <2>7. CASE Parallel
        <3>1. fr2 = [q \in Replicas |-> fr[q] \o << >>]
            BY <2>5, <2>7
        <3>2. fr2 = fr
            BY <2>3, <2>6, <3>1
        <3> QED
            BY <3>2 DEF WithReply
    <2>8. CASE ~Parallel
        <3>1. fr2 = [q \in Replicas |-> IF q = r THEN Append(fr[q], Reply) ELSE fr[q]]
            BY <2>5, <2>6, <2>8
        <3>2. PICK f : f = Append(fr[r], Reply)
            OBVIOUS
        <3>3. fr2 = [fr EXCEPT ![r] = f]
            BY <2>3, <3>1, <3>2
        <3> QED
            BY <3>2, <3>3 DEF WithReply, Put
    <2> QED
        BY <2>7, <2>8
<1>15. rp2 = Put(rep, r, WithAnswer(rep[r], j, a))
    <2>1. rp2 = [rep EXCEPT ![r].calls[j].ans = a]
        BY <1>2, <1>6, <1>11, <1>13 DEF Answer
    <2> QED
        BY <2>1 DEF WithAnswer, Put
<1>16. InvOf(d, subs, fr2, late, lost, Put(rep, r, WithAnswer(rep[r], j, a)))
    <2>1. subs \subseteq Replicas
        BY <1>1 DEF InvOf
    <2> QED
        BY <1>10, <1>12, <1>14, <2>1, AnswerStep
<1>17. PublishMove
    <2>1. PICK K2, t : K2 = Chains(d, lost, rep) /\ t = WithAnswer(rep[r], j, a)
        OBVIOUS
    <2>2. Fit(rep[r], r, K2) /\ Family(K2) /\ RepsInv(rep, K2)
        BY <1>10, <2>1, InvFields
    <2>3. Awaits(rep[r], j, a, K2)
        BY <1>12, <2>1 DEF Answerable, Awaits
    <2>4. AnswersOnly(rep[r], t, j, a)
        BY <2>1, <2>2, <2>3, AnswerFit
    <2>5. t.pending = rep[r].pending /\ t.res = rep[r].res
        BY <2>4 DEF AnswersOnly
    <2>6. rp2[r] = t /\ \A q \in Replicas : q # r => rp2[q] = rep[q]
        BY <1>15, <2>1, <2>2 DEF Put, RepsInv
    <2>7. \A q \in Replicas : rep'[q].pending = rep[q].pending /\ rep'[q].res = rep[q].res
        BY <1>13, <2>5, <2>6
    <2> QED
        BY <1>4, <1>6, <1>8, <2>7 DEF PublishMove
<1> QED
    BY <1>6, <1>13, <1>15, <1>16, <1>17 DEF ReplicaInv

LEMMA SendReplyKeeps ==
    ASSUME ReplicaInv, NEW r \in Replicas, SendReply(r)
    PROVE  ReplicaInv'
<1>1. InvOf(log, subs, out, late, lost, rep)
    BY DEF ReplicaInv
<1>2. PICK K, fr2, cs : K = Chains(log, lost, rep) /\ fr2 = out' /\ cs = rep[r].calls
    OBVIOUS
<1>3. Family(K) /\ cs \in CallsT(K) /\ FrontOK(cs, out[r]) /\ out[r] \in Seq(FrameT(K))
    BY <1>1, <1>2, InvFields
<1>4. out \in FramesT(K)
    BY <1>1, <1>2 DEF InvOf
<1>5. WithReply(out, fr2, r)
    <2>1. fr2 = [out EXCEPT ![r] = Append(@, Reply)]
        BY <1>2 DEF SendReply
    <2>2. fr2 = Put(out, r, Append(out[r], Reply))
        BY <2>1 DEF Put
    <2> QED
        BY <2>2 DEF WithReply
<1>6. /\ fr2 \in FramesT(K) /\ OthersKeep(out, fr2, r)
      /\ Cardinality(Replies(fr2[r])) <= Cardinality(Replies(out[r])) + 1
    BY <1>3, <1>4, <1>5, ReplyFrames
<1>7. FrontOK(cs, fr2[r])
    <2>1. PICK n \in Nat : Served(cs, out[r], n)
        BY <1>3 DEF FrontOK
    <2>2. Cardinality(Answered(r)) = n
        BY <1>2, <1>3, <2>1, FrontIs DEF Answered
    <2>3. Cardinality(Replies(out[r])) < n
        BY <2>2 DEF SendReply, Replied, Replies
    <2>4. fr2[r] \in Seq(FrameT(K))
        BY <1>6 DEF FramesT
    <2>5. Cardinality(Replies(out[r])) \in Nat /\ Cardinality(Replies(fr2[r])) \in Nat
        BY <1>3, <2>4, RepliesFinite
    <2>6. Cardinality(Replies(fr2[r])) <= n
        BY <1>6, <2>3, <2>5
    <2> QED
        BY <2>1, <2>6 DEF Served, FrontOK
<1>8. FrontInv(rep, fr2)
    <2> SUFFICES ASSUME NEW q \in Replicas PROVE FrontOK(rep[q].calls, fr2[q])
        BY DEF FrontInv
    <2>1. FrontOK(rep[q].calls, out[q])
        BY <1>1 DEF InvOf, FrontInv
    <2> QED
        BY <1>2, <1>6, <1>7, <2>1 DEF OthersKeep
<1>9. InvOf(log, subs, fr2, late, lost, rep)
    BY <1>1, <1>2, <1>6, <1>8 DEF InvOf
<1>10. UNCHANGED <<log, subs, late, lost, rep>>
    BY DEF SendReply
<1> QED
    BY <1>2, <1>9, <1>10 DEF ReplicaInv

LEMMA LoseTailKeeps ==
    ASSUME ReplicaInv, NEW n \in 0..Len(log), LoseTail(n)
    PROVE  ReplicaInv'
<1>1. InvOf(log, subs, out, late, lost, rep)
    BY DEF ReplicaInv
<1>2. PICK lg2, ls2 : lg2 = Prefix(log, n) /\ ls2 = lost \cup (WritesIn(log) \ WritesIn(lg2))
    OBVIOUS
<1>3. log' = lg2 /\ lost' = ls2 /\ n < Len(log) /\ UNCHANGED <<subs, out, late, rep>>
    BY <1>2 DEF LoseTail
<1>4. log \in ItemsT /\ Told(log, log, lost, rep) /\ lost \subseteq Writes
      /\ out \in FramesT(Chains(log, lost, rep))
    BY <1>1 DEF InvOf, Chains
<1>5. lg2 \in ItemsT /\ Told(lg2, log, lost, rep)
    BY <1>2, <1>4, PrefixIs, ToldPrefix
<1>6. \A c \in ItemsT : Told(c, log, lost, rep) => Told(c, lg2, ls2, rep)
    BY <1>2, <1>3, <1>4, ToldLost
<1>7. lg2 \in Chains(lg2, ls2, rep) /\ Chains(log, lost, rep) \subseteq Chains(lg2, ls2, rep)
    BY <1>5, <1>6 DEF Chains
<1>8. ls2 \subseteq Writes
    <2>1. WritesIn(log) \subseteq Writes
        BY <1>4, ItemAt DEF WritesIn
    <2> QED
        BY <1>2, <1>4, <2>1
<1>9. out \in FramesT(Chains(lg2, ls2, rep))
    BY <1>4, <1>7, FramesGrow
<1>10. NoMoreReplies(out, out)
    <2> SUFFICES ASSUME NEW q \in Replicas
                 PROVE  Cardinality(Replies(out[q])) <= Cardinality(Replies(out[q]))
        BY DEF NoMoreReplies
    <2>1. out[q] \in Seq(FrameT(Chains(log, lost, rep)))
        BY <1>4 DEF FramesT
    <2>2. Cardinality(Replies(out[q])) \in Nat
        BY <2>1, RepliesFinite
    <2> QED
        BY <2>2
<1>11. InvOf(lg2, subs, out, late, ls2, rep)
    BY <1>1, <1>7, <1>8, <1>9, <1>10, LogStep
<1> QED
    BY <1>3, <1>11 DEF ReplicaInv

LEMMA StepKeeps ==
    ASSUME ReplicaInv, [Next]_vars
    PROVE  ReplicaInv'
<1>1. CASE UNCHANGED vars
    BY <1>1 DEF vars, ReplicaInv
<1>2. ASSUME NEW r \in Replicas, NEW i \in WritesOf(r), Submit(r, i) PROVE ReplicaInv'
    BY <1>2, SubmitKeeps
<1>3. ASSUME NEW r \in Replicas, Deliver(r) PROVE ReplicaInv'
    BY <1>3, DeliverKeeps
<1>4. ASSUME NEW r \in Replicas, NEW inline \in BOOLEAN, Push(r, inline) PROVE ReplicaInv'
    BY <1>4, PushKeeps
<1>5. ASSUME NEW r \in Replicas, Tick(r) PROVE ReplicaInv'
    BY <1>5, TickKeeps
<1>6. ASSUME NEW r \in Replicas, Connect(r) PROVE ReplicaInv'
    BY <1>6, ConnectKeeps
<1>7. ASSUME NEW r \in Replicas, Cut(r) PROVE ReplicaInv'
    BY <1>7, CutKeeps
<1>8. ASSUME NEW r \in Replicas, Crash(r) PROVE ReplicaInv'
    BY <1>8, CrashKeeps
<1>9. ASSUME NEW r \in Replicas, Subscribe(r) PROVE ReplicaInv'
    BY <1>9, SubscribeKeeps
<1>10. ASSUME NEW r \in Replicas, Read(r) PROVE ReplicaInv'
    BY <1>10, ReadKeeps
<1>11. ASSUME NEW r \in Replicas, Refuse(r) PROVE ReplicaInv'
    BY <1>11, RefuseKeeps
<1>12. ASSUME NEW r \in Replicas, Accept(r) PROVE ReplicaInv'
    BY <1>12, AcceptKeeps
<1>13. ASSUME NEW r \in Replicas, Busy(r) PROVE ReplicaInv'
    BY <1>13, BusyKeeps
<1>14. ASSUME NEW r \in Replicas, SendReply(r) PROVE ReplicaInv'
    BY <1>14, SendReplyKeeps
<1>15. ASSUME NEW a \in late, LateAppend(a) PROVE ReplicaInv'
    BY <1>15, LateAppendKeeps
<1>16. ASSUME NEW n \in 0..Len(log), LoseTail(n) PROVE ReplicaInv'
    BY <1>16, LoseTailKeeps
<1> QED
    BY <1>1, <1>2, <1>3, <1>4, <1>5, <1>6, <1>7, <1>8, <1>9, <1>10, <1>11, <1>12, <1>13,
       <1>14, <1>15, <1>16 DEF Next

-----------------------------------------------------------------------------
(***************************************************************************)
(* The theorems.                                                           *)
(***************************************************************************)
\* The inductive invariant: what every replica holds, offers and was told is of chains that
\* were the log once, and of the batches it planned (replica/append.rs, apply.rs,
\* lost_tail.rs); and a session's replies match its calls, in order.
THEOREM ReplicaInvariant == Spec => []ReplicaInv
<1>1. Init => ReplicaInv
    BY InvInit
<1>2. ReplicaInv /\ [Next]_vars => ReplicaInv'
    BY StepKeeps
<1> QED
    BY <1>1, <1>2, PTL DEF Spec

LEMMA ChainItems ==
    ASSUME NEW lg, NEW ls, NEW rp, NEW c \in Chains(lg, ls, rp), NEW p \in DOMAIN c,
           \A q \in Replicas : rp[q].salt \in Nat
    PROVE  WriteOf(c[p]) \in Writes /\ c[p][3] \in 0..rp[c[p][1]].salt
<1>1. c \in ItemsT /\ Told(c, lg, ls, rp)
    BY DEF Chains
<1>2. PICK a : a = c[p]
    OBVIOUS
<1>3. a[1] \in Replicas /\ a[3] \in Nat /\ WriteOf(a) \in Writes
    BY <1>1, <1>2, ItemAt
<1>4. a[3] <= rp[a[1]].salt
    BY <1>1, <1>2 DEF Told
<1>5. rp[a[1]].salt \in Nat
    BY <1>3
<1> QED
    BY <1>2, <1>3, <1>4, <1>5

LEMMA InvTypes ==
    ASSUME ReplicaInv
    PROVE  ReplicaTypeOK
<1>1. InvOf(log, subs, out, late, lost, rep)
    BY DEF ReplicaInv
<1>2. PICK K : K = Chains(log, lost, rep)
    OBVIOUS
<1>3. log \in K /\ subs \subseteq Replicas /\ lost \subseteq Writes
    BY <1>1, <1>2 DEF InvOf
<1>4. ASSUME NEW r \in Replicas
      PROVE  /\ rep[r] \in RepT(r, K) /\ rep[r].salt \in Nat /\ rep[r].chain \in K
             /\ rep[r].calls \in CallsT(K) /\ FrontOK(rep[r].calls, out[r])
             /\ out[r] \in Seq(FrameT(K))
    <2>1. /\ rep[r] \in RepT(r, K) /\ rep[r].calls \in CallsT(K)
          /\ FrontOK(rep[r].calls, out[r]) /\ out[r] \in Seq(FrameT(K))
        BY <1>1, <1>2, InvFields
    <2>2. rep[r].salt \in Nat /\ rep[r].chain \in K
        BY <2>1 DEF RepT
    <2> QED
        BY <2>1, <2>2
<1>5. ASSUME NEW c \in K, NEW p \in DOMAIN c PROVE IsItem(c[p])
    <2>1. \A q \in Replicas : rep[q].salt \in Nat
        BY <1>4
    <2>2. WriteOf(c[p]) \in Writes /\ c[p][3] \in 0..rep[c[p][1]].salt
        BY <1>2, <2>1, ChainItems
    <2> QED
        BY <2>2 DEF IsItem
<1>6. \A p \in DOMAIN log : IsItem(log[p])
    BY <1>3, <1>5
<1>7. ASSUME NEW r \in Replicas
      PROVE  /\ rep[r].me = r
             /\ rep[r].pending \cup rep[r].resurrected \subseteq WritesOf(r)
             /\ \A i \in WritesOf(r) : rep[r].res[i] \in {"none", "confirmed", "rejected"}
             /\ \A p \in DOMAIN rep[r].chain : IsItem(rep[r].chain[p])
             /\ rep[r].append.st \in {"idle", "flight", "retry", "wait"}
             /\ rep[r].repair.phase \in {"none", "probing", "repairing", "held", "rolling"}
             /\ {rep[r].up, rep[r].reading, rep[r].caught_up} \subseteq BOOLEAN
             /\ Answered(r) = 1..Cardinality(Answered(r))
             /\ Cardinality(Replied(r)) <= Cardinality(Answered(r))
    <2>1. PICK s : s = rep[r]
        OBVIOUS
    <2>2. s \in RepT(r, K)
        BY <1>4, <2>1
    <2>3. /\ s.me = r /\ s.pending \in Finite(WritesOf(r)) /\ s.resurrected \subseteq WritesOf(r)
          /\ s.res \in [WritesOf(r) -> Outcomes] /\ s.append \in BatchT(K)
          /\ s.repair \in RepairT /\ s.up \in BOOLEAN /\ s.reading \in BOOLEAN
          /\ s.caught_up \in BOOLEAN
        BY <2>2 DEF RepT
    <2>4. s.pending \cup s.resurrected \subseteq WritesOf(r)
        BY <2>3 DEF Finite
    <2>5. \A i \in WritesOf(r) : s.res[i] \in {"none", "confirmed", "rejected"}
        BY <2>3 DEF Outcomes
    <2>6. s.append.st \in {"idle", "flight", "retry", "wait"}
        BY <2>3 DEF BatchT
    <2>7. s.repair.phase \in {"none", "probing", "repairing", "held", "rolling"}
        BY <2>3 DEF RepairT
    <2>8. PICK n \in Nat : Served(rep[r].calls, out[r], n)
        BY <1>4 DEF FrontOK
    <2>9. Answered(r) = 1..n /\ Cardinality(Answered(r)) = n
        BY <1>4, <2>8, FrontIs DEF Answered
    <2>10. Cardinality(Replied(r)) <= n
        BY <2>8 DEF Served, Replied, Replies
    <2>11. \A p \in DOMAIN rep[r].chain : IsItem(rep[r].chain[p])
        BY <1>4, <1>5
    <2> QED
        BY <2>1, <2>3, <2>4, <2>5, <2>6, <2>7, <2>9, <2>10, <2>11
<1> QED
    BY <1>3, <1>6, <1>7 DEF ReplicaTypeOK

\* Types, for every number of replicas and writes and every bound, with and without
\* rollbacks; and every reply on its way to a replica has its call, in the order of the calls
\* (conn_loop, dispatch_log_reply).
THEOREM ReplicaTypes == Spec => []ReplicaTypeOK
<1>1. ReplicaInv => ReplicaTypeOK
    BY InvTypes
<1> QED
    BY <1>1, ReplicaInvariant, PTL

\* Where rollbacks are off, as ROLLBACK_ENABLED ships, an acknowledged write is never
\* nowhere: whatever tails the service loses, however often, and whatever sessions, replies
\* and restarts do, its author holds it in the chain it has applied.
THEOREM AcknowledgedKept == ~Rollback => (Spec => []AckedKept)
<1> SUFFICES ASSUME ~Rollback PROVE Spec => []AckedKept
    OBVIOUS
<1>1. ReplicaInv => AckedKept
    <2> SUFFICES ASSUME ReplicaInv, NEW r \in Replicas, NEW i \in WritesOf(r),
                        rep[r].res[i] = "confirmed"
                 PROVE  <<r, i>> \in WritesIn(rep[r].chain)
        BY DEF AckedKept
    <2>1. InvOf(log, subs, out, late, lost, rep)
        BY DEF ReplicaInv
    <2>2. Fit(rep[r], r, Chains(log, lost, rep)) /\ rep[r].me = r
        BY <2>1, InvFields
    <2>3. Truthful(rep[r])
        BY <2>2 DEF Fit
    <2> QED
        BY <2>2, <2>3 DEF Truthful
<1> QED
    BY <1>1, ReplicaInvariant, PTL

-----------------------------------------------------------------------------
(***************************************************************************)
(* The replicas and the log implement ClientWrites.                        *)
(***************************************************************************)
\* The writes of a chain, in its order.
Pub(c) == [p \in DOMAIN c |-> WriteOf(c[p])]
Receipts(rp) == [w \in Writes |-> ReceiptOf(rp[w[1]], w[2])]

LEMMA PubIs ==
    ASSUME NEW c \in ItemsT
    PROVE  /\ Pub(c) \in Seq(Writes) /\ Len(Pub(c)) = Len(c) /\ DOMAIN Pub(c) = 1..Len(c)
           /\ Len(c) \in Nat /\ DOMAIN c = 1..Len(c)
           /\ \A p \in 1..Len(c) : Pub(c)[p] = WriteOf(c[p])
           /\ {Pub(c)[p] : p \in DOMAIN Pub(c)} = WritesIn(c)
<1>1. Len(c) \in Nat /\ DOMAIN c = 1..Len(c)
    BY DEF ItemsT
<1>2. \A p \in 1..Len(c) : WriteOf(c[p]) \in Writes
    BY <1>1, ItemAt
<1>3. PICK n, f : n = Len(c) /\ f = Pub(c)
    OBVIOUS
<1>4. f \in [1..n -> Writes] /\ \A p \in 1..n : f[p] = WriteOf(c[p])
    BY <1>1, <1>2, <1>3 DEF Pub
<1>5. f \in Seq(Writes) /\ Len(f) = n /\ DOMAIN f = 1..n
    BY <1>1, <1>3, <1>4
<1>6. {f[p] : p \in DOMAIN f} = WritesIn(c)
    BY <1>1, <1>3, <1>4, <1>5 DEF WritesIn
<1> QED
    BY <1>1, <1>3, <1>4, <1>5, <1>6

LEMMA PubPrefix ==
    ASSUME NEW c \in ItemsT, NEW n \in 0..Len(c)
    PROVE  SubSeq(Pub(c), 1, n) = Pub(Prefix(c, n))
<1>1. PICK d, f, g : d = Prefix(c, n) /\ f = SubSeq(Pub(c), 1, n) /\ g = Pub(Prefix(c, n))
    OBVIOUS
<1>2. d \in ItemsT /\ Len(d) = n /\ \A p \in 1..n : d[p] = c[p]
    BY <1>1, PrefixIs
<1>3. g \in Seq(Writes) /\ Len(g) = n /\ \A p \in 1..n : g[p] = WriteOf(d[p])
    BY <1>1, <1>2, PubIs
<1>4. PICK h : h = Pub(c)
    OBVIOUS
<1>5. /\ h \in Seq(Writes) /\ Len(h) = Len(c) /\ Len(c) \in Nat
      /\ \A p \in 1..Len(c) : h[p] = WriteOf(c[p])
    BY <1>4, PubIs
<1>6. /\ f \in Seq(Writes) /\ Len(f) = n /\ \A p \in 1..n : f[p] = h[p]
    <2>1. f = SubSeq(h, 1, n) /\ n \in 0..Len(h) /\ n \in Nat
        BY <1>1, <1>4, <1>5
    <2>2. \A i \in 1..n : h[i] \in Writes
        BY <1>5, <2>1
    <2>3. /\ f \in Seq(Writes) /\ Len(f) = IF 1 <= n THEN n - 1 + 1 ELSE 0
          /\ \A i \in 1..(n - 1 + 1) : f[i] = h[1 + i - 1]
        BY <1>5, <2>1, <2>2, SubSeqProperties
    <2> QED
        BY <2>1, <2>3
<1>7. \A p \in 1..n : f[p] = g[p]
    BY <1>2, <1>3, <1>5, <1>6
<1>8. f = g
    BY <1>3, <1>6, <1>7, SeqEqual
<1> QED
    BY <1>1, <1>8

LEMMA AWrite ==
    ASSUME NEW w \in Writes
    PROVE  w[1] \in Replicas /\ w[2] \in WritesOf(w[1]) /\ w = <<w[1], w[2]>>
<1>1. w \in Replicas \X Nat
    BY ReplicaAssumption
<1> QED
    BY <1>1 DEF WritesOf

\* What a replica's receipts say, where rollbacks are off.
LEMMA Truths ==
    ASSUME ~Rollback, NEW lg, NEW sb, NEW fr, NEW lt, NEW ls, NEW rp,
           InvOf(lg, sb, fr, lt, ls, rp), NEW r \in Replicas, NEW i \in WritesOf(r)
    PROVE  /\ rp[r].res[i] \in Outcomes
           /\ rp[r].res[i] = "confirmed" =>
                 /\ <<r, i>> \in WritesIn(lg) \cup ls
                 /\ ls = {} => <<r, i>> \in WritesIn(lg)
           /\ rp[r].res[i] = "rejected" =>
                 /\ i \in Contended
                 /\ ls = {} => \E q \in DOMAIN lg : lg[q][1] # r /\ lg[q][2] = i
<1>1. PICK K, s : K = Chains(lg, ls, rp) /\ s = rp[r]
    OBVIOUS
<1>2. /\ lg \in ItemsT /\ Fit(s, r, K) /\ s \in RepT(r, K) /\ s.me = r
    BY <1>1, InvFields
<1>3. s.res[i] \in Outcomes /\ s.chain \in K
    BY <1>2 DEF RepT
<1>4. s.chain \in ItemsT /\ Told(s.chain, lg, ls, rp)
    BY <1>1, <1>3 DEF Chains
<1>5. WritesIn(s.chain) \subseteq WritesIn(lg) \cup ls
    BY <1>4 DEF Told
<1>6. Truthful(s)
    BY <1>2 DEF Fit
<1>7. s.res[i] = "confirmed" => <<r, i>> \in WritesIn(lg) \cup ls
    BY <1>2, <1>5, <1>6 DEF Truthful
<1>8. ASSUME s.res[i] = "rejected", ls = {}
      PROVE  \E q \in DOMAIN lg : lg[q][1] # r /\ lg[q][2] = i
    <2>1. PICK w \in WritesIn(s.chain) : w[1] # r /\ w[2] = i
        BY <1>2, <1>6, <1>8 DEF Truthful
    <2>2. w \in WritesIn(lg)
        BY <1>5, <1>8, <2>1
    <2>3. PICK q \in DOMAIN lg : w = <<lg[q][1], lg[q][2]>>
        BY <2>2, WritesInChain
    <2> QED
        BY <2>1, <2>3
<1>9. s.res[i] = "rejected" => i \in Contended
    BY <1>2, <1>6 DEF Truthful
<1> QED
    BY <1>1, <1>3, <1>7, <1>8, <1>9

\* Where nothing was lost, no write of the log competes with another of it.
LEMMA NoRivals ==
    ASSUME ~Rollback, NEW lg, NEW sb, NEW fr, NEW lt, NEW ls, NEW rp,
           InvOf(lg, sb, fr, lt, ls, rp), NEW r, NEW i \in Contended,
           NEW q \in DOMAIN lg, lg[q][1] # r, lg[q][2] = i
    PROVE  <<r, i>> \notin WritesIn(lg)
<1>1. Told(lg, lg, ls, rp)
    BY DEF InvOf, Chains
<1> SUFFICES ASSUME <<r, i>> \in WritesIn(lg) PROVE FALSE
    OBVIOUS
<1>2. PICK p \in DOMAIN lg : <<r, i>> = <<lg[p][1], lg[p][2]>>
    BY WritesInChain
<1>3. lg[p][1] = r /\ lg[p][2] = i
    BY <1>2
<1> QED
    BY <1>1, <1>3 DEF Told

\* The moves of a receipt that ClientWrites allows.
MayMove(w, a, b, pub, ls) ==
    \/ a = b
    \/ a = "none" /\ b = "pending"
    \/ a = "pending" /\ b = "confirmed" /\ w \in pub \cup ls
    \/ a = "pending" /\ b = "rejected" /\ (w \notin pub \/ ls # {})

LEMMA OwnMoves ==
    ASSUME ~Rollback, ReplicaInv, ReplicaInv', NEW r \in Replicas, OwnMove(r), NEW w \in Writes
    PROVE  /\ MayMove(w, ReceiptOf(rep[w[1]], w[2]), ReceiptOf(rep'[w[1]], w[2]), WritesIn(log), lost)
           /\ w[1] # r => ReceiptOf(rep'[w[1]], w[2]) = ReceiptOf(rep[w[1]], w[2])
<1>1. w[1] \in Replicas /\ w[2] \in WritesOf(w[1]) /\ w = <<w[1], w[2]>>
    BY AWrite
<1>2. CASE w[1] # r
    <2>1. rep'[w[1]] = rep[w[1]]
        BY <1>1, <1>2 DEF OwnMove
    <2> QED
        BY <2>1 DEF MayMove
<1>3. CASE w[1] = r
    <2>1. PICK i, s, t : i = w[2] /\ s = rep[r] /\ t = rep'[r]
        OBVIOUS
    <2>2. i \in WritesOf(r) /\ w = <<r, i>>
        BY <1>1, <1>3, <2>1
    <2>3. ReceiptsMove(s, t, r)
        BY <2>1 DEF OwnMove
    <2>4. InvOf(log, subs', out', late', lost, rep')
        BY DEF ReplicaInv, OwnMove
    <2>5. /\ t.res[i] \in Outcomes
          /\ t.res[i] = "confirmed" => w \in WritesIn(log) \cup lost
          /\ t.res[i] = "rejected" =>
                /\ i \in Contended
                /\ lost = {} => \E q \in DOMAIN log : log[q][1] # r /\ log[q][2] = i
        BY <2>1, <2>2, <2>4, Truths
    <2>6. t.res[i] = "rejected" /\ lost = {} => w \notin WritesIn(log)
        BY <2>2, <2>4, <2>5, NoRivals
    <2>7. CASE ReceiptOf(t, i) = ReceiptOf(s, i)
        BY <1>3, <2>1, <2>7 DEF MayMove
    <2>8. CASE ReceiptOf(s, i) = "none" /\ ReceiptOf(t, i) = "pending"
        BY <1>3, <2>1, <2>8 DEF MayMove
    <2>9. CASE ReceiptOf(s, i) = "pending" /\ i \notin t.pending /\ t.res[i] # "none"
        <3>1. ReceiptOf(t, i) = t.res[i]
            BY <2>9 DEF ReceiptOf
        <3>2. MayMove(w, ReceiptOf(s, i), t.res[i], WritesIn(log), lost)
            BY <2>5, <2>6, <2>9 DEF MayMove, Outcomes
        <3> QED
            BY <1>3, <2>1, <3>1, <3>2
    <2> QED
        BY <2>2, <2>3, <2>7, <2>8, <2>9 DEF ReceiptsMove
<1> QED
    BY <1>2, <1>3

LEMMA ReceiptIs ==
    /\ [w \in Writes |-> Receipt(w)] = Receipts(rep)
    /\ [w \in Writes |-> Receipt(w)]' = Receipts(rep')
    /\ [p \in DOMAIN log |-> WriteOf(log[p])] = Pub(log)
    /\ [p \in DOMAIN log |-> WriteOf(log[p])]' = Pub(log')
    BY DEF Receipt, Receipts, ReceiptOf, Pub

LEMMA OwnSettles ==
    ASSUME ~Rollback, ReplicaInv, ReplicaInv', NEW r \in Replicas, OwnMove(r)
    PROVE  [CW!Next]_(CW!vars)
<1>1. log' = log /\ lost' = lost /\ log \in ItemsT
    BY DEF OwnMove, ReplicaInv, InvOf, Chains
<1>2. PICK a, b : a = Receipts(rep) /\ b = Receipts(rep')
    OBVIOUS
<1>3. \A w \in Writes : /\ MayMove(w, a[w], b[w], WritesIn(log), lost)
                        /\ w[1] # r => b[w] = a[w]
    BY <1>2, OwnMoves DEF Receipts
<1>4. {Pub(log)[p] : p \in DOMAIN Pub(log)} = WritesIn(log) /\ Pub(log') = Pub(log)
    BY <1>1, PubIs
<1>5. CASE \E w \in Writes : w[1] = r
    <2>1. PICK v \in Writes : v[1] = r
        BY <1>5
    <2>2. CW!Settle(r)
        BY <1>1, <1>2, <1>3, <1>4, ReceiptIs DEF CW!Settle, CW!Moves, CW!Range, MayMove, Receipts
    <2> QED
        BY <2>1, <2>2 DEF CW!Next
<1>6. CASE ~\E w \in Writes : w[1] = r
    <2>1. \A w \in Writes : b[w] = a[w]
        BY <1>3, <1>6
    <2>2. b = a
        BY <1>2, <2>1 DEF Receipts
    <2> QED
        BY <1>1, <1>2, <1>4, <2>2, ReceiptIs DEF CW!vars
<1> QED
    BY <1>5, <1>6

\* Where nothing was lost, what is appended is pending.
LEMMA OfferPending ==
    ASSUME ~Rollback, NEW lg, NEW sb, NEW fr, NEW lt, NEW rp,
           InvOf(lg, sb, fr, lt, {}, rp), NEW r \in Replicas, NEW x \in ItemsT,
           Offer(rp[r], Chains(lg, {}, rp), lg, x), NEW n \in DOMAIN x
    PROVE  ReceiptOf(rp[x[n][1]], x[n][2]) = "pending"
<1>1. PICK K, s, i : K = Chains(lg, {}, rp) /\ s = rp[r] /\ i = x[n][2]
    OBVIOUS
<1>2. lg \in ItemsT /\ s.me = r
    BY <1>1, InvFields
<1>3. lg \o x \notin K
    <2> SUFFICES ASSUME lg \o x \in K PROVE FALSE
        OBVIOUS
    <2>1. PICK d : d = lg \o x
        OBVIOUS
    <2>2. d \in ItemsT /\ Len(d) = Len(lg) + Len(x) /\ Len(lg) \in Nat /\ Len(x) \in Nat
          /\ DOMAIN x = 1..Len(x)
        BY <1>2, <2>1, Joined
    <2>3. Told(d, lg, {}, rp)
        BY <1>1, <2>1 DEF Chains
    <2>4. IsPrefix(d, lg)
        BY <2>3 DEF Told
    <2>5. Len(d) <= Len(lg)
        BY <1>2, <2>2, <2>4, PrefixAlike
    <2> QED
        BY <2>2, <2>5
<1>4. Planned(s, lg, x)
    BY <1>1, <1>3 DEF Offer
<1>5. /\ x[n][1] = r /\ (i \in s.pending \/ s.res[i] # "none")
      /\ \A p \in DOMAIN lg : lg[p][1] = r => lg[p][2] < i
      /\ \A p \in DOMAIN lg : lg[p][2] = i /\ lg[p][1] # r => lg[p][2] \notin Contended
    BY <1>1, <1>2, <1>4 DEF Planned
<1>6. i \in Nat /\ i \in WritesOf(r)
    BY <1>1, <1>5, ItemAt
<1>7. PICK ls : ls = {}
    OBVIOUS
<1>8. /\ s.res[i] \in Outcomes
      /\ s.res[i] = "confirmed" => <<r, i>> \in WritesIn(lg)
      /\ s.res[i] = "rejected" =>
            i \in Contended /\ \E q \in DOMAIN lg : lg[q][1] # r /\ lg[q][2] = i
    <2>1. InvOf(lg, sb, fr, lt, ls, rp)
        BY <1>7
    <2> QED
        BY <1>1, <1>6, <1>7, <2>1, Truths
<1>9. s.res[i] # "confirmed"
    <2> SUFFICES ASSUME <<r, i>> \in WritesIn(lg) PROVE FALSE
        BY <1>8
    <2>1. PICK p \in DOMAIN lg : <<r, i>> = <<lg[p][1], lg[p][2]>>
        BY WritesInChain
    <2>2. lg[p][1] = r /\ lg[p][2] = i
        BY <2>1
    <2> QED
        BY <1>5, <1>6, <2>2
<1>10. s.res[i] # "rejected"
    BY <1>5, <1>8
<1>11. i \in s.pending
    BY <1>5, <1>8, <1>9, <1>10 DEF Outcomes
<1> QED
    BY <1>1, <1>5, <1>11 DEF ReceiptOf

LEMMA PublishesOrNot ==
    ASSUME ~Rollback, ReplicaInv, ReplicaInv', PublishMove
    PROVE  [CW!Next]_(CW!vars)
<1>1. PICK r \in Replicas, x \in ItemsT :
          log' = log \o x /\ Offer(rep[r], Chains(log, lost, rep), log, x)
    BY DEF PublishMove
<1>2. InvOf(log, subs, out, late, lost, rep)
    BY DEF ReplicaInv
<1>3. log \in ItemsT
    BY <1>2 DEF InvOf, Chains
<1>4. PICK d, n, k : d = log \o x /\ n = Len(log) /\ k = Len(x)
    OBVIOUS
<1>5. /\ d \in ItemsT /\ Len(d) = n + k /\ DOMAIN d = 1..(n + k) /\ n \in Nat /\ k \in Nat
      /\ DOMAIN x = 1..k /\ DOMAIN log = 1..n
      /\ \A p \in 1..(n + k) : p > n => p - n \in 1..k /\ d[p] = x[p - n]
      /\ IsPrefix(log, d)
    BY <1>3, <1>4, Joined
<1>6. Receipts(rep') = Receipts(rep)
    <2>1. \A w \in Writes : ReceiptOf(rep'[w[1]], w[2]) = ReceiptOf(rep[w[1]], w[2])
        BY AWrite DEF PublishMove, ReceiptOf
    <2> QED
        BY <2>1 DEF Receipts
<1>7. lost' = lost
    BY DEF PublishMove
<1>8. log = Prefix(d, n) /\ n \in 0..Len(d)
    <2>1. Len(log) \in 0..Len(d) /\ log = Prefix(d, Len(log))
        BY <1>3, <1>5, PrefixAlike
    <2> QED
        BY <1>4, <2>1
<1>9. PICK f, g : f = Pub(log) /\ g = Pub(d)
    OBVIOUS
<1>10. f = SubSeq(g, 1, n)
    BY <1>5, <1>8, <1>9, PubPrefix
<1>11. /\ Len(g) = n + k /\ DOMAIN g = 1..(n + k) /\ Len(f) = n
       /\ \A p \in 1..(n + k) : g[p] = WriteOf(d[p])
    BY <1>3, <1>4, <1>5, <1>9, PubIs
<1>12. CASE k = 0
    <2>1. n = Len(d)
        BY <1>5, <1>12
    <2>2. Prefix(d, n) = d
        BY <1>5, <2>1, SubSeqFull DEF Prefix, ItemsT
    <2>3. log' = log
        BY <1>1, <1>4, <1>8, <2>2
    <2> QED
        BY <1>6, <1>7, <2>3, ReceiptIs DEF CW!vars
<1>13. CASE k # 0
    <2>1. \E m \in 0..Len(g)-1 : f = SubSeq(g, 1, m)
        <3>1. n \in 0..Len(g)-1
            BY <1>5, <1>11, <1>13
        <3> QED
            BY <1>10, <3>1
    <2>2. ASSUME NEW p \in DOMAIN g, NEW q \in DOMAIN g, p < q, g[p][1] = g[q][1]
          PROVE  g[p][2] < g[q][2]
        <3>1. InvOf(d, subs', out', late', lost, rep')
            BY <1>1, <1>4, <1>7 DEF ReplicaInv
        <3>2. Told(d, d, lost, rep')
            BY <3>1 DEF InvOf, Chains
        <3>3. g[p] = <<d[p][1], d[p][2]>> /\ g[q] = <<d[q][1], d[q][2]>>
            BY <1>11 DEF WriteOf
        <3>4. d[p][1] = d[q][1] /\ p \in DOMAIN d /\ q \in DOMAIN d
            BY <1>5, <1>11, <2>2, <3>3
        <3>5. d[p][2] < d[q][2]
            BY <2>2, <3>2, <3>4 DEF Told
        <3> QED
            BY <3>3, <3>5
    <2>3. ASSUME NEW p \in Len(f)+1..Len(g), lost = {} PROVE Receipts(rep)[g[p]] = "pending"
        <3>1. p \in 1..(n + k) /\ p > n
            BY <1>5, <1>11
        <3>2. PICK m : m = p - n
            OBVIOUS
        <3>3. m \in DOMAIN x /\ d[p] = x[m]
            BY <1>5, <3>1, <3>2
        <3>4. /\ InvOf(log, subs, out, late, {}, rep)
              /\ Offer(rep[r], Chains(log, {}, rep), log, x)
            BY <1>1, <1>2, <2>3
        <3>5. ReceiptOf(rep[x[m][1]], x[m][2]) = "pending"
            BY <3>3, <3>4, OfferPending
        <3>6. WriteOf(x[m]) \in Writes /\ WriteOf(x[m]) = <<x[m][1], x[m][2]>>
            BY <3>3, ItemAt
        <3>7. g[p] = WriteOf(x[m])
            BY <1>11, <3>1, <3>3
        <3>8. PICK w : w = g[p]
            OBVIOUS
        <3>9. w \in Writes /\ w[1] = x[m][1] /\ w[2] = x[m][2]
            BY <3>6, <3>7, <3>8
        <3>10. Receipts(rep)[w] = ReceiptOf(rep[w[1]], w[2])
            BY <3>9 DEF Receipts
        <3> QED
            BY <3>5, <3>8, <3>9, <3>10
    <2>4. CW!Publish
        <3>1. CW!WellOrdered(g)
            BY <2>2 DEF CW!WellOrdered
        <3>2. \A p \in Len(f)+1..Len(g) : Receipts(rep)[g[p]] = "pending" \/ lost # {}
            BY <2>3
        <3>3. Pub(log) = f /\ Pub(log') = g
            BY <1>1, <1>4, <1>9
        <3> QED
            BY <1>6, <1>7, <2>1, <3>1, <3>2, <3>3, ReceiptIs DEF CW!Publish
    <2> QED
        BY <2>4 DEF CW!Next
<1> QED
    BY <1>12, <1>13

LEMMA LosesTail ==
    ASSUME ReplicaInv, NEW n \in 0..Len(log), LoseTail(n)
    PROVE  CW!Next
<1>1. log \in ItemsT
    BY DEF ReplicaInv, InvOf, Chains
<1>2. PICK d : d = Prefix(log, n)
    OBVIOUS
<1>3. /\ log' = d /\ lost' = lost \cup (WritesIn(log) \ WritesIn(d)) /\ n < Len(log) /\ rep' = rep
    BY <1>2 DEF LoseTail
<1>4. d \in ItemsT
    BY <1>1, <1>2, PrefixIs
<1>5. PICK f, g : f = Pub(log) /\ g = Pub(d)
    OBVIOUS
<1>6. g = SubSeq(f, 1, n)
    BY <1>1, <1>2, <1>5, PubPrefix
<1>7. /\ Len(f) = Len(log) /\ Len(log) \in Nat
      /\ {f[p] : p \in DOMAIN f} = WritesIn(log) /\ {g[p] : p \in DOMAIN g} = WritesIn(d)
    BY <1>1, <1>4, <1>5, PubIs
<1>8. \E m \in 0..Len(f)-1 : g = SubSeq(f, 1, m)
    <2>1. n \in 0..Len(f)-1
        BY <1>3, <1>7
    <2> QED
        BY <1>6, <2>1
<1>9. Pub(log) = f /\ Pub(log') = g /\ Receipts(rep') = Receipts(rep)
    BY <1>3, <1>5
<1>10. CW!Lose
    <2>1. lost' = lost \cup (CW!Range(f) \ CW!Range(g))
        BY <1>3, <1>7 DEF CW!Range
    <2> QED
        BY <1>8, <1>9, <2>1, ReceiptIs DEF CW!Lose
<1> QED
    BY <1>10 DEF CW!Next

LEMMA StepRefines ==
    ASSUME ~Rollback, ReplicaInv, ReplicaInv', [Next]_vars
    PROVE  [CW!Next]_(CW!vars)
<1>1. CASE UNCHANGED vars
    BY <1>1, ReceiptIs DEF vars, CW!vars
<1>2. ASSUME NEW r \in Replicas,
             \/ \E i \in WritesOf(r) : Submit(r, i)
             \/ Deliver(r)
             \/ \E inline \in BOOLEAN : Push(r, inline)
             \/ Tick(r) \/ Connect(r) \/ Cut(r) \/ Crash(r)
             \/ Subscribe(r) \/ Read(r) \/ Refuse(r) \/ Busy(r)
      PROVE  [CW!Next]_(CW!vars)
    <2>1. OwnMove(r)
        BY <1>2, SubmitKeeps, DeliverKeeps, PushKeeps, TickKeeps, ConnectKeeps, CutKeeps,
           CrashKeeps, SubscribeKeeps, ReadKeeps, RefuseKeeps, BusyKeeps
    <2> QED
        BY <2>1, OwnSettles
<1>3. ASSUME NEW r \in Replicas, Accept(r) PROVE [CW!Next]_(CW!vars)
    BY <1>3, AcceptKeeps, PublishesOrNot
<1>4. ASSUME NEW r \in Replicas, SendReply(r) PROVE [CW!Next]_(CW!vars)
    BY <1>4, ReceiptIs DEF SendReply, CW!vars
<1>5. ASSUME NEW a \in late, LateAppend(a) PROVE [CW!Next]_(CW!vars)
    BY <1>5, LateAppendKeeps, PublishesOrNot
<1>6. ASSUME NEW n \in 0..Len(log), LoseTail(n) PROVE [CW!Next]_(CW!vars)
    BY <1>6, LosesTail
<1> QED
    BY <1>1, <1>2, <1>3, <1>4, <1>5, <1>6 DEF Next

LEMMA InitRefines ==
    ASSUME Init
    PROVE  CW!Init
<1>1. log = << >> /\ lost = {}
    BY DEF Init
<1>2. Pub(log) = << >>
    BY <1>1 DEF Pub
<1>3. ASSUME NEW w \in Writes PROVE ReceiptOf(rep[w[1]], w[2]) = "none"
    <2>1. w[1] \in Replicas /\ w[2] \in WritesOf(w[1])
        BY AWrite
    <2>2. PICK r : r = w[1]
        OBVIOUS
    <2>3. rep[r] = NewReplica(r)
        BY <2>1, <2>2 DEF Init
    <2>4. /\ NewReplica(r).pending = {}
          /\ NewReplica(r).res = [i \in WritesOf(r) |-> "none"]
        BY DEF NewReplica, Opened, HeadFetch, Queue
    <2> QED
        BY <2>1, <2>2, <2>3, <2>4 DEF ReceiptOf
<1>4. Receipts(rep) = [w \in Writes |-> "none"]
    BY <1>3 DEF Receipts
<1> QED
    BY <1>1, <1>2, <1>4, ReceiptIs DEF CW!Init

\* Where rollbacks are off, the replicas and the log implement ClientWrites for every number
\* of replicas and writes, every batch size and any number of losses, lost sessions,
\* restarts, busy answers and late appends: each write is published once and in capture
\* order, and no receipt says what is not so (send_batch, apply_items, on_append_reply).
THEOREM WritesImplemented == ~Rollback => (Spec => ImplementsClientWrites)
<1> SUFFICES ASSUME ~Rollback PROVE Spec => ImplementsClientWrites
    OBVIOUS
<1>1. Init => CW!Init
    BY InitRefines
<1>2. ReplicaInv /\ ReplicaInv' /\ [Next]_vars => [CW!Next]_(CW!vars)
    BY StepRefines
<1> QED
    BY <1>1, <1>2, ReplicaInvariant, PTL DEF Spec, ImplementsClientWrites, CW!Spec
=============================================================================
