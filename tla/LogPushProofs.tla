--------------------------- MODULE LogPushProofs ---------------------------
(***************************************************************************)
(* Proofs about subscriptions and pushes, for any sessions, devices, queue *)
(* and frame sizes, on ordered and on parallel hosts.                      *)
(***************************************************************************)
EXTENDS LogPush, FiniteSetTheorems, SequenceTheorems, TLAPS

Frames == [kind : {"closed", "items", "head", "response"}, head : Nat]
Notices == [head : Nat, revoked : SUBSET Devices, gone : BOOLEAN]
Batches == UNION {[S -> Frames] : S \in SUBSET Sessions}
Requests ==
    [pc : {"none", "authorized", "registered", "replying", "refusing"}, head : Nat]

\* The state is well typed.
PushTypeOK ==
    /\ ordered \in BOOLEAN
    /\ head \in Nat \ {0}
    /\ revoked \subseteq Devices
    /\ gone \in BOOLEAN
    /\ notices \in Seq(Notices)
    /\ subs \subseteq Sessions
    /\ batches \in Seq(Batches)
    /\ handler \in [Sessions -> Requests]
    /\ outbox \in [Sessions -> Seq(Frames)]
    /\ view \in [Sessions -> {"off", "asked", "on", "closed"}]
    /\ known \in [Sessions -> Nat]

\* A notice tells of what was committed.
NoticesTrue ==
    \A i \in 1..Len(notices) :
        /\ notices[i].gone => gone
        /\ notices[i].revoked \subseteq revoked

OneResponse(q) ==
    \A i, j \in 1..Len(q) : q[i].kind = "response" /\ q[j].kind = "response" => i = j

\* The hub computes pushes only; the answer to a subscribe request is queued once.
OneAnswer ==
    /\ \A i \in 1..Len(batches) : \A s \in DOMAIN batches[i] : batches[i][s].kind # "response"
    /\ \A s \in Sessions : OneResponse(outbox[s])

Closing(s) == \E f \in FramesFor(s) : f.kind = "closed"

Answers(s) ==
    {outbox[s][i] : i \in {j \in 1..Len(outbox[s]) : outbox[s][j].kind = "response"}}

Told(s) == s \in subs \/ Closing(s) \/ view[s] = "closed"

\* One session, as the hub, its subscribe request, its queue and its client have it: a
\* `closed` is queued only for a session that can never register again; the client waits as
\* long as the request, or its answer, is there; and a request that was given the head is
\* registered or will be told.
Consistent(s) ==
    /\ Closing(s) \/ view[s] = "closed" =>
           ~Allowed(s) /\ s \notin subs /\ handler[s].pc # "authorized"
    /\ s \in subs => handler[s].pc \notin {"authorized", "refusing"}
    /\ s \in subs => view[s] \in {"asked", "on"}
    /\ handler[s].pc = "registered" => s \in subs \/ ~Allowed(s)
    /\ handler[s].pc # "none" => view[s] \in {"asked", "closed"}
    /\ handler[s].pc = "replying" <=> handler[s].head # 0
    /\ handler[s].pc = "replying" \/ view[s] = "on" => Told(s)
    /\ \A f \in Answers(s) :
           /\ handler[s].pc = "none"
           /\ view[s] \in {"asked", "closed"}
           /\ IF f.head = 0 THEN s \notin subs ELSE Told(s)

IndServed == NoticesTrue /\ OneAnswer /\ \A s \in Sessions : Consistent(s)

\* No head is announced before it is committed.
HeadsBounded ==
    /\ \A i \in 1..Len(notices) :
           /\ notices[i].head <= head
           /\ ~notices[i].gone => notices[i].head # 0
    /\ \A s \in Sessions :
           /\ known[s] <= head
           /\ handler[s].head <= head
           /\ \A f \in FramesFor(s) : f.head <= head

LatestNoticed == \E i \in 1..Len(notices) : notices[i].head = head

\* On an ordered host notices reach the hub in the order of their heads, and a batch is
\* delivered before the next one is computed.
OrderKept ==
    ordered =>
        /\ Len(batches) <= 1
        /\ \A i \in 1..Len(notices) :
               notices[i].head # 0 => \E j \in i..Len(notices) : notices[j].head = head
        /\ \A i \in 1..Len(batches) : \A s \in DOMAIN batches[i] :
               batches[i][s].kind # "closed" => batches[i][s].head = head \/ LatestNoticed

IndHead == HeadsBounded /\ OrderKept /\ LatestHeadOnItsWay

-----------------------------------------------------------------------------
(***************************************************************************)
(* Sequences.                                                              *)
(***************************************************************************)

LEMMA FunctionIsSeq ==
    ASSUME NEW S, NEW n \in Nat, NEW f \in [1..n -> S]
    PROVE  f \in Seq(S)
<1>1. [1..n -> S] \in {[1..m -> S] : m \in Nat}
    OBVIOUS
<1>2. f \in UNION {[1..m -> S] : m \in Nat}
    BY <1>1, Zenon
<1> QED
    BY <1>2, SeqDef, Zenon

\* RemoveAt takes one element out and keeps the order of the others.
LEMMA RemoveAtProperties ==
    ASSUME NEW S, NEW q \in Seq(S), NEW i \in 1..Len(q)
    PROVE  /\ RemoveAt(q, i) \in Seq(S)
           /\ Len(RemoveAt(q, i)) = Len(q) - 1
           /\ \A k \in 1..(Len(q) - 1) :
                  RemoveAt(q, i)[k] = IF k < i THEN q[k] ELSE q[k + 1]
<1> DEFINE a == SubSeq(q, 1, i - 1)
           b == SubSeq(q, i + 1, Len(q))
<1>1. Len(q) \in Nat /\ i \in Nat /\ \A k \in 1..Len(q) : q[k] \in S
    BY LenProperties, ElementOfSeq
<1>2. /\ a \in Seq(S)
      /\ Len(a) = i - 1
      /\ \A k \in 1..(i - 1) : a[k] = q[k]
    <2>1. \A k \in 1..(i - 1) : q[k] \in S
        BY <1>1
    <2>2. /\ a \in Seq(S)
          /\ Len(a) = IF 1 <= i - 1 THEN i - 1 - 1 + 1 ELSE 0
          /\ \A k \in 1..(i - 1 - 1 + 1) : a[k] = q[1 + k - 1]
        BY <1>1, <2>1, SubSeqProperties
    <2> QED
        BY <1>1, <2>2
<1>3. /\ b \in Seq(S)
      /\ Len(b) = Len(q) - i
      /\ \A k \in 1..(Len(q) - i) : b[k] = q[i + k]
    <2>1. \A k \in (i + 1)..Len(q) : q[k] \in S
        BY <1>1
    <2>2. /\ b \in Seq(S)
          /\ Len(b) = IF i + 1 <= Len(q) THEN Len(q) - (i + 1) + 1 ELSE 0
          /\ \A k \in 1..(Len(q) - (i + 1) + 1) : b[k] = q[i + 1 + k - 1]
        BY <1>1, <2>1, SubSeqProperties
    <2> QED
        BY <1>1, <2>2
<1> HIDE DEF a, b
<1>4. /\ a \o b \in Seq(S)
      /\ Len(a \o b) = Len(a) + Len(b)
      /\ \A k \in 1..(Len(a) + Len(b)) : (a \o b)[k] = IF k <= Len(a) THEN a[k] ELSE b[k - Len(a)]
    BY <1>2, <1>3, ConcatProperties
<1>5. ASSUME NEW k \in 1..(Len(q) - 1)
      PROVE  (a \o b)[k] = IF k < i THEN q[k] ELSE q[k + 1]
    <2>1. k \in Int /\ Len(a) + Len(b) = Len(q) - 1
        BY <1>1, <1>2, <1>3
    <2>2. CASE k < i
        <3>1. k \in 1..(i - 1) /\ k <= Len(a)
            BY <1>1, <1>2, <2>1, <2>2
        <3> QED
            BY <1>2, <1>4, <2>1, <2>2, <3>1
    <2>3. CASE ~(k < i)
        <3>1. k - (i - 1) \in 1..(Len(q) - i) /\ ~(k <= Len(a)) /\ i + (k - (i - 1)) = k + 1
            BY <1>1, <1>2, <2>1, <2>3
        <3>2. (a \o b)[k] = b[k - (i - 1)]
            BY <1>2, <1>4, <2>1, <3>1
        <3>3. b[k - (i - 1)] = q[i + (k - (i - 1))]
            BY <1>3, <3>1
        <3> QED
            BY <2>3, <3>1, <3>2, <3>3
    <2> QED
        BY <2>2, <2>3
<1>6. RemoveAt(q, i) = a \o b
    BY DEF RemoveAt, a, b
<1>7. Len(a \o b) = Len(q) - 1
    BY <1>1, <1>2, <1>3, <1>4
<1> QED
    BY <1>4, <1>5, <1>6, <1>7

\* What retain leaves is the surviving frames, each once.
LEMMA RetainProperties ==
    ASSUME NEW q \in Seq(Frames)
    PROVE  /\ Retain(q) \in Seq(Frames)
           /\ \E place \in [1..Len(Retain(q)) -> Surviving(q)] :
                  /\ \A k \in 1..Len(Retain(q)) : Retain(q)[k] = q[place[k]]
                  /\ \A k, m \in 1..Len(Retain(q)) : place[k] = place[m] => k = m
                  /\ \A i \in Surviving(q) : \E k \in 1..Len(Retain(q)) : place[k] = i
<1> DEFINE K == Surviving(q)
           Upto(i) == {j \in K : j <= i}
           rank == [i \in K |-> Cardinality(Upto(i))]
           n == Cardinality(K)
           place == [k \in 1..n |-> CHOOSE i \in K : rank[i] = k]
<1>1. Len(q) \in Nat /\ K \subseteq 1..Len(q) /\ \A i \in 1..Len(q) : q[i] \in Frames
    BY LenProperties, ElementOfSeq DEF Surviving
<1>2. IsFiniteSet(K)
    <2>1. IsFiniteSet(1..Len(q))
        BY <1>1, FS_Interval
    <2> QED
        BY <1>1, <2>1, FS_Subset
<1>3. n \in Nat
    BY <1>2, FS_CardinalityType
<1>4. ASSUME NEW i \in K
      PROVE  /\ IsFiniteSet(Upto(i))
             /\ rank[i] \in 1..n
    <2>1. Upto(i) \in SUBSET K
        OBVIOUS
    <2>2. IsFiniteSet(Upto(i)) /\ Cardinality(Upto(i)) <= n
        BY <2>1, <1>2, FS_Subset
    <2>3. Cardinality(Upto(i)) \in Nat
        BY <2>2, FS_CardinalityType
    <2>4. i \in Upto(i)
        BY <1>1
    <2>5. Cardinality(Upto(i)) # 0
        BY <2>2, <2>4, FS_EmptySet
    <2>6. Cardinality(Upto(i)) \in 1..n
        BY <1>3, <2>2, <2>3, <2>5
    <2> QED
        BY <2>2, <2>6
<1>5. ASSUME NEW i \in K, NEW j \in K, i < j
      PROVE  rank[i] # rank[j]
    <2>1. Upto(i) \in SUBSET Upto(j)
        BY <1>1, <1>5
    <2>2. j \in Upto(j) /\ j \notin Upto(i)
        BY <1>1, <1>5
    <2>3. IsFiniteSet(Upto(j))
        BY <1>4
    <2>4. Cardinality(Upto(j)) = Cardinality(Upto(i)) => Upto(j) = Upto(i)
        BY <2>1, <2>3, FS_Subset
    <2> QED
        BY <2>2, <2>4
<1>6. rank \in Injection(K, 1..n)
    <2>1. rank \in [K -> 1..n]
        BY <1>4
    <2>2. \A i, j \in K : rank[i] = rank[j] => i = j
        <3>1. \A i, j \in K : i < j \/ j < i \/ i = j
            BY <1>1
        <3> QED
            BY <3>1, <1>5
    <2> QED
        BY <2>1, <2>2, Zenon DEF Injection, IsInjective
<1>7. rank \in Surjection(K, 1..n)
    <2>1. IsFiniteSet(1..n) /\ Cardinality(1..n) = n
        BY <1>3, FS_Interval
    <2> QED
        BY <1>6, <2>1, FS_Injection
<1>8. ASSUME NEW k \in 1..n
      PROVE  place[k] \in K /\ rank[place[k]] = k
    BY <1>7 DEF Surjection
<1>9. \A i, j \in K : rank[i] = rank[j] => i = j
    BY <1>6 DEF Injection, IsInjective
<1>10. Retain(q) = [k \in 1..n |-> q[place[k]]]
    <2>1. Retain(q) = [k \in 1..n |-> q[CHOOSE i \in K : Cardinality(Upto(i)) = k]]
        BY DEF Retain
    <2>2. \A k : (CHOOSE i \in K : Cardinality(Upto(i)) = k) = CHOOSE i \in K : rank[i] = k
        BY Zenon
    <2> QED
        BY <2>1, <2>2, Zenon
<1>a. \A i \in K : rank[i] \in 1..n
    BY <1>4
<1> HIDE DEF K, rank, n, place
<1>11. \A k \in 1..n : q[place[k]] \in Frames
    BY <1>1, <1>8
<1>12. Retain(q) \in Seq(Frames)
    BY <1>3, <1>10, <1>11, IsASeq
<1>13. Len(Retain(q)) = n
    BY <1>3, <1>10, <1>12, LenProperties
<1>14. place \in [1..n -> K]
    BY <1>8 DEF place
<1>15. \A k, m \in 1..n : place[k] = place[m] => k = m
    BY <1>8
<1>16. \A i \in K : \E k \in 1..n : place[k] = i
    BY <1>8, <1>9, <1>a
<1> QED
    BY <1>10, <1>12, <1>13, <1>14, <1>15, <1>16 DEF K

\* What a push does to a queue: it adds its frame, or the head of it, and drops neither a
\* response nor a `closed`.
Pushed(q, f, e) ==
    /\ e \in Seq(Frames)
    /\ \A k \in 1..Len(e) :
           \/ \E i \in 1..Len(q) : e[k] = q[i]
           \/ e[k] = f
           \/ f.kind = "items" /\ e[k] = Frame("head", f.head)
    /\ \A i \in 1..Len(q) : Survives(q[i]) => \E k \in 1..Len(e) : e[k] = q[i]
    /\ \E k \in 1..Len(e) : e[k].head = f.head /\ (f.kind = "closed" => e[k] = f)
    /\ OneResponse(q) => OneResponse(e)

LEMMA EnqueueProperties ==
    ASSUME NEW q \in Seq(Frames), NEW f \in Frames, f.kind # "response"
    PROVE  Pushed(q, f, Enqueue(q, f))
<1> DEFINE e == Enqueue(q, f)
<1>1. Len(q) \in Nat /\ \A i \in 1..Len(q) : q[i] \in Frames
    BY LenProperties, ElementOfSeq
<1> DEFINE Drawn(r, place) ==
          /\ \A k \in 1..Len(r) : r[k] = q[place[k]]
          /\ \A k, m \in 1..Len(r) : place[k] = place[m] => k = m
          /\ \A i \in 1..Len(q) : Survives(q[i]) => \E k \in 1..Len(r) : place[k] = i
<1>a. PICK r \in Seq(Frames), g \in Frames :
          /\ e = Append(r, g)
          /\ g = f \/ (f.kind = "items" /\ g = Frame("head", f.head))
          /\ \E place \in [1..Len(r) -> 1..Len(q)] : Drawn(r, place)
    <2>1. CASE LogBytes(q) + SizeOf(f) > QueueBytes
        <3> DEFINE g == IF f.kind = "items" THEN Frame("head", f.head) ELSE f
        <3>1. e = Append(Retain(q), g)
            BY <2>1 DEF Enqueue
        <3>2. g \in Frames /\ (g = f \/ (f.kind = "items" /\ g = Frame("head", f.head)))
            BY DEF Frames, Frame
        <3> HIDE DEF g, e
        <3>3. Retain(q) \in Seq(Frames)
            BY RetainProperties
        <3>4. PICK place \in [1..Len(Retain(q)) -> Surviving(q)] :
                  /\ \A k \in 1..Len(Retain(q)) : Retain(q)[k] = q[place[k]]
                  /\ \A k, m \in 1..Len(Retain(q)) : place[k] = place[m] => k = m
                  /\ \A i \in Surviving(q) : \E k \in 1..Len(Retain(q)) : place[k] = i
            BY RetainProperties
        <3>5. place \in [1..Len(Retain(q)) -> 1..Len(q)]
            BY <3>4 DEF Surviving
        <3>6. \A i \in 1..Len(q) : Survives(q[i]) => i \in Surviving(q)
            BY DEF Surviving
        <3>7. \A i \in 1..Len(q) : Survives(q[i]) => \E k \in 1..Len(Retain(q)) : place[k] = i
            BY <3>4, <3>6, Zenon
        <3>8. Drawn(Retain(q), place)
            BY <3>4, <3>7
        <3> HIDE DEF Drawn
        <3>9. \E p \in [1..Len(Retain(q)) -> 1..Len(q)] : Drawn(Retain(q), p)
            BY <3>5, <3>8
        <3> QED
            BY <3>1, <3>2, <3>3, <3>9, Zenon
    <2>2. CASE ~(LogBytes(q) + SizeOf(f) > QueueBytes)
        <3> DEFINE place == [k \in 1..Len(q) |-> k]
        <3>1. e = Append(q, f)
            BY <2>2 DEF Enqueue
        <3>2. /\ place \in [1..Len(q) -> 1..Len(q)]
              /\ \A k \in 1..Len(q) : place[k] = k
            OBVIOUS
        <3>3. Drawn(q, place)
            BY <3>2
        <3> HIDE DEF place, Drawn, e
        <3>4. \E p \in [1..Len(q) -> 1..Len(q)] : Drawn(q, p)
            BY <3>2, <3>3
        <3> QED
            BY <3>1, <3>4, Zenon
    <2> QED
        BY <2>1, <2>2
<1>2. PICK place \in [1..Len(r) -> 1..Len(q)] : Drawn(r, place)
    BY <1>a
<1> HIDE DEF e
<1>3. /\ e \in Seq(Frames)
      /\ Len(e) = Len(r) + 1
      /\ \A i \in 1..Len(r) : e[i] = r[i]
      /\ e[Len(r) + 1] = g
    BY <1>a, AppendProperties
<1>4. Len(r) \in Nat
    BY LenProperties
<1>5. /\ \A k \in 1..Len(e) : k \in 1..Len(r) \/ k = Len(r) + 1
      /\ \A k \in 1..Len(r) : k \in 1..Len(e)
      /\ Len(r) + 1 \in 1..Len(e)
    BY <1>3, <1>4
<1>6. \A k \in 1..Len(r) : place[k] \in 1..Len(q) /\ e[k] = q[place[k]]
    BY <1>2, <1>3
<1>7. g.kind # "response" /\ g.head = f.head /\ (f.kind = "closed" => g = f)
    BY <1>a DEF Frame
<1>8. \A k \in 1..Len(e) :
          \/ \E i \in 1..Len(q) : e[k] = q[i]
          \/ e[k] = f
          \/ f.kind = "items" /\ e[k] = Frame("head", f.head)
    <2> TAKE k \in 1..Len(e)
    <2>1. CASE k \in 1..Len(r)
        BY <1>6, <2>1, Zenon
    <2>2. CASE k = Len(r) + 1
        BY <1>a, <1>3, <2>2
    <2> QED
        BY <1>5, <2>1, <2>2
<1>9. \A i \in 1..Len(q) : Survives(q[i]) => \E k \in 1..Len(e) : e[k] = q[i]
    <2> SUFFICES ASSUME NEW i \in 1..Len(q), Survives(q[i])
                 PROVE  \E k \in 1..Len(e) : e[k] = q[i]
        OBVIOUS
    <2>1. PICK k \in 1..Len(r) : place[k] = i
        BY <1>2
    <2> QED
        BY <1>5, <1>6, <2>1
<1>10. \E k \in 1..Len(e) : e[k].head = f.head /\ (f.kind = "closed" => e[k] = f)
    BY <1>3, <1>5, <1>7, Zenon
<1>11. OneResponse(q) => OneResponse(e)
    <2> SUFFICES ASSUME OneResponse(q),
                        NEW i \in 1..Len(e), NEW j \in 1..Len(e),
                        e[i].kind = "response", e[j].kind = "response"
                 PROVE  i = j
        BY DEF OneResponse
    <2>1. i \in 1..Len(r) /\ j \in 1..Len(r)
        BY <1>3, <1>5, <1>7
    <2>2. place[i] = place[j]
        BY <1>6, <2>1, Zenon DEF OneResponse
    <2> QED
        BY <1>2, <2>1, <2>2
<1> QED
    BY <1>3, <1>8, <1>9, <1>10, <1>11 DEF e, Pushed

LEMMA EnqueueType ==
    ASSUME NEW q \in Seq(Frames), NEW f \in Frames
    PROVE  Enqueue(q, f) \in Seq(Frames)
<1> DEFINE g == IF f.kind = "items" THEN Frame("head", f.head) ELSE f
<1>1. g \in Frames
    BY DEF Frame, Frames
<1> HIDE DEF g
<1>2. Append(Retain(q), g) \in Seq(Frames) /\ Append(q, f) \in Seq(Frames)
    BY <1>1, RetainProperties, AppendProperties
<1> QED
    BY <1>2 DEF Enqueue, g

-----------------------------------------------------------------------------
(***************************************************************************)
(* Types.                                                                  *)
(***************************************************************************)
LEMMA InitType == Init => PushTypeOK
<1> SUFFICES ASSUME Init PROVE PushTypeOK
    OBVIOUS
<1>1. ordered \in BOOLEAN
    BY PushAssumption DEF Init
<1>2. NoRequest \in Requests
    BY DEF NoRequest, Requests
<1> QED
    <2>1. /\ notices \in Seq(Notices)
          /\ batches \in Seq(Batches)
          /\ << >> \in Seq(Frames)
        BY EmptySeq DEF Init
    <2>2. outbox \in [Sessions -> Seq(Frames)]
        BY <2>1 DEF Init
    <2>3. head \in Nat \ {0}
        BY DEF Init
    <2>4. /\ handler \in [Sessions -> Requests]
          /\ view \in [Sessions -> {"off", "asked", "on", "closed"}]
          /\ known \in [Sessions -> Nat]
        BY <1>2 DEF Init
    <2>5. revoked \subseteq Devices /\ subs \subseteq Sessions /\ gone \in BOOLEAN
        BY DEF Init
    <2> QED
        BY <1>1, <2>1, <2>2, <2>3, <2>4, <2>5 DEF PushTypeOK

LEMMA PushesOfType ==
    ASSUME PushTypeOK, NEW n \in Notices
    PROVE  PushesOf(n) \in [subs -> Frames]
BY DEF PushTypeOK, Notices, PushesOf, Frame, Frames

LEMMA BatchType ==
    ASSUME PushTypeOK, NEW i \in 1..Len(batches)
    PROVE  /\ batches[i] \in [DOMAIN batches[i] -> Frames]
           /\ DOMAIN batches[i] \subseteq Sessions
<1>1. batches[i] \in Batches
    BY ElementOfSeq DEF PushTypeOK
<1> QED
    BY <1>1 DEF Batches

LEMMA NextType ==
    ASSUME PushTypeOK, [Next]_vars
    PROVE  PushTypeOK'
<1> USE DEF PushTypeOK
<1>1. ASSUME NEW R \in {{}} \cup {{d} : d \in Devices}, Commit(R)
      PROVE  PushTypeOK'
    <2>1. R \subseteq Devices
        OBVIOUS
    <2>2. Notice(head + 1, R, FALSE) \in Notices
        BY <2>1 DEF Notice, Notices
    <2>3. notices' \in Seq(Notices)
        BY <1>1, <2>2, AppendProperties DEF Commit
    <2>4. head' \in Nat \ {0}
        BY <1>1 DEF Commit
    <2> QED
        BY <1>1, <2>1, <2>3, <2>4 DEF Commit, client
<1>2. ASSUME Delete
      PROVE  PushTypeOK'
    <2>1. Notice(0, {}, TRUE) \in Notices
        BY DEF Notice, Notices
    <2>2. notices' \in Seq(Notices)
        BY <1>2, <2>1, AppendProperties DEF Delete
    <2> QED
        BY <1>2, <2>2 DEF Delete, client
<1>3. ASSUME Notify
      PROVE  PushTypeOK'
    <2>1. PICK i \in 1..Len(notices) :
              /\ notices' = RemoveAt(notices, i)
              /\ subs' = subs \ ClosedBy(notices[i])
              /\ batches' = Append(batches, PushesOf(notices[i]))
        BY <1>3 DEF Notify
    <2>2. notices' \in Seq(Notices)
        BY <2>1, RemoveAtProperties
    <2>3. notices[i] \in Notices
        BY ElementOfSeq
    <2>4. PushesOf(notices[i]) \in Batches
        BY <2>3, PushesOfType DEF Batches
    <2>5. batches' \in Seq(Batches)
        BY <2>1, <2>4, AppendProperties
    <2> QED
        BY <1>3, <2>1, <2>2, <2>5 DEF Notify, log, client
<1>4. ASSUME Deliver
      PROVE  PushTypeOK'
    <2>1. PICK i \in 1..Len(batches) :
              /\ outbox' = [s \in Sessions |->
                               IF s \in DOMAIN batches[i] THEN Enqueue(outbox[s], batches[i][s])
                               ELSE outbox[s]]
              /\ batches' = RemoveAt(batches, i)
        BY <1>4 DEF Deliver
    <2>2. batches' \in Seq(Batches)
        BY <2>1, RemoveAtProperties
    <2>3. ASSUME NEW s \in Sessions, s \in DOMAIN batches[i]
          PROVE  Enqueue(outbox[s], batches[i][s]) \in Seq(Frames)
        <3>1. outbox[s] \in Seq(Frames) /\ batches[i][s] \in Frames
            BY <2>3, BatchType
        <3> QED
            BY <3>1, EnqueueType
    <2>4. outbox' \in [Sessions -> Seq(Frames)]
        BY <2>1, <2>3
    <2> QED
        BY <1>4, <2>2, <2>4 DEF Deliver, log, client
<1>5. ASSUME NEW s \in Sessions, Authorize(s)
      PROVE  PushTypeOK'
    BY <1>5 DEF Authorize, log, Requests
<1>6. ASSUME NEW s \in Sessions, Register(s)
      PROVE  PushTypeOK'
    BY <1>6 DEF Register, log, client, Requests
<1>7. ASSUME NEW s \in Sessions, ReadHead(s)
      PROVE  PushTypeOK'
    <2>1. handler' \in [Sessions -> Requests] /\ subs' \subseteq Sessions
        <3>1. handler[s].pc = "registered" /\ handler \in [Sessions -> Requests]
            BY <1>7 DEF ReadHead
        <3>2. /\ [pc |-> "replying", head |-> head] \in Requests
              /\ [pc |-> "refusing", head |-> 0] \in Requests
            BY DEF Requests
        <3>3. CASE Allowed(s)
            BY <1>7, <3>2, <3>3 DEF ReadHead
        <3>4. CASE ~Allowed(s)
            BY <1>7, <3>2, <3>4 DEF ReadHead
        <3> QED
            BY <3>3, <3>4
    <2> QED
        BY <1>7, <2>1 DEF ReadHead, log, client
<1>8. ASSUME NEW s \in Sessions, Reply(s)
      PROVE  PushTypeOK'
    <2>1. Frame("response", handler[s].head) \in Frames
        BY DEF Frame, Frames, Requests
    <2>2. Append(outbox[s], Frame("response", handler[s].head)) \in Seq(Frames)
        BY <2>1, AppendProperties
    <2> QED
        BY <1>8, <2>2 DEF Reply, log, client, NoRequest, Requests
<1>9. ASSUME NEW s \in Sessions, Unsubscribe(s)
      PROVE  PushTypeOK'
    BY <1>9 DEF Unsubscribe, log
<1>10. ASSUME NEW s \in Sessions, Disconnect(s)
       PROVE  PushTypeOK'
    <2>1. \A i \in 1..Len(batches) :
              [t \in DOMAIN batches[i] \ {s} |-> batches[i][t]] \in Batches
        <3> SUFFICES ASSUME NEW i \in 1..Len(batches)
                     PROVE  [t \in DOMAIN batches[i] \ {s} |-> batches[i][t]] \in Batches
            OBVIOUS
        <3> DEFINE D == DOMAIN batches[i] \ {s}
        <3>1. [t \in D |-> batches[i][t]] \in [D -> Frames] /\ D \in SUBSET Sessions
            BY BatchType
        <3> QED
            BY <3>1 DEF Batches
    <2>2. Len(batches) \in Nat
        BY LenProperties
    <2>3. batches' \in [1..Len(batches) -> Batches]
        BY <1>10, <2>1 DEF Disconnect
    <2>5. batches' \in Seq(Batches)
        BY <2>2, <2>3, FunctionIsSeq
    <2>4. << >> \in Seq(Frames)
        BY EmptySeq
    <2> QED
        BY <1>10, <2>5, <2>4 DEF Disconnect, log
<1>11. ASSUME NEW s \in Sessions, Receive(s)
       PROVE  PushTypeOK'
    <2>1. Head(outbox[s]) \in Frames /\ Tail(outbox[s]) \in Seq(Frames)
        BY <1>11, HeadTailProperties DEF Receive
    <2>2. Head(outbox[s]).head \in Nat
        BY <2>1 DEF Frames
    <2> QED
        BY <1>11, <2>1, <2>2 DEF Receive, log
<1>12. ASSUME UNCHANGED vars
       PROVE  PushTypeOK'
    BY <1>12 DEF vars
<1> QED
    BY <1>1, <1>2, <1>3, <1>4, <1>5, <1>6, <1>7, <1>8, <1>9, <1>10, <1>11, <1>12 DEF Next

\* Which elements RemoveAt leaves.
LEMMA RemoveAtElements ==
    ASSUME NEW S, NEW q \in Seq(S), NEW i \in 1..Len(q)
    PROVE  /\ \A k \in 1..Len(RemoveAt(q, i)) :
                  \E j \in 1..Len(q) : RemoveAt(q, i)[k] = q[j]
           /\ \A j \in 1..Len(q) : j # i =>
                  \E k \in 1..Len(RemoveAt(q, i)) : RemoveAt(q, i)[k] = q[j]
<1> DEFINE r == RemoveAt(q, i)
<1>1. Len(q) \in Nat
    BY LenProperties
<1>2. /\ Len(r) = Len(q) - 1
      /\ \A k \in 1..(Len(q) - 1) : r[k] = IF k < i THEN q[k] ELSE q[k + 1]
    BY RemoveAtProperties
<1> HIDE DEF r
<1>3. ASSUME NEW k \in 1..Len(r)
      PROVE  \E j \in 1..Len(q) : r[k] = q[j]
    <2>1. k \in 1..Len(q) /\ k + 1 \in 1..Len(q)
        BY <1>1, <1>2
    <2> QED
        BY <1>2, <2>1
<1>4. ASSUME NEW j \in 1..Len(q), j # i
      PROVE  \E k \in 1..Len(r) : r[k] = q[j]
    <2>1. CASE j < i
        <3>1. j \in 1..Len(r)
            BY <1>1, <1>2, <2>1
        <3> QED
            BY <1>2, <2>1, <3>1
    <2>2. CASE i < j
        <3>1. j - 1 \in 1..Len(r) /\ ~(j - 1 < i) /\ (j - 1) + 1 = j
            BY <1>1, <1>2, <2>2
        <3>2. r[j - 1] = q[j]
            BY <1>2, <3>1
        <3> QED
            BY <3>1, <3>2
    <2> QED
        BY <1>4, <2>1, <2>2
<1> QED
    BY <1>3, <1>4 DEF r

SessionStep(s) ==
    \/ Authorize(s)
    \/ Register(s)
    \/ ReadHead(s)
    \/ Reply(s)
    \/ Unsubscribe(s)
    \/ Disconnect(s)
    \/ Receive(s)

LEMMA NextCases ==
    ASSUME [Next]_vars
    PROVE  \/ \E R \in {{}} \cup {{d} : d \in Devices} : Commit(R)
           \/ Delete
           \/ Notify
           \/ Deliver
           \/ \E s \in Sessions : SessionStep(s)
           \/ UNCHANGED vars
BY DEF Next, SessionStep

\* What a commit or a deletion adds to the notices.
LEMMA NoticesAppend ==
    ASSUME PushTypeOK, NEW n \in Notices, notices' = Append(notices, n)
    PROVE  /\ Len(notices') = Len(notices) + 1
           /\ \A i \in 1..Len(notices) : i \in 1..Len(notices') /\ notices'[i] = notices[i]
           /\ Len(notices') \in 1..Len(notices')
           /\ notices'[Len(notices')] = n
           /\ \A i \in 1..Len(notices') : i \in 1..Len(notices) \/ i = Len(notices')
<1>1. Len(notices) \in Nat
    BY LenProperties DEF PushTypeOK
<1>2. /\ Len(notices') = Len(notices) + 1
      /\ \A i \in 1..Len(notices) : notices'[i] = notices[i]
      /\ notices'[Len(notices) + 1] = n
    BY AppendProperties DEF PushTypeOK
<1> QED
    BY <1>1, <1>2

LEMMA CommitNotices ==
    ASSUME PushTypeOK, NEW R \in {{}} \cup {{d} : d \in Devices}, Commit(R)
    PROVE  /\ Notice(head + 1, R, FALSE) \in Notices
           /\ notices' = Append(notices, Notice(head + 1, R, FALSE))
BY DEF Commit, Notice, Notices, PushTypeOK

LEMMA DeleteNotices ==
    ASSUME PushTypeOK, Delete
    PROVE  /\ Notice(0, {}, TRUE) \in Notices
           /\ notices' = Append(notices, Notice(0, {}, TRUE))
BY DEF Delete, Notice, Notices

\* A notice that the hub takes: what it leaves of the notices and of the subscribers.
LEMMA NotifyEffect ==
    ASSUME PushTypeOK, Notify
    PROVE  \E i \in 1..Len(notices) :
               /\ notices[i] \in Notices
               /\ ordered => i = 1 /\ batches = << >>
               /\ notices' = RemoveAt(notices, i)
               /\ \A k \in 1..Len(notices') : \E j \in 1..Len(notices) : notices'[k] = notices[j]
               /\ \A j \in 1..Len(notices) :
                      j # i => \E k \in 1..Len(notices') : notices'[k] = notices[j]
               /\ subs' = subs \ ClosedBy(notices[i])
               /\ batches' = Append(batches, PushesOf(notices[i]))
<1>1. PICK i \in 1..Len(notices) :
          /\ ordered => i = 1 /\ batches = << >>
          /\ notices' = RemoveAt(notices, i)
          /\ subs' = subs \ ClosedBy(notices[i])
          /\ batches' = Append(batches, PushesOf(notices[i]))
    BY DEF Notify
<1>2. notices[i] \in Notices
    BY ElementOfSeq DEF PushTypeOK
<1>3. /\ \A k \in 1..Len(notices') : \E j \in 1..Len(notices) : notices'[k] = notices[j]
      /\ \A j \in 1..Len(notices) :
             j # i => \E k \in 1..Len(notices') : notices'[k] = notices[j]
    <2>1. notices \in Seq(Notices)
        BY DEF PushTypeOK
    <2>2. /\ \A k \in 1..Len(RemoveAt(notices, i)) :
                 \E j \in 1..Len(notices) : RemoveAt(notices, i)[k] = notices[j]
          /\ \A j \in 1..Len(notices) :
                 j # i => \E k \in 1..Len(RemoveAt(notices, i)) : RemoveAt(notices, i)[k] = notices[j]
        BY <2>1, RemoveAtElements
    <2> QED
        BY <1>1, <2>2, Zenon
<1> QED
    BY <1>1, <1>2, <1>3

-----------------------------------------------------------------------------
(***************************************************************************)
(* Revocations reach the subscriber table.                                 *)
(***************************************************************************)
Covers(n, s) == n.gone \/ DeviceOf[s] \in n.revoked

Covered(s) == \E i \in 1..Len(notices) : Covers(notices[i], s)

LEMMA NextRevoked ==
    ASSUME PushTypeOK, RevokedIsClosed, [Next]_vars
    PROVE  RevokedIsClosed'
<1>0. \A s \in subs : ~Allowed(s) => handler[s].pc = "registered" \/ Covered(s)
    BY DEF RevokedIsClosed, Covered, Covers
<1>a. ASSUME \A s \in subs' : (~Allowed(s))' => (handler[s].pc = "registered")' \/ Covered(s)'
      PROVE  RevokedIsClosed'
    BY <1>a DEF RevokedIsClosed, Covered, Covers
<1>1. ASSUME NEW R \in {{}} \cup {{d} : d \in Devices}, Commit(R)
      PROVE  RevokedIsClosed'
    <2>1. /\ notices' = Append(notices, Notice(head + 1, R, FALSE))
          /\ Notice(head + 1, R, FALSE) \in Notices
        BY <1>1, CommitNotices
    <2>2. \A s : Covered(s) => Covered(s)'
        BY <2>1, NoticesAppend DEF Covered, Covers
    <2>3. \A s : DeviceOf[s] \in R => Covered(s)'
        BY <2>1, NoticesAppend DEF Covered, Covers, Notice
    <2>4. subs' = subs /\ handler' = handler /\ gone' = gone /\ revoked' = revoked \cup R
        BY <1>1 DEF Commit
    <2> QED
        BY <1>0, <1>a, <2>2, <2>3, <2>4 DEF Allowed
<1>2. ASSUME Delete
      PROVE  RevokedIsClosed'
    <2>1. /\ notices' = Append(notices, Notice(0, {}, TRUE))
          /\ Notice(0, {}, TRUE) \in Notices
        BY <1>2, DeleteNotices
    <2>2. \A s : Covered(s)'
        BY <2>1, NoticesAppend DEF Covered, Covers, Notice
    <2> QED
        BY <1>a, <2>2
<1>3. ASSUME Notify
      PROVE  RevokedIsClosed'
    <2>1. PICK i \in 1..Len(notices) :
              /\ \A j \in 1..Len(notices) :
                     j # i => \E k \in 1..Len(notices') : notices'[k] = notices[j]
              /\ subs' = subs \ ClosedBy(notices[i])
        BY <1>3, NotifyEffect
    <2>2. ASSUME NEW s \in subs', Covered(s)
          PROVE  Covered(s)'
        <3>1. PICK j \in 1..Len(notices) : Covers(notices[j], s)
            BY <2>2 DEF Covered
        <3>2. j # i
            BY <2>1, <3>1 DEF ClosedBy, Covers
        <3> QED
            BY <2>1, <3>1, <3>2 DEF Covered, Covers
    <2>3. handler' = handler /\ gone' = gone /\ revoked' = revoked /\ subs' \subseteq subs
        BY <1>3, <2>1 DEF Notify, log
    <2> QED
        BY <1>0, <1>a, <2>2, <2>3 DEF Allowed
<1>4. ASSUME Deliver
      PROVE  RevokedIsClosed'
    BY <1>4 DEF Deliver, RevokedIsClosed, Allowed, log
<1>5. ASSUME NEW s \in Sessions, SessionStep(s)
      PROVE  RevokedIsClosed'
    <2> USE DEF SessionStep
    <2>1. UNCHANGED <<revoked, gone, notices>>
        BY <1>5 DEF Authorize, Register, ReadHead, Reply, Unsubscribe, Disconnect, Receive, log
    <2>2. \A t \in Sessions : t # s =>
              handler'[t] = handler[t] /\ (t \in subs' => t \in subs)
        BY <1>5 DEF Authorize, Register, ReadHead, Reply, Unsubscribe, Disconnect, Receive,
                    PushTypeOK
    <2>3. s \in subs' /\ ~Allowed(s) =>
              \/ handler'[s].pc = "registered"
              \/ s \in subs /\ handler[s].pc # "registered"
        <3>1. CASE Authorize(s)
            BY <3>1 DEF Authorize
        <3>2. CASE Register(s)
            BY <3>2 DEF Register, PushTypeOK, Requests
        <3>3. CASE ReadHead(s)
            BY <3>3 DEF ReadHead
        <3>4. CASE Reply(s)
            BY <3>4 DEF Reply
        <3>5. CASE Unsubscribe(s) \/ Disconnect(s)
            BY <3>5 DEF Unsubscribe, Disconnect
        <3>6. CASE Receive(s)
            BY <3>6 DEF Receive
        <3> QED
            BY <1>5, <3>1, <3>2, <3>3, <3>4, <3>5, <3>6
    <2>4. subs' \subseteq Sessions
        BY <1>5, NextType DEF Next, PushTypeOK
    <2>5. ASSUME NEW t \in subs', ~Allowed(t)
          PROVE  handler'[t].pc = "registered" \/ Covered(t)
        <3>1. CASE t = s
            BY <1>0, <2>3, <2>5, <3>1
        <3>2. CASE t # s
            BY <1>0, <2>2, <2>4, <2>5, <3>2
        <3> QED
            BY <3>1, <3>2
    <2>6. \A t : Covered(t)' = Covered(t) /\ Allowed(t)' = Allowed(t)
        BY <2>1 DEF Covered, Covers, Allowed
    <2> QED
        BY <1>a, <2>5, <2>6
<1>6. ASSUME UNCHANGED vars
      PROVE  RevokedIsClosed'
    BY <1>6 DEF vars, RevokedIsClosed, Allowed
<1> QED
    BY <1>1, <1>2, <1>3, <1>4, <1>5, <1>6, NextCases

\* A revoked device, or the subscriber of a deleted collection, is not left in the hub's
\* table (close_devices, close_gone, subscribe's second authorization).
THEOREM RevokedAlwaysClosed == Spec => []RevokedIsClosed
<1>1. Init => RevokedIsClosed
    BY DEF Init, RevokedIsClosed
<1> QED
    BY <1>1, InitType, NextType, NextRevoked, PTL DEF Spec

-----------------------------------------------------------------------------
(***************************************************************************)
(* The frames on their way to a session, step by step.                     *)
(***************************************************************************)
LEMMA FramesMember ==
    ASSUME PushTypeOK, NEW s \in Sessions, NEW f
    PROVE  f \in FramesFor(s) <=>
               \/ \E i \in 1..Len(outbox[s]) : outbox[s][i] = f
               \/ \E i \in 1..Len(batches) : s \in DOMAIN batches[i] /\ batches[i][s] = f
<1>1. outbox[s] \in Seq(Frames)
    BY DEF PushTypeOK
<1>2. Range(outbox[s]) = {outbox[s][i] : i \in 1..Len(outbox[s])}
    BY <1>1, RangeEquality
<1> QED
    BY <1>2 DEF FramesFor

LEMMA FramesMemberNext ==
    ASSUME PushTypeOK', NEW s \in Sessions, NEW f
    PROVE  f \in FramesFor(s)' <=>
               \/ \E i \in 1..Len(outbox'[s]) : outbox'[s][i] = f
               \/ \E i \in 1..Len(batches') : s \in DOMAIN batches'[i] /\ batches'[i][s] = f
<1>1. outbox'[s] \in Seq(Frames)
    BY DEF PushTypeOK
<1>2. Range(outbox'[s]) = {outbox'[s][i] : i \in 1..Len(outbox'[s])}
    BY <1>1, RangeEquality
<1> QED
    BY <1>2 DEF FramesFor

\* The same queues have the same frames.
LEMMA FramesSame ==
    ASSUME NEW s, outbox'[s] = outbox[s], batches' = batches
    PROVE  /\ FramesFor(s)' = FramesFor(s)
           /\ Closing(s)' = Closing(s)
           /\ Answers(s)' = Answers(s)
<1>1. FramesFor(s)' = FramesFor(s)
    BY DEF FramesFor
<1>2. Closing(s)' = Closing(s)
    BY <1>1, Zenon DEF Closing
<1>3. Answers(s)' = Answers(s)
    BY DEF Answers
<1> QED
    BY <1>1, <1>2, <1>3

\* A notice adds its push.
LEMMA FramesNotify ==
    ASSUME PushTypeOK, PushTypeOK', NEW n \in Notices, NEW s \in Sessions, outbox' = outbox,
           batches' = Append(batches, PushesOf(n))
    PROVE  \A f : f \in FramesFor(s)' <=>
               f \in FramesFor(s) \/ (s \in subs /\ f = PushesOf(n)[s])
<1>1. PushesOf(n) \in [subs -> Frames] /\ PushesOf(n) \in Batches
    BY PushesOfType DEF PushTypeOK, Batches
<1>2. /\ Len(batches') = Len(batches) + 1
      /\ \A i \in 1..Len(batches) : batches'[i] = batches[i]
      /\ batches'[Len(batches) + 1] = PushesOf(n)
    BY <1>1, AppendProperties DEF PushTypeOK
<1>3. Len(batches) \in Nat
    BY LenProperties DEF PushTypeOK
<1>4. /\ \A i \in 1..Len(batches') : i \in 1..Len(batches) \/ i = Len(batches) + 1
      /\ \A i \in 1..Len(batches) : i \in 1..Len(batches')
      /\ Len(batches) + 1 \in 1..Len(batches')
    BY <1>2, <1>3
<1>5. DOMAIN PushesOf(n) = subs
    BY <1>1
<1> TAKE f
<1>6. (\E i \in 1..Len(batches') : s \in DOMAIN batches'[i] /\ batches'[i][s] = f)
      <=> \/ \E i \in 1..Len(batches) : s \in DOMAIN batches[i] /\ batches[i][s] = f
          \/ s \in subs /\ f = PushesOf(n)[s]
    BY <1>2, <1>4, <1>5
<1> QED
    BY <1>6, FramesMember, FramesMemberNext

\* What delivering a batch does to one session.
LEMMA DeliverEffect ==
    ASSUME PushTypeOK, PushTypeOK', Deliver, NEW s \in Sessions, OneAnswer
    PROVE  \E i \in 1..Len(batches) :
               /\ batches' = RemoveAt(batches, i)
               /\ s \notin DOMAIN batches[i] => outbox'[s] = outbox[s]
               /\ s \in DOMAIN batches[i] =>
                      /\ outbox'[s] = Enqueue(outbox[s], batches[i][s])
                      /\ batches[i][s] \in Frames
                      /\ batches[i][s].kind # "response"
                      /\ batches[i][s] \in FramesFor(s)
<1>1. PICK i \in 1..Len(batches) :
          /\ outbox' = [t \in Sessions |->
                           IF t \in DOMAIN batches[i] THEN Enqueue(outbox[t], batches[i][t])
                           ELSE outbox[t]]
          /\ batches' = RemoveAt(batches, i)
    BY DEF Deliver
<1>2. s \in DOMAIN batches[i] => batches[i][s] \in Frames /\ batches[i][s].kind # "response"
    BY BatchType DEF OneAnswer
<1>3. s \in DOMAIN batches[i] => batches[i][s] \in FramesFor(s)
    BY FramesMember
<1> QED
    BY <1>1, <1>2, <1>3

\* Delivering loses no `closed` and no answer, and makes nothing up.
LEMMA FramesDeliver ==
    ASSUME PushTypeOK, PushTypeOK', Deliver, OneAnswer, NEW s \in Sessions
    PROVE  /\ \A f \in FramesFor(s)' :
                  \/ f \in FramesFor(s)
                  \/ \E g \in FramesFor(s) : f = Frame("head", g.head)
           /\ \A f \in FramesFor(s) : f.kind = "closed" => f \in FramesFor(s)'
           /\ Answers(s)' = Answers(s)
           /\ OneResponse(outbox'[s])
<1>1. PICK i \in 1..Len(batches) :
          /\ batches' = RemoveAt(batches, i)
          /\ s \notin DOMAIN batches[i] => outbox'[s] = outbox[s]
          /\ s \in DOMAIN batches[i] =>
                 /\ outbox'[s] = Enqueue(outbox[s], batches[i][s])
                 /\ batches[i][s] \in Frames
                 /\ batches[i][s].kind # "response"
                 /\ batches[i][s] \in FramesFor(s)
    BY DeliverEffect
<1>2. /\ \A k \in 1..Len(batches') : \E j \in 1..Len(batches) : batches'[k] = batches[j]
      /\ \A j \in 1..Len(batches) :
             j # i => \E k \in 1..Len(batches') : batches'[k] = batches[j]
    <2>1. batches \in Seq(Batches)
        BY DEF PushTypeOK
    <2>2. /\ \A k \in 1..Len(RemoveAt(batches, i)) :
                 \E j \in 1..Len(batches) : RemoveAt(batches, i)[k] = batches[j]
          /\ \A j \in 1..Len(batches) :
                 j # i => \E k \in 1..Len(RemoveAt(batches, i)) : RemoveAt(batches, i)[k] = batches[j]
        BY <2>1, RemoveAtElements
    <2> QED
        BY <1>1, <2>2, Zenon
<1>3. \A k \in 1..Len(batches') : s \in DOMAIN batches'[k] => batches'[k][s] \in FramesFor(s)
    BY <1>2, FramesMember
<1>4. \A j \in 1..Len(batches) : j # i /\ s \in DOMAIN batches[j] => batches[j][s] \in FramesFor(s)'
    BY <1>2, FramesMemberNext
<1>5. OneResponse(outbox[s])
    BY DEF OneAnswer
<1>6. CASE s \notin DOMAIN batches[i]
    <2>1. outbox'[s] = outbox[s]
        BY <1>1, <1>6
    <2>2. ASSUME NEW f \in FramesFor(s)' PROVE f \in FramesFor(s)
        BY <1>3, <2>1, FramesMember, FramesMemberNext
    <2>3. ASSUME NEW f \in FramesFor(s) PROVE f \in FramesFor(s)'
        BY <1>4, <1>6, <2>1, FramesMember, FramesMemberNext
    <2>4. Answers(s)' = Answers(s)
        BY <2>1 DEF Answers
    <2> QED
        BY <1>5, <2>1, <2>2, <2>3, <2>4
<1>7. CASE s \in DOMAIN batches[i]
    <2> DEFINE g == batches[i][s]
               q == outbox[s]
               e == outbox'[s]
    <2>1. e = Enqueue(q, g) /\ g \in Frames /\ g.kind # "response" /\ g \in FramesFor(s)
        BY <1>1, <1>7
    <2>2. q \in Seq(Frames)
        BY DEF PushTypeOK
    <2> HIDE DEF g, q, e
    <2>0. Pushed(q, g, e)
        BY <2>1, <2>2, EnqueueProperties, Zenon
    <2>3. /\ \A k \in 1..Len(e) :
                 \/ \E m \in 1..Len(q) : e[k] = q[m]
                 \/ e[k] = g
                 \/ g.kind = "items" /\ e[k] = Frame("head", g.head)
          /\ \A m \in 1..Len(q) : Survives(q[m]) => \E k \in 1..Len(e) : e[k] = q[m]
          /\ \E k \in 1..Len(e) : e[k].head = g.head /\ (g.kind = "closed" => e[k] = g)
          /\ OneResponse(q) => OneResponse(e)
        BY <2>0, Zenon DEF Pushed
    <2>4. ASSUME NEW f \in FramesFor(s)'
          PROVE  \/ f \in FramesFor(s)
                 \/ \E h \in FramesFor(s) : f = Frame("head", h.head)
        <3>1. CASE \E k \in 1..Len(batches') : s \in DOMAIN batches'[k] /\ batches'[k][s] = f
            BY <1>3, <3>1
        <3>2. CASE \E k \in 1..Len(e) : e[k] = f
            <4>1. \A m \in 1..Len(q) : q[m] \in FramesFor(s)
                BY FramesMember DEF q
            <4> QED
                BY <2>1, <2>3, <3>2, <4>1, Zenon
        <3> QED
            BY <3>1, <3>2, FramesMemberNext DEF e
    <2>5. ASSUME NEW f \in FramesFor(s), f.kind = "closed"
          PROVE  f \in FramesFor(s)'
        <3>1. \A k \in 1..Len(e) : e[k] \in FramesFor(s)'
            BY FramesMemberNext DEF e
        <3>2. CASE \E m \in 1..Len(q) : q[m] = f
            BY <2>3, <2>5, <3>1, <3>2, Zenon DEF Survives
        <3>3. CASE f = g
            BY <2>3, <2>5, <3>1, <3>3, Zenon
        <3>4. CASE \E j \in 1..Len(batches) : s \in DOMAIN batches[j] /\ batches[j][s] = f /\ j # i
            BY <1>4, <3>4
        <3> QED
            BY <3>2, <3>3, <3>4, FramesMember DEF q, g
    <2>6. Answers(s)' = Answers(s)
        <3>1. \A f : f \in Answers(s) <=> \E m \in 1..Len(q) : q[m] = f /\ f.kind = "response"
            BY DEF Answers, q
        <3>2. \A f : f \in Answers(s)' <=> \E k \in 1..Len(e) : e[k] = f /\ f.kind = "response"
            BY DEF Answers, e
        <3>3. Frame("head", g.head).kind # "response"
            BY DEF Frame
        <3>4. ASSUME NEW f, f \in Answers(s) PROVE f \in Answers(s)'
            <4>1. PICK m \in 1..Len(q) : q[m] = f /\ f.kind = "response"
                BY <3>1, <3>4
            <4>2. \E k \in 1..Len(e) : e[k] = q[m]
                BY <2>3, <4>1 DEF Survives
            <4> QED
                BY <3>2, <4>1, <4>2
        <3>5. ASSUME NEW f, f \in Answers(s)' PROVE f \in Answers(s)
            <4>1. PICK k \in 1..Len(e) : e[k] = f /\ f.kind = "response"
                BY <3>2, <3>5
            <4>2. \E m \in 1..Len(q) : e[k] = q[m]
                BY <2>1, <2>3, <3>3, <4>1
            <4> QED
                BY <3>1, <4>1, <4>2
        <3> QED
            BY <3>4, <3>5
    <2>7. OneResponse(e)
        BY <1>5, <2>3 DEF q
    <2> QED
        BY <2>4, <2>5, <2>6, <2>7 DEF e
<1> QED
    BY <1>6, <1>7

\* An answer is queued behind the frames that are there.
LEMMA FramesReply ==
    ASSUME PushTypeOK, PushTypeOK', NEW s \in Sessions, Reply(s)
    PROVE  /\ \A f : f \in FramesFor(s)' <=>
                  f \in FramesFor(s) \/ f = Frame("response", handler[s].head)
           /\ Answers(s)' = Answers(s) \cup {Frame("response", handler[s].head)}
           /\ Closing(s)' = Closing(s)
           /\ Answers(s) = {} => OneResponse(outbox'[s])
<1> DEFINE q == outbox[s]
           e == outbox'[s]
           a == Frame("response", handler[s].head)
<1>1. q \in Seq(Frames) /\ a \in Frames /\ e = Append(q, a) /\ batches' = batches
    BY DEF PushTypeOK, Reply, Frame, Frames, Requests
<1>2. Len(q) \in Nat
    BY <1>1, LenProperties
<1>3. a.kind = "response"
    BY DEF Frame
<1>4. \A f : f \in Answers(s) <=> \E i \in 1..Len(q) : q[i] = f /\ f.kind = "response"
    BY DEF Answers
<1>5. \A f : f \in Answers(s)' <=> \E i \in 1..Len(e) : e[i] = f /\ f.kind = "response"
    BY DEF Answers
<1>6. \A f : f \in FramesFor(s) <=>
          \/ \E i \in 1..Len(q) : q[i] = f
          \/ \E i \in 1..Len(batches) : s \in DOMAIN batches[i] /\ batches[i][s] = f
    BY FramesMember
<1>7. \A f : f \in FramesFor(s)' <=>
          \/ \E i \in 1..Len(e) : e[i] = f
          \/ \E i \in 1..Len(batches) : s \in DOMAIN batches[i] /\ batches[i][s] = f
    BY <1>1, FramesMemberNext
<1> HIDE DEF q, e, a
<1>8. /\ Len(e) = Len(q) + 1
      /\ \A i \in 1..Len(q) : e[i] = q[i]
      /\ e[Len(q) + 1] = a
    BY <1>1, AppendProperties
<1>9. /\ \A i \in 1..Len(e) : i \in 1..Len(q) \/ i = Len(q) + 1
      /\ \A i \in 1..Len(q) : i \in 1..Len(e)
      /\ Len(q) + 1 \in 1..Len(e)
    BY <1>2, <1>8
<1>10. \A f : (\E i \in 1..Len(e) : e[i] = f) <=> f = a \/ \E i \in 1..Len(q) : q[i] = f
    BY <1>8, <1>9
<1>11. \A f : f \in FramesFor(s)' <=> f \in FramesFor(s) \/ f = a
    BY <1>6, <1>7, <1>10, Zenon
<1>12. \A f : f \in Answers(s)' <=> f \in Answers(s) \/ f = a
    BY <1>3, <1>4, <1>5, <1>10, Zenon
<1>13. Closing(s)' = Closing(s)
    <2>1. Closing(s)' => Closing(s)
        BY <1>3, <1>11 DEF Closing
    <2>2. Closing(s) => Closing(s)'
        BY <1>11 DEF Closing
    <2> QED
        BY <2>1, <2>2 DEF Closing
<1>14. Answers(s) = {} => OneResponse(e)
    BY <1>4, <1>8, <1>9 DEF OneResponse
<1> QED
    BY <1>11, <1>12, <1>13, <1>14 DEF a, e

\* The client takes the first frame.
LEMMA FramesReceive ==
    ASSUME PushTypeOK, PushTypeOK', NEW s \in Sessions, Receive(s), OneAnswer
    PROVE  LET h == Head(outbox[s]) IN
           /\ h \in Frames
           /\ \A f : f \in FramesFor(s) <=> f \in FramesFor(s)' \/ f = h
           /\ h.kind = "response" => h \in Answers(s) /\ Answers(s)' = {}
           /\ h.kind # "response" => Answers(s)' = Answers(s)
           /\ h.kind # "closed" => Closing(s)' = Closing(s)
           /\ Closing(s)' => Closing(s)
           /\ h.kind = "closed" => Closing(s)
           /\ OneResponse(outbox'[s])
<1> DEFINE q == outbox[s]
           e == outbox'[s]
           h == Head(outbox[s])
<1>1. q \in Seq(Frames) /\ q # << >> /\ e = Tail(q) /\ batches' = batches
    BY DEF PushTypeOK, Receive
<1>2. Len(q) \in Nat \ {0} /\ h = q[1]
    BY <1>1, EmptySeq
<1>3. OneResponse(q)
    BY DEF OneAnswer
<1>4. \A f : f \in Answers(s) <=> \E i \in 1..Len(q) : q[i] = f /\ f.kind = "response"
    BY DEF Answers
<1>5. \A f : f \in Answers(s)' <=> \E i \in 1..Len(e) : e[i] = f /\ f.kind = "response"
    BY DEF Answers
<1>6. \A f : f \in FramesFor(s) <=>
          \/ \E i \in 1..Len(q) : q[i] = f
          \/ \E i \in 1..Len(batches) : s \in DOMAIN batches[i] /\ batches[i][s] = f
    BY FramesMember
<1>7. \A f : f \in FramesFor(s)' <=>
          \/ \E i \in 1..Len(e) : e[i] = f
          \/ \E i \in 1..Len(batches) : s \in DOMAIN batches[i] /\ batches[i][s] = f
    BY <1>1, FramesMemberNext
<1> HIDE DEF q, e, h
<1>8. /\ Len(e) = Len(q) - 1
      /\ \A i \in 1..Len(e) : e[i] = q[i + 1]
    BY <1>1, HeadTailProperties
<1>9. /\ \A i \in 1..Len(e) : i + 1 \in 1..Len(q) /\ i + 1 # 1
      /\ \A i \in 1..Len(q) : i = 1 \/ (i - 1 \in 1..Len(e) /\ e[i - 1] = q[i])
      /\ 1 \in 1..Len(q)
    BY <1>2, <1>8
<1>10. \A f : (\E i \in 1..Len(q) : q[i] = f) <=> f = h \/ \E i \in 1..Len(e) : e[i] = f
    BY <1>2, <1>8, <1>9
<1>11. \A f : f \in FramesFor(s) <=> f \in FramesFor(s)' \/ f = h
    BY <1>6, <1>7, <1>10, Zenon
<1>12. \A f : f \in Answers(s) <=> f \in Answers(s)' \/ (f = h /\ f.kind = "response")
    BY <1>4, <1>5, <1>10, Zenon
<1>13. ASSUME h.kind = "response", NEW i \in 1..Len(e)
       PROVE  e[i].kind # "response"
    <2>1. i + 1 \in 1..Len(q) /\ i + 1 # 1 /\ 1 \in 1..Len(q) /\ e[i] = q[i + 1]
        BY <1>8, <1>9
    <2> QED
        BY <1>2, <1>3, <1>13, <2>1 DEF OneResponse
<1>14. h.kind = "response" => h \in Answers(s) /\ Answers(s)' = {}
    BY <1>5, <1>12, <1>13
<1>15. h.kind # "response" => Answers(s)' = Answers(s)
    BY <1>12
<1>16. Closing(s) <=> Closing(s)' \/ h.kind = "closed"
    BY <1>11 DEF Closing
<1>17. h.kind # "closed" => Closing(s)' = Closing(s)
    BY <1>16 DEF Closing
<1>18. OneResponse(e)
    <2> SUFFICES ASSUME NEW i \in 1..Len(e), NEW j \in 1..Len(e),
                        e[i].kind = "response", e[j].kind = "response"
                 PROVE  i = j
        BY DEF OneResponse
    <2>1. /\ i + 1 \in 1..Len(q) /\ q[i + 1].kind = "response"
          /\ j + 1 \in 1..Len(q) /\ q[j + 1].kind = "response"
        BY <1>8, <1>9
    <2>2. i + 1 = j + 1
        BY <1>3, <2>1, Zenon DEF OneResponse
    <2> QED
        BY <1>2, <1>8, <2>2
<1>19. h \in Frames
    BY <1>1, <1>2, ElementOfSeq
<1> QED
    BY <1>11, <1>14, <1>15, <1>16, <1>17, <1>18, <1>19 DEF h, e

\* A connection takes its frames with it, and no one else's.
LEMMA FramesDisconnect ==
    ASSUME PushTypeOK, PushTypeOK', NEW s \in Sessions, Disconnect(s), NEW t \in Sessions
    PROVE  /\ t = s => FramesFor(t)' = {} /\ Answers(t)' = {} /\ ~Closing(t)'
           /\ t # s => /\ FramesFor(t)' = FramesFor(t)
                       /\ Answers(t)' = Answers(t)
                       /\ Closing(t)' = Closing(t)
<1>1. batches' = [i \in 1..Len(batches) |->
                     [u \in DOMAIN batches[i] \ {s} |-> batches[i][u]]]
    BY DEF Disconnect
<1>2. Len(batches) \in Nat
    BY LenProperties DEF PushTypeOK
<1>3. Len(batches') = Len(batches)
    <2>1. DOMAIN batches' = 1..Len(batches)
        BY <1>1
    <2>2. DOMAIN batches' = 1..Len(batches') /\ Len(batches') \in Nat
        BY LenProperties DEF PushTypeOK
    <2> QED
        BY <1>2, <2>1, <2>2
<1>4. \A i \in 1..Len(batches) :
          /\ DOMAIN batches'[i] = DOMAIN batches[i] \ {s}
          /\ \A u \in DOMAIN batches[i] \ {s} : batches'[i][u] = batches[i][u]
    BY <1>1
<1>5. outbox'[t] = IF t = s THEN << >> ELSE outbox[t]
    BY DEF Disconnect, PushTypeOK
<1>6. ASSUME t = s
      PROVE  FramesFor(t)' = {} /\ Answers(t)' = {} /\ ~Closing(t)'
    <2>1. 1..Len(outbox'[t]) = {}
        BY <1>5, <1>6, EmptySeq
    <2>2. \A f : f \notin FramesFor(t)'
        BY <1>3, <1>4, <1>6, <2>1, FramesMemberNext
    <2>3. Answers(t)' = {}
        BY <2>1 DEF Answers
    <2> QED
        BY <2>2, <2>3 DEF Closing
<1>7. ASSUME t # s
      PROVE  /\ FramesFor(t)' = FramesFor(t)
             /\ Answers(t)' = Answers(t)
             /\ Closing(t)' = Closing(t)
    <2>1. \A i \in 1..Len(batches) :
              /\ t \in DOMAIN batches'[i] <=> t \in DOMAIN batches[i]
              /\ t \in DOMAIN batches[i] => batches'[i][t] = batches[i][t]
        BY <1>4, <1>7
    <2>2. \A f : f \in FramesFor(t)' <=> f \in FramesFor(t)
        BY <1>3, <1>5, <1>7, <2>1, FramesMember, FramesMemberNext
    <2>3. FramesFor(t)' = FramesFor(t)
        BY <2>2
    <2>4. Answers(t)' = Answers(t)
        BY <1>5, <1>7 DEF Answers
    <2>5. Closing(t)' = Closing(t)
        BY <2>3, Zenon DEF Closing
    <2> QED
        BY <2>3, <2>4, <2>5
<1> QED
    BY <1>6, <1>7

-----------------------------------------------------------------------------
(***************************************************************************)
(* Clients that believe they are subscribed.                               *)
(***************************************************************************)
LEMMA NextNoticesTrue ==
    ASSUME PushTypeOK, NoticesTrue, [Next]_vars
    PROVE  NoticesTrue'
<1>1. ASSUME NEW R \in {{}} \cup {{d} : d \in Devices}, Commit(R)
      PROVE  NoticesTrue'
    <2>1. /\ notices' = Append(notices, Notice(head + 1, R, FALSE))
          /\ Notice(head + 1, R, FALSE) \in Notices
        BY <1>1, CommitNotices
    <2>2. /\ \A i \in 1..Len(notices) : notices'[i] = notices[i]
          /\ notices'[Len(notices')] = Notice(head + 1, R, FALSE)
          /\ \A i \in 1..Len(notices') : i \in 1..Len(notices) \/ i = Len(notices')
        BY <2>1, NoticesAppend
    <2>3. gone' = gone /\ revoked' = revoked \cup R
        BY <1>1 DEF Commit
    <2> QED
        BY <2>2, <2>3 DEF NoticesTrue, Notice
<1>2. ASSUME Delete
      PROVE  NoticesTrue'
    <2>1. /\ notices' = Append(notices, Notice(0, {}, TRUE))
          /\ Notice(0, {}, TRUE) \in Notices
        BY <1>2, DeleteNotices
    <2>2. /\ \A i \in 1..Len(notices) : notices'[i] = notices[i]
          /\ notices'[Len(notices')] = Notice(0, {}, TRUE)
          /\ \A i \in 1..Len(notices') : i \in 1..Len(notices) \/ i = Len(notices')
        BY <2>1, NoticesAppend
    <2>3. gone' /\ revoked' = revoked
        BY <1>2 DEF Delete
    <2> QED
        BY <2>2, <2>3 DEF NoticesTrue, Notice
<1>3. ASSUME Notify
      PROVE  NoticesTrue'
    <2>1. \A k \in 1..Len(notices') : \E j \in 1..Len(notices) : notices'[k] = notices[j]
        BY <1>3, NotifyEffect
    <2>2. gone' = gone /\ revoked' = revoked
        BY <1>3 DEF Notify, log
    <2> QED
        BY <2>1, <2>2 DEF NoticesTrue
<1>4. ASSUME Deliver
      PROVE  NoticesTrue'
    BY <1>4 DEF Deliver, log, NoticesTrue
<1>5. ASSUME NEW s \in Sessions, SessionStep(s)
      PROVE  NoticesTrue'
    <2>1. UNCHANGED <<revoked, gone, notices>>
        BY <1>5 DEF SessionStep, Authorize, Register, ReadHead, Reply, Unsubscribe, Disconnect,
                    Receive, log
    <2> QED
        BY <2>1 DEF NoticesTrue
<1>6. ASSUME UNCHANGED vars
      PROVE  NoticesTrue'
    BY <1>6 DEF vars, NoticesTrue
<1> QED
    BY <1>1, <1>2, <1>3, <1>4, <1>5, <1>6, NextCases

\* What a session step leaves alone.
LEMMA OtherSessions ==
    ASSUME PushTypeOK, NEW s \in Sessions, SessionStep(s), NEW t \in Sessions, t # s
    PROVE  /\ t \in subs' <=> t \in subs
           /\ handler'[t] = handler[t]
           /\ view'[t] = view[t]
           /\ known'[t] = known[t]
           /\ outbox'[t] = outbox[t]
           /\ UNCHANGED <<ordered, head, revoked, gone, notices>>
           /\ ~Disconnect(s) => batches' = batches
<1> USE DEF PushTypeOK, log, client
<1>1. CASE Authorize(s)
    BY <1>1 DEF Authorize
<1>2. CASE Register(s)
    BY <1>2 DEF Register
<1>3. CASE ReadHead(s)
    BY <1>3 DEF ReadHead
<1>4. CASE Reply(s)
    BY <1>4 DEF Reply
<1>5. CASE Unsubscribe(s)
    BY <1>5 DEF Unsubscribe
<1>6. CASE Disconnect(s)
    BY <1>6 DEF Disconnect
<1>7. CASE Receive(s)
    BY <1>7 DEF Receive
<1> QED
    BY <1>1, <1>2, <1>3, <1>4, <1>5, <1>6, <1>7 DEF SessionStep

\* The frames of the other sessions stay.
LEMMA OtherFrames ==
    ASSUME PushTypeOK, PushTypeOK', NEW s \in Sessions, SessionStep(s), NEW t \in Sessions, t # s
    PROVE  /\ FramesFor(t)' = FramesFor(t)
           /\ Answers(t)' = Answers(t)
           /\ Closing(t)' = Closing(t)
<1>1. CASE Disconnect(s)
    BY <1>1, FramesDisconnect
<1>2. CASE ~Disconnect(s)
    <2>1. outbox'[t] = outbox[t] /\ batches' = batches
        BY <1>2, OtherSessions
    <2> QED
        BY <2>1, FramesSame
<1> QED
    BY <1>1, <1>2

LEMMA NextOneAnswer ==
    ASSUME PushTypeOK, PushTypeOK', IndServed, [Next]_vars
    PROVE  OneAnswer'
<1> DEFINE Pushes(b) == \A i \in 1..Len(b) : \A s \in DOMAIN b[i] : b[i][s].kind # "response"
<1>0. OneAnswer /\ Pushes(batches) /\ \A s \in Sessions : OneResponse(outbox[s])
    BY DEF IndServed, OneAnswer
<1>a. ASSUME Pushes(batches'), \A s \in Sessions : OneResponse(outbox'[s])
      PROVE  OneAnswer'
    BY <1>a DEF OneAnswer
<1> HIDE DEF Pushes
<1>1. ASSUME NEW R, Commit(R)
      PROVE  OneAnswer'
    BY <1>0, <1>1, <1>a DEF Commit
<1>2. ASSUME Delete
      PROVE  OneAnswer'
    BY <1>0, <1>2, <1>a DEF Delete
<1>3. ASSUME Notify
      PROVE  OneAnswer'
    <2>1. PICK i \in 1..Len(notices) :
              notices[i] \in Notices /\ batches' = Append(batches, PushesOf(notices[i]))
        BY <1>3, NotifyEffect
    <2> DEFINE p == PushesOf(notices[i])
    <2>2. p \in [subs -> Frames] /\ p \in Batches /\ \A s \in DOMAIN p : p[s].kind # "response"
        <3>1. p \in [subs -> Frames]
            BY <2>1, PushesOfType
        <3>2. p \in Batches
            BY <3>1 DEF Batches, PushTypeOK
        <3>3. \A s \in DOMAIN p : p[s].kind # "response"
            BY DEF PushesOf, Frame
        <3> QED
            BY <3>1, <3>2, <3>3
    <2> HIDE DEF p
    <2>3. /\ Len(batches') = Len(batches) + 1
          /\ \A k \in 1..Len(batches) : batches'[k] = batches[k]
          /\ batches'[Len(batches) + 1] = p
        BY <2>1, <2>2, AppendProperties DEF PushTypeOK, p
    <2>4. Len(batches) \in Nat
        BY LenProperties DEF PushTypeOK
    <2>5. \A k \in 1..Len(batches') : k \in 1..Len(batches) \/ k = Len(batches) + 1
        BY <2>3, <2>4
    <2>6. Pushes(batches')
        BY <1>0, <2>2, <2>3, <2>5 DEF Pushes
    <2> QED
        BY <1>0, <1>3, <1>a, <2>6 DEF Notify
<1>4. ASSUME Deliver
      PROVE  OneAnswer'
    <2>1. \A s \in Sessions : OneResponse(outbox'[s])
        BY <1>0, <1>4, FramesDeliver
    <2>2. PICK i \in 1..Len(batches) : batches' = RemoveAt(batches, i)
        BY <1>4 DEF Deliver
    <2>3. batches \in Seq(Batches)
        BY DEF PushTypeOK
    <2>4. \A k \in 1..Len(RemoveAt(batches, i)) :
              \E j \in 1..Len(batches) : RemoveAt(batches, i)[k] = batches[j]
        BY <2>3, RemoveAtElements
    <2>5. Pushes(batches')
        BY <1>0, <2>2, <2>4 DEF Pushes
    <2> QED
        BY <1>a, <2>1, <2>5
<1>5. ASSUME NEW s \in Sessions, SessionStep(s)
      PROVE  OneAnswer'
    <2>1. \A t \in Sessions : t # s => OneResponse(outbox'[t])
        BY <1>0, <1>5, OtherSessions
    <2>2. OneResponse(outbox'[s])
        <3>1. CASE Reply(s)
            <4>1. Answers(s) = {}
                BY <3>1 DEF IndServed, Consistent, Reply
            <4> QED
                BY <3>1, <4>1, FramesReply
        <3>2. CASE Receive(s)
            BY <1>0, <3>2, FramesReceive
        <3>3. CASE Disconnect(s)
            <4>1. outbox'[s] = << >>
                BY <3>3 DEF Disconnect, PushTypeOK
            <4>2. 1..Len(outbox'[s]) = {}
                BY <4>1, EmptySeq
            <4> QED
                BY <4>2 DEF OneResponse
        <3>4. CASE Authorize(s) \/ Register(s) \/ ReadHead(s) \/ Unsubscribe(s)
            BY <1>0, <3>4 DEF Authorize, Register, ReadHead, Unsubscribe
        <3> QED
            BY <1>5, <3>1, <3>2, <3>3, <3>4 DEF SessionStep
    <2>3. Pushes(batches')
        <3>1. CASE Disconnect(s)
            <4>1. batches' = [i \in 1..Len(batches) |->
                                 [u \in DOMAIN batches[i] \ {s} |-> batches[i][u]]]
                BY <3>1 DEF Disconnect
            <4>2. 1..Len(batches') = 1..Len(batches)
                <5>1. DOMAIN batches' = 1..Len(batches)
                    BY <4>1
                <5> QED
                    BY <5>1, LenProperties DEF PushTypeOK
            <4>3. \A i \in 1..Len(batches) :
                      /\ DOMAIN batches'[i] = DOMAIN batches[i] \ {s}
                      /\ \A u \in DOMAIN batches[i] \ {s} : batches'[i][u] = batches[i][u]
                BY <4>1
            <4> QED
                BY <1>0, <4>2, <4>3 DEF Pushes
        <3>2. CASE ~Disconnect(s)
            BY <1>0, <1>5, <3>2 DEF SessionStep, Authorize, Register, ReadHead, Reply,
                                    Unsubscribe, Receive
        <3> QED
            BY <3>1, <3>2
    <2> QED
        BY <1>a, <2>1, <2>2, <2>3
<1>6. ASSUME UNCHANGED vars
      PROVE  OneAnswer'
    BY <1>0, <1>6, <1>a DEF vars
<1> QED
    BY <1>1, <1>2, <1>3, <1>4, <1>5, <1>6, NextCases

\* A session that only lost its authorization stays consistent.
LEMMA ConsistentSame ==
    ASSUME NEW t, Consistent(t),
           t \in subs' <=> t \in subs,
           handler'[t] = handler[t],
           view'[t] = view[t],
           Closing(t)' = Closing(t),
           Answers(t)' = Answers(t),
           ~Allowed(t) => ~Allowed(t)'
    PROVE  Consistent(t)'
<1>1. Told(t)' <=> Told(t)
    BY Zenon DEF Told
<1> QED
    BY <1>1 DEF Consistent

LEMMA NotifyConsistent ==
    ASSUME PushTypeOK, PushTypeOK', IndServed, Notify, NEW t \in Sessions
    PROVE  Consistent(t)'
<1>1. PICK i \in 1..Len(notices) :
          /\ notices[i] \in Notices
          /\ subs' = subs \ ClosedBy(notices[i])
          /\ batches' = Append(batches, PushesOf(notices[i]))
    BY NotifyEffect
<1> DEFINE n == notices[i]
<1>2. UNCHANGED <<gone, revoked, handler, outbox, view>>
    BY DEF Notify, log, client
<1>3. Consistent(t)
    BY DEF IndServed
<1>4. \A f : f \in FramesFor(t)' <=> f \in FramesFor(t) \/ (t \in subs /\ f = PushesOf(n)[t])
    BY <1>1, <1>2, FramesNotify
<1>5. Answers(t)' = Answers(t)
    BY <1>2 DEF Answers
<1>6. Allowed(t)' <=> Allowed(t)
    BY <1>2 DEF Allowed
<1>7. t \in subs => (PushesOf(n)[t].kind = "closed" <=> t \in ClosedBy(n))
    BY DEF PushesOf, Frame
<1>8. t \in ClosedBy(n) => ~Allowed(t) /\ t \in subs
    BY <1>1 DEF ClosedBy, IndServed, NoticesTrue, Allowed
<1> HIDE DEF n
<1>9. t \in subs' <=> t \in subs /\ t \notin ClosedBy(n)
    BY <1>1 DEF n
<1>10. Closing(t)' <=> Closing(t) \/ t \in ClosedBy(n)
    BY <1>4, <1>7, <1>8 DEF Closing
<1>11. Told(t) => Told(t)'
    BY <1>2, <1>9, <1>10 DEF Told
<1>12. handler'[t] = handler[t] /\ view'[t] = view[t]
    BY <1>2
<1> QED
    BY <1>3, <1>5, <1>6, <1>8, <1>9, <1>10, <1>11, <1>12 DEF Consistent

LEMMA SessionConsistent ==
    ASSUME PushTypeOK, PushTypeOK', IndServed, NEW s \in Sessions, SessionStep(s)
    PROVE  Consistent(s)'
<1>1. Consistent(s) /\ OneAnswer
    BY DEF IndServed
<1>2. /\ handler[s] \in Requests
      /\ view[s] \in {"off", "asked", "on", "closed"}
    BY DEF PushTypeOK
<1>3. Allowed(s)' <=> Allowed(s)
    BY DEF SessionStep, Authorize, Register, ReadHead, Reply, Unsubscribe, Disconnect, Receive,
           log, Allowed
<1>4. CASE Authorize(s)
    <2>1. /\ handler[s] = NoRequest /\ view[s] \in {"off", "closed"} /\ Allowed(s)
          /\ handler'[s].pc = "authorized" /\ handler'[s].head = 0 /\ view'[s] = "asked"
          /\ subs' = subs
        BY <1>4 DEF Authorize, PushTypeOK, NoRequest, Requests
    <2>2. Closing(s)' = Closing(s) /\ Answers(s)' = Answers(s)
        BY <1>4, FramesSame DEF Authorize
    <2>3. ~Closing(s) /\ s \notin subs /\ Answers(s) = {}
        BY <1>1, <2>1 DEF Consistent
    <2>4. ~Closing(s)'
        BY <2>2, <2>3
    <2> QED
        BY <1>3, <2>1, <2>2, <2>3, <2>4 DEF Consistent
<1>5. CASE Register(s)
    <2>1. /\ handler[s].pc = "authorized" /\ view'[s] = view[s]
          /\ handler'[s].pc = "registered" /\ handler'[s].head = handler[s].head
          /\ s \in subs'
        BY <1>5, <1>2 DEF Register, PushTypeOK, client, Requests
    <2>2. Closing(s)' = Closing(s) /\ Answers(s)' = Answers(s)
        BY <1>5, FramesSame DEF Register
    <2>3. ~Closing(s) /\ view[s] = "asked" /\ Answers(s) = {} /\ handler[s].head = 0
        BY <1>1, <2>1 DEF Consistent
    <2>4. ~Closing(s)'
        BY <2>2, <2>3
    <2> QED
        BY <1>3, <2>1, <2>2, <2>3, <2>4 DEF Consistent
<1>6. CASE ReadHead(s)
    <2>1. handler[s].pc = "registered" /\ view'[s] = view[s]
        BY <1>6 DEF ReadHead, client
    <2>2. Closing(s)' = Closing(s) /\ Answers(s)' = Answers(s)
        BY <1>6, FramesSame DEF ReadHead
    <2>3. Answers(s) = {} /\ view[s] \in {"asked", "closed"}
        BY <1>1, <2>1 DEF Consistent
    <2>4. CASE Allowed(s)
        <3>1. handler'[s] = [pc |-> "replying", head |-> head] /\ subs' = subs /\ head # 0
            BY <1>6, <2>4 DEF ReadHead, PushTypeOK
        <3>2. s \in subs
            BY <1>1, <2>1, <2>4 DEF Consistent
        <3>3. Told(s)'
            BY <3>1, <3>2 DEF Told
        <3> QED
            BY <1>1, <1>3, <2>1, <2>2, <2>3, <2>4, <3>1, <3>2, <3>3 DEF Consistent
    <2>5. CASE ~Allowed(s)
        <3>1. handler'[s] = [pc |-> "refusing", head |-> 0] /\ s \notin subs'
            BY <1>6, <2>5 DEF ReadHead, PushTypeOK
        <3> QED
            BY <1>1, <1>3, <2>1, <2>2, <2>3, <2>5, <3>1 DEF Consistent
    <2> QED
        BY <2>4, <2>5
<1>7. CASE Reply(s)
    <2> DEFINE a == Frame("response", handler[s].head)
    <2>1. /\ handler[s].pc \in {"replying", "refusing"} /\ view'[s] = view[s]
          /\ handler'[s] = NoRequest /\ subs' = subs
        BY <1>7 DEF Reply, PushTypeOK, client
    <2>2. Closing(s)' = Closing(s) /\ Answers(s)' = Answers(s) \cup {a}
        BY <1>7, FramesReply
    <2>3. Answers(s) = {} /\ view[s] \in {"asked", "closed"}
        BY <1>1, <2>1 DEF Consistent
    <2>4. a.head = handler[s].head
        BY DEF Frame
    <2>5. handler'[s].pc = "none" /\ handler'[s].head = 0
        BY <2>1 DEF NoRequest
    <2> HIDE DEF a
    <2>6. Told(s)' <=> Told(s)
        BY <2>1, <2>2 DEF Told
    <2>7. IF a.head = 0 THEN s \notin subs ELSE Told(s)
        BY <1>1, <2>1, <2>4 DEF Consistent
    <2> QED
        BY <1>1, <1>3, <2>1, <2>2, <2>3, <2>5, <2>6, <2>7 DEF Consistent
<1>8. CASE Unsubscribe(s)
    <2>1. /\ handler[s] = NoRequest /\ handler' = handler
          /\ view[s] = "on" /\ view'[s] = "off" /\ s \notin subs'
        BY <1>8 DEF Unsubscribe, PushTypeOK
    <2>2. Closing(s)' = Closing(s) /\ Answers(s)' = Answers(s)
        BY <1>8, FramesSame DEF Unsubscribe
    <2>3. Answers(s) = {}
        BY <1>1, <2>1 DEF Consistent
    <2> QED
        BY <1>1, <1>3, <2>1, <2>2, <2>3 DEF Consistent, NoRequest
<1>9. CASE Disconnect(s)
    <2>1. /\ handler[s] = NoRequest /\ handler' = handler /\ view'[s] = "off" /\ s \notin subs'
        BY <1>9 DEF Disconnect, PushTypeOK
    <2>2. Answers(s)' = {} /\ ~Closing(s)'
        BY <1>9, FramesDisconnect
    <2> QED
        BY <2>1, <2>2 DEF Consistent, NoRequest
<1>10. CASE Receive(s)
    <2> DEFINE h == Head(outbox[s])
    <2>1. /\ h \in Frames
          /\ h.kind = "response" => h \in Answers(s) /\ Answers(s)' = {}
          /\ h.kind # "response" => Answers(s)' = Answers(s)
          /\ h.kind # "closed" => Closing(s)' = Closing(s)
          /\ Closing(s)' => Closing(s)
          /\ h.kind = "closed" => Closing(s)
        BY <1>1, <1>10, FramesReceive
    <2>2. /\ handler'[s] = handler[s] /\ subs' = subs
          /\ view'[s] = CASE h.kind = "closed" /\ view[s] # "off" -> "closed"
                          [] h.kind = "response" /\ view[s] = "asked" ->
                                 IF h.head = 0 THEN "off" ELSE "on"
                          [] OTHER -> view[s]
        BY <1>10 DEF Receive, PushTypeOK
    <2> HIDE DEF h
    <2>3. CASE h.kind = "closed"
        <3>1. view'[s] = IF view[s] = "off" THEN "off" ELSE "closed"
            BY <2>2, <2>3
        <3> QED
            BY <1>1, <1>2, <1>3, <2>1, <2>2, <2>3, <3>1 DEF Consistent, Told
    <2>4. CASE h.kind = "response"
        <3>1. view'[s] = IF view[s] = "asked" THEN (IF h.head = 0 THEN "off" ELSE "on") ELSE view[s]
            BY <2>2, <2>4
        <3>2. /\ handler[s].pc = "none" /\ view[s] \in {"asked", "closed"}
              /\ IF h.head = 0 THEN s \notin subs ELSE Told(s)
            BY <1>1, <2>1, <2>4 DEF Consistent
        <3>3. Closing(s)' = Closing(s) /\ Answers(s)' = {}
            BY <2>1, <2>4
        <3>4. view'[s] = "on" => Told(s)'
            BY <2>2, <3>1, <3>2, <3>3 DEF Told
        <3> QED
            BY <1>1, <1>3, <2>2, <3>1, <3>2, <3>3, <3>4 DEF Consistent
    <2>5. CASE h.kind \notin {"closed", "response"}
        <3>1. view'[s] = view[s] /\ Closing(s)' = Closing(s) /\ Answers(s)' = Answers(s)
            BY <2>1, <2>2, <2>5
        <3> QED
            BY <1>1, <1>3, <2>2, <3>1, ConsistentSame
    <2> QED
        BY <2>3, <2>4, <2>5
<1> QED
    BY <1>4, <1>5, <1>6, <1>7, <1>8, <1>9, <1>10 DEF SessionStep

LEMMA NextServed ==
    ASSUME PushTypeOK, PushTypeOK', IndServed, [Next]_vars
    PROVE  IndServed'
<1>1. NoticesTrue' /\ OneAnswer'
    BY NextNoticesTrue, NextOneAnswer DEF IndServed
<1>2. ASSUME NEW t \in Sessions PROVE Consistent(t)'
    <2>1. Consistent(t) /\ OneAnswer
        BY DEF IndServed
    <2>2. ASSUME NEW R, Commit(R) \/ Delete
          PROVE  Consistent(t)'
        <3>1. UNCHANGED <<subs, handler, view, outbox, batches>> /\ (~Allowed(t) => ~Allowed(t)')
            BY <2>2 DEF Commit, Delete, client, Allowed
        <3>2. Closing(t)' = Closing(t) /\ Answers(t)' = Answers(t)
            BY <3>1, FramesSame
        <3> QED
            BY <2>1, <3>1, <3>2, ConsistentSame
    <2>3. ASSUME Notify PROVE Consistent(t)'
        BY <2>3, NotifyConsistent
    <2>4. ASSUME Deliver PROVE Consistent(t)'
        <3>1. UNCHANGED <<subs, handler, view, gone, revoked>>
            BY <2>4 DEF Deliver, log, client
        <3>2. /\ \A f \in FramesFor(t)' :
                     \/ f \in FramesFor(t)
                     \/ \E g \in FramesFor(t) : f = Frame("head", g.head)
              /\ \A f \in FramesFor(t) : f.kind = "closed" => f \in FramesFor(t)'
              /\ Answers(t)' = Answers(t)
            BY <2>1, <2>4, FramesDeliver
        <3>3. Closing(t) => Closing(t)'
            BY <3>2 DEF Closing
        <3>4. Closing(t)' => Closing(t)
            BY <3>2 DEF Closing, Frame
        <3>5. Closing(t)' = Closing(t)
            BY <3>3, <3>4 DEF Closing
        <3>6. Allowed(t)' = Allowed(t)
            BY <3>1 DEF Allowed
        <3> QED
            BY <2>1, <3>1, <3>2, <3>5, <3>6, ConsistentSame
    <2>5. ASSUME NEW s \in Sessions, SessionStep(s) PROVE Consistent(t)'
        <3>1. CASE t = s
            BY <2>5, <3>1, SessionConsistent
        <3>2. CASE t # s
            <4>1. /\ t \in subs' <=> t \in subs
                  /\ handler'[t] = handler[t]
                  /\ view'[t] = view[t]
                  /\ UNCHANGED <<revoked, gone>>
                BY <2>5, <3>2, OtherSessions
            <4>2. Answers(t)' = Answers(t) /\ Closing(t)' = Closing(t)
                BY <2>5, <3>2, OtherFrames
            <4>3. Allowed(t)' = Allowed(t)
                BY <4>1 DEF Allowed
            <4> QED
                BY <2>1, <4>1, <4>2, <4>3, ConsistentSame
        <3> QED
            BY <3>1, <3>2
    <2>6. ASSUME UNCHANGED vars PROVE Consistent(t)'
        <3>1. Closing(t)' = Closing(t) /\ Answers(t)' = Answers(t)
            BY <2>6, FramesSame DEF vars
        <3> QED
            BY <2>1, <2>6, <3>1, ConsistentSame DEF vars, Allowed
    <2> QED
        BY <2>2, <2>3, <2>4, <2>5, <2>6, NextCases
<1> QED
    BY <1>1, <1>2 DEF IndServed

LEMMA InitServed == Init => IndServed
<1> SUFFICES ASSUME Init PROVE IndServed
    OBVIOUS
<1>1. PushTypeOK
    BY InitType
<1>2. \A s \in Sessions : 1..Len(outbox[s]) = {} /\ 1..Len(batches) = {} /\ 1..Len(notices) = {}
    BY EmptySeq DEF Init
<1>3. ASSUME NEW s \in Sessions
      PROVE  Consistent(s) /\ OneResponse(outbox[s])
    <2>1. \A f : f \notin FramesFor(s)
        BY <1>1, <1>2, FramesMember
    <2>2. Answers(s) = {} /\ ~Closing(s)
        BY <1>2, <2>1 DEF Answers, Closing
    <2>3. handler[s].pc = "none" /\ handler[s].head = 0 /\ view[s] = "off" /\ s \notin subs
        BY DEF Init, NoRequest
    <2> QED
        BY <1>2, <2>2, <2>3 DEF Consistent, OneResponse
<1>4. NoticesTrue /\ OneAnswer
    <2>1. 1..Len(batches) = {} /\ 1..Len(notices) = {}
        BY EmptySeq DEF Init
    <2> QED
        BY <1>3, <2>1 DEF NoticesTrue, OneAnswer
<1> QED
    BY <1>3, <1>4 DEF IndServed

\* A client that believes it is subscribed is in the hub's table, or a `closed` is on its
\* way to it, whatever the queue had to drop.
THEOREM BelieversAlwaysServed == Spec => []BelieversAreServed
<1>1. IndServed => BelieversAreServed
    BY DEF IndServed, Consistent, Told, Closing, BelieversAreServed
<1> QED
    BY <1>1, InitType, NextType, InitServed, NextServed, PTL DEF Spec

-----------------------------------------------------------------------------
(***************************************************************************)
(* The latest head.                                                        *)
(***************************************************************************)
Bounded(s) ==
    /\ known[s] <= head
    /\ handler[s].head <= head
    /\ \A f \in FramesFor(s) : f.head <= head

LEMMA NextHeadsBounded ==
    ASSUME PushTypeOK, PushTypeOK', OneAnswer, HeadsBounded, [Next]_vars
    PROVE  HeadsBounded'
<1> DEFINE Noticed(ns, h) == \A i \in 1..Len(ns) : ns[i].head <= h /\ (~ns[i].gone => ns[i].head # 0)
<1>0. Noticed(notices, head) /\ \A s \in Sessions : Bounded(s)
    BY DEF HeadsBounded, Bounded
<1>a. ASSUME Noticed(notices', head'), \A s \in Sessions : Bounded(s)'
      PROVE  HeadsBounded'
    BY <1>a DEF HeadsBounded, Bounded
<1>b. /\ head \in Nat
      /\ \A s \in Sessions :
             known[s] \in Nat /\ handler[s].head \in Nat /\ \A f \in FramesFor(s) : f.head \in Nat
    <2>1. ASSUME NEW s \in Sessions, NEW f \in FramesFor(s)
          PROVE  f.head \in Nat
        <3>1. f \in Frames
            <4>1. \A i \in 1..Len(outbox[s]) : outbox[s][i] \in Frames
                BY ElementOfSeq DEF PushTypeOK
            <4>2. \A i \in 1..Len(batches) : s \in DOMAIN batches[i] => batches[i][s] \in Frames
                BY BatchType
            <4> QED
                BY <4>1, <4>2, FramesMember
        <3> QED
            BY <3>1 DEF Frames
    <2> QED
        BY <2>1 DEF PushTypeOK, Requests
<1>c. \A i \in 1..Len(notices) : notices[i].head \in Nat
    <2>1. \A i \in 1..Len(notices) : notices[i] \in Notices
        BY ElementOfSeq DEF PushTypeOK
    <2> QED
        BY <2>1 DEF Notices
<1>1. ASSUME NEW R \in {{}} \cup {{d} : d \in Devices}, Commit(R)
      PROVE  HeadsBounded'
    <2>1. /\ notices' = Append(notices, Notice(head + 1, R, FALSE))
          /\ Notice(head + 1, R, FALSE) \in Notices
        BY <1>1, CommitNotices
    <2>2. /\ \A i \in 1..Len(notices) : notices'[i] = notices[i]
          /\ notices'[Len(notices')] = Notice(head + 1, R, FALSE)
          /\ \A i \in 1..Len(notices') : i \in 1..Len(notices) \/ i = Len(notices')
        BY <2>1, NoticesAppend
    <2>3. head' = head + 1 /\ UNCHANGED <<known, handler, outbox, batches>>
        BY <1>1 DEF Commit, client
    <2>4. ASSUME NEW s \in Sessions PROVE Bounded(s)'
        <3>1. FramesFor(s)' = FramesFor(s)
            BY <2>3, FramesSame
        <3>2. \A x \in Nat : x <= head => x <= head'
            BY <1>b, <2>3
        <3> QED
            BY <1>0, <1>b, <2>3, <3>1, <3>2 DEF Bounded
    <2>5. Noticed(notices', head')
        <3>1. \A x \in Nat : x <= head => x <= head'
            BY <1>b, <2>3
        <3>2. \A i \in 1..Len(notices) :
                  notices'[i].head <= head' /\ (~notices'[i].gone => notices'[i].head # 0)
            BY <1>0, <1>c, <2>2, <3>1
        <3>3. Notice(head + 1, R, FALSE).head = head' /\ head' <= head' /\ head' # 0
            BY <1>b, <2>3 DEF Notice
        <3> QED
            BY <2>2, <3>2, <3>3
    <2> QED
        BY <1>a, <2>4, <2>5
<1>2. ASSUME Delete
      PROVE  HeadsBounded'
    <2>1. /\ notices' = Append(notices, Notice(0, {}, TRUE))
          /\ Notice(0, {}, TRUE) \in Notices
        BY <1>2, DeleteNotices
    <2>2. /\ \A i \in 1..Len(notices) : notices'[i] = notices[i]
          /\ notices'[Len(notices')] = Notice(0, {}, TRUE)
          /\ \A i \in 1..Len(notices') : i \in 1..Len(notices) \/ i = Len(notices')
        BY <2>1, NoticesAppend
    <2>3. UNCHANGED <<head, known, handler, outbox, batches>>
        BY <1>2 DEF Delete, client
    <2>4. ASSUME NEW s \in Sessions PROVE Bounded(s)'
        BY <1>0, <2>3, FramesSame DEF Bounded
    <2>5. Noticed(notices', head')
        BY <1>0, <1>b, <2>2, <2>3 DEF Notice
    <2> QED
        BY <1>a, <2>4, <2>5
<1>3. ASSUME Notify
      PROVE  HeadsBounded'
    <2>1. PICK i \in 1..Len(notices) :
              /\ notices[i] \in Notices
              /\ \A k \in 1..Len(notices') : \E j \in 1..Len(notices) : notices'[k] = notices[j]
              /\ batches' = Append(batches, PushesOf(notices[i]))
        BY <1>3, NotifyEffect
    <2>2. UNCHANGED <<head, known, handler, outbox>>
        BY <1>3 DEF Notify, log, client
    <2>3. Noticed(notices', head')
        BY <1>0, <2>1, <2>2
    <2>4. ASSUME NEW s \in Sessions PROVE Bounded(s)'
        <3>1. \A f : f \in FramesFor(s)' <=>
                  f \in FramesFor(s) \/ (s \in subs /\ f = PushesOf(notices[i])[s])
            BY <2>1, <2>2, FramesNotify
        <3>2. s \in subs => PushesOf(notices[i])[s].head \in {0, notices[i].head}
            BY DEF PushesOf, Frame
        <3>3. s \in subs => PushesOf(notices[i])[s].head <= head
            BY <1>0, <1>b, <3>2
        <3> QED
            BY <1>0, <2>2, <3>1, <3>3 DEF Bounded
    <2> QED
        BY <1>a, <2>3, <2>4
<1>4. ASSUME Deliver
      PROVE  HeadsBounded'
    <2>1. UNCHANGED <<head, known, handler, notices>>
        BY <1>4 DEF Deliver, log, client
    <2>2. ASSUME NEW s \in Sessions PROVE Bounded(s)'
        <3>1. \A f \in FramesFor(s)' :
                  \/ f \in FramesFor(s)
                  \/ \E g \in FramesFor(s) : f = Frame("head", g.head)
            BY <1>4, FramesDeliver
        <3>2. \A f \in FramesFor(s)' : \E g \in FramesFor(s) : f.head = g.head
            BY <3>1 DEF Frame
        <3> QED
            BY <1>0, <2>1, <3>2 DEF Bounded
    <2> QED
        BY <1>0, <1>a, <2>1, <2>2
<1>5. ASSUME NEW s \in Sessions, SessionStep(s)
      PROVE  HeadsBounded'
    <2>1. UNCHANGED <<head, notices>>
        BY <1>5 DEF SessionStep, Authorize, Register, ReadHead, Reply, Unsubscribe, Disconnect,
                    Receive, log
    <2>2. ASSUME NEW t \in Sessions, t # s PROVE Bounded(t)'
        BY <1>0, <1>5, <2>1, <2>2, OtherSessions, OtherFrames DEF Bounded
    <2>3. Bounded(s)'
        <3>1. CASE Authorize(s) \/ Register(s) \/ Unsubscribe(s)
            <4>1. /\ UNCHANGED <<outbox, batches, known>>
                  /\ handler'[s].head = handler[s].head
                BY <3>1 DEF Authorize, Register, Unsubscribe, client, PushTypeOK, Requests
            <4> QED
                BY <1>0, <2>1, <4>1, FramesSame DEF Bounded
        <3>2. CASE ReadHead(s)
            <4>1. UNCHANGED <<outbox, batches, known>> /\ handler'[s].head \in {head, 0}
                BY <3>2 DEF ReadHead, client, PushTypeOK
            <4>2. handler'[s].head <= head
                BY <1>b, <4>1
            <4> QED
                BY <1>0, <2>1, <4>1, <4>2, FramesSame DEF Bounded
        <3>3. CASE Reply(s)
            <4>1. \A f : f \in FramesFor(s)' <=>
                      f \in FramesFor(s) \/ f = Frame("response", handler[s].head)
                BY <3>3, FramesReply
            <4>2. known' = known /\ handler'[s].head = 0
                BY <3>3 DEF Reply, client, NoRequest, PushTypeOK
            <4>3. 0 <= head
                BY <1>b
            <4> QED
                BY <1>0, <2>1, <4>1, <4>2, <4>3 DEF Bounded, Frame
        <3>4. CASE Disconnect(s)
            <4>1. FramesFor(s)' = {} /\ known'[s] = 0 /\ handler' = handler
                BY <3>4, FramesDisconnect DEF Disconnect, PushTypeOK
            <4> QED
                BY <1>0, <1>b, <2>1, <4>1 DEF Bounded
        <3>5. CASE Receive(s)
            <4>1. \A f : f \in FramesFor(s) <=> f \in FramesFor(s)' \/ f = Head(outbox[s])
                BY <3>5, FramesReceive
            <4>2. known'[s] \in {known[s], Head(outbox[s]).head} /\ handler' = handler
                BY <3>5 DEF Receive, PushTypeOK
            <4> QED
                BY <1>0, <2>1, <4>1, <4>2 DEF Bounded
        <3> QED
            BY <1>5, <3>1, <3>2, <3>3, <3>4, <3>5 DEF SessionStep
    <2> QED
        BY <1>0, <1>a, <2>1, <2>2, <2>3
<1>6. ASSUME UNCHANGED vars
      PROVE  HeadsBounded'
    BY <1>6 DEF vars, HeadsBounded, FramesFor
<1> QED
    BY <1>1, <1>2, <1>3, <1>4, <1>5, <1>6, NextCases

LEMMA NextOrderKept ==
    ASSUME PushTypeOK, PushTypeOK', HeadsBounded, OrderKept, [Next]_vars
    PROVE  OrderKept'
<1> DEFINE Follow(ns, h) ==
          \A i \in 1..Len(ns) : ns[i].head # 0 => \E j \in i..Len(ns) : ns[j].head = h
           Pushed1(b, h, latest) ==
          \A i \in 1..Len(b) : \A s \in DOMAIN b[i] :
              b[i][s].kind # "closed" => b[i][s].head = h \/ latest
<1>0. ordered => Len(batches) <= 1 /\ Follow(notices, head) /\ Pushed1(batches, head, LatestNoticed)
    BY DEF OrderKept
<1>a. ASSUME ordered' =>
                 Len(batches') <= 1 /\ Follow(notices', head') /\ Pushed1(batches', head', LatestNoticed')
      PROVE  OrderKept'
    BY <1>a DEF OrderKept
<1>b. Len(notices) \in Nat /\ Len(batches) \in Nat
    BY LenProperties DEF PushTypeOK
<1>1. ASSUME NEW R \in {{}} \cup {{d} : d \in Devices}, Commit(R)
      PROVE  OrderKept'
    <2>1. /\ notices' = Append(notices, Notice(head + 1, R, FALSE))
          /\ Notice(head + 1, R, FALSE) \in Notices
        BY <1>1, CommitNotices
    <2>2. /\ Len(notices') = Len(notices) + 1
          /\ Len(notices') \in 1..Len(notices')
          /\ notices'[Len(notices')] = Notice(head + 1, R, FALSE)
        BY <2>1, NoticesAppend
    <2>3. head' = head + 1 /\ ordered' = ordered /\ batches' = batches
        BY <1>1 DEF Commit
    <2>4. notices'[Len(notices')].head = head'
        BY <2>2, <2>3 DEF Notice
    <2>5. LatestNoticed'
        BY <2>2, <2>4 DEF LatestNoticed
    <2>6. Follow(notices', head')
        <3>1. \A i \in 1..Len(notices') : Len(notices') \in i..Len(notices')
            BY <1>b, <2>2
        <3> QED
            BY <2>4, <3>1
    <2> QED
        BY <1>0, <1>a, <2>3, <2>5, <2>6
<1>2. ASSUME Delete
      PROVE  OrderKept'
    <2>1. /\ notices' = Append(notices, Notice(0, {}, TRUE))
          /\ Notice(0, {}, TRUE) \in Notices
        BY <1>2, DeleteNotices
    <2>2. /\ Len(notices') = Len(notices) + 1
          /\ \A i \in 1..Len(notices) : i \in 1..Len(notices') /\ notices'[i] = notices[i]
          /\ notices'[Len(notices')] = Notice(0, {}, TRUE)
          /\ \A i \in 1..Len(notices') : i \in 1..Len(notices) \/ i = Len(notices')
        BY <2>1, NoticesAppend
    <2>3. head' = head /\ ordered' = ordered /\ batches' = batches
        BY <1>2 DEF Delete
    <2>4. LatestNoticed => LatestNoticed'
        BY <2>2, <2>3 DEF LatestNoticed
    <2>5. Follow(notices, head) => Follow(notices', head')
        <3> SUFFICES ASSUME Follow(notices, head), NEW i \in 1..Len(notices'), notices'[i].head # 0
                     PROVE  \E j \in i..Len(notices') : notices'[j].head = head'
            OBVIOUS
        <3>1. notices'[Len(notices')].head = 0
            BY <2>2 DEF Notice
        <3>2. i \in 1..Len(notices) /\ notices[i].head # 0
            BY <2>2, <3>1
        <3>3. PICK j \in i..Len(notices) : notices[j].head = head
            BY <3>2
        <3>4. j \in 1..Len(notices) /\ j \in i..Len(notices')
            BY <1>b, <2>2, <3>2
        <3> QED
            BY <2>2, <2>3, <3>3, <3>4
    <2> QED
        BY <1>0, <1>a, <2>3, <2>4, <2>5
<1>3. ASSUME Notify
      PROVE  OrderKept'
    <2>1. PICK i \in 1..Len(notices) :
              /\ notices[i] \in Notices
              /\ ordered => i = 1 /\ batches = << >>
              /\ notices' = RemoveAt(notices, i)
              /\ batches' = Append(batches, PushesOf(notices[i]))
        BY <1>3, NotifyEffect
    <2>2. head' = head /\ ordered' = ordered
        BY <1>3 DEF Notify, log
    <2> SUFFICES ASSUME ordered
                 PROVE  /\ Len(batches') <= 1
                        /\ Follow(notices', head)
                        /\ Pushed1(batches', head, LatestNoticed')
        BY <1>a, <2>2
    <2> DEFINE n == notices[1]
               p == PushesOf(n)
    <2>3. i = 1 /\ batches = << >> /\ Follow(notices, head)
        BY <1>0, <2>1
    <2>4. notices \in Seq(Notices) /\ 1 \in 1..Len(notices) /\ notices' = RemoveAt(notices, 1)
        BY <2>1, <2>3 DEF PushTypeOK
    <2>5. /\ Len(notices') = Len(notices) - 1
          /\ \A k \in 1..(Len(notices) - 1) : notices'[k] = notices[k + 1]
        <3>1. /\ Len(RemoveAt(notices, 1)) = Len(notices) - 1
              /\ \A k \in 1..(Len(notices) - 1) :
                     RemoveAt(notices, 1)[k] = IF k < 1 THEN notices[k] ELSE notices[k + 1]
            BY <2>4, RemoveAtProperties
        <3> QED
            BY <1>b, <2>4, <3>1
    <2>6. Follow(notices', head)
        <3> SUFFICES ASSUME NEW k \in 1..Len(notices'), notices'[k].head # 0
                     PROVE  \E j \in k..Len(notices') : notices'[j].head = head
            OBVIOUS
        <3>1. k + 1 \in 1..Len(notices) /\ notices[k + 1].head # 0
            BY <1>b, <2>5
        <3>2. PICK j \in (k + 1)..Len(notices) : notices[j].head = head
            BY <2>3, <3>1
        <3>3. j - 1 \in k..Len(notices') /\ j - 1 \in 1..(Len(notices) - 1) /\ (j - 1) + 1 = j
            BY <1>b, <2>5, <3>1
        <3> QED
            BY <2>5, <3>2, <3>3
    <2>7. p \in [subs -> Frames] /\ p \in Batches
        BY <2>1, <2>3, PushesOfType DEF Batches, PushTypeOK
    <2>8. Len(batches') = 1 /\ batches'[1] = p
        <3>1. batches \in Seq(Batches) /\ Len(batches) = 0 /\ batches' = Append(batches, p)
            BY <2>1, <2>3, EmptySeq DEF PushTypeOK
        <3> HIDE DEF p
        <3> QED
            BY <2>7, <3>1, AppendProperties
    <2>9. ASSUME NEW s \in DOMAIN p, p[s].kind # "closed"
          PROVE  p[s].head = head \/ LatestNoticed'
        <3>1. s \in subs /\ ~n.gone /\ p[s].head = n.head
            BY <2>9 DEF PushesOf, ClosedBy, Frame
        <3>2. n.head # 0
            BY <2>4, <3>1 DEF HeadsBounded
        <3>3. PICK j \in 1..Len(notices) : notices[j].head = head
            BY <2>3, <2>4, <3>2
        <3>4. CASE j = 1
            BY <3>1, <3>3, <3>4
        <3>5. CASE j # 1
            <4>1. j - 1 \in 1..Len(notices') /\ j - 1 \in 1..(Len(notices) - 1) /\ (j - 1) + 1 = j
                BY <1>b, <2>5, <3>5
            <4>2. notices'[j - 1].head = head'
                BY <2>2, <2>5, <3>3, <4>1
            <4> QED
                BY <4>1, <4>2 DEF LatestNoticed
        <3> QED
            BY <3>4, <3>5
    <2>10. Pushed1(batches', head, LatestNoticed')
        BY <2>8, <2>9
    <2> QED
        BY <2>6, <2>8, <2>10
<1>4. ASSUME Deliver
      PROVE  OrderKept'
    <2>1. PICK i \in 1..Len(batches) : batches' = RemoveAt(batches, i)
        BY <1>4 DEF Deliver
    <2>2. head' = head /\ ordered' = ordered /\ notices' = notices
        BY <1>4 DEF Deliver, log
    <2>3. LatestNoticed' = LatestNoticed
        BY <2>2 DEF LatestNoticed
    <2>4. Len(batches') = Len(batches) - 1
        BY <2>1, RemoveAtProperties DEF PushTypeOK
    <2>5. ordered => Len(batches') <= 1 /\ 1..Len(batches') = {}
        BY <1>0, <1>b, <2>4
    <2> QED
        BY <1>0, <1>a, <2>2, <2>3, <2>5
<1>5. ASSUME NEW s \in Sessions, SessionStep(s)
      PROVE  OrderKept'
    <2>1. UNCHANGED <<ordered, head, notices>>
        BY <1>5 DEF SessionStep, Authorize, Register, ReadHead, Reply, Unsubscribe, Disconnect,
                    Receive, log
    <2>2. LatestNoticed' = LatestNoticed
        BY <2>1 DEF LatestNoticed
    <2>3. CASE Disconnect(s)
        <3>1. batches' = [i \in 1..Len(batches) |->
                             [u \in DOMAIN batches[i] \ {s} |-> batches[i][u]]]
            BY <2>3 DEF Disconnect
        <3>2. 1..Len(batches') = 1..Len(batches) /\ Len(batches') \in Nat
            <4>1. DOMAIN batches' = 1..Len(batches)
                BY <3>1
            <4> QED
                BY <4>1, LenProperties DEF PushTypeOK
        <3>3. Len(batches') = Len(batches)
            BY <1>b, <3>2
        <3>4. \A i \in 1..Len(batches) :
                  /\ DOMAIN batches'[i] = DOMAIN batches[i] \ {s}
                  /\ \A u \in DOMAIN batches[i] \ {s} : batches'[i][u] = batches[i][u]
            BY <3>1
        <3>5. Pushed1(batches, head, LatestNoticed) => Pushed1(batches', head', LatestNoticed')
            BY <2>1, <2>2, <3>2, <3>4
        <3> QED
            BY <1>0, <1>a, <2>1, <3>3, <3>5
    <2>4. CASE ~Disconnect(s)
        <3>1. batches' = batches
            BY <1>5, <2>4 DEF SessionStep, Authorize, Register, ReadHead, Reply, Unsubscribe, Receive
        <3> QED
            BY <1>0, <1>a, <2>1, <2>2, <3>1
    <2> QED
        BY <2>3, <2>4
<1>6. ASSUME UNCHANGED vars
      PROVE  OrderKept'
    BY <1>6 DEF vars, OrderKept, LatestNoticed
<1> QED
    BY <1>1, <1>2, <1>3, <1>4, <1>5, <1>6, NextCases

Latest(s) ==
    \/ known[s] = head
    \/ handler[s].head = head
    \/ \E f \in FramesFor(s) : f.head = head
    \/ LatestNoticed

Served(s) == s \in subs /\ handler[s].pc \in {"none", "replying"} /\ view[s] # "closed"

LEMMA NextLatest ==
    ASSUME PushTypeOK, PushTypeOK', IndServed, IndHead, [Next]_vars
    PROVE  LatestHeadOnItsWay'
<1>0. ordered => \A s \in Sessions : Served(s) => Latest(s)
    BY DEF IndHead, LatestHeadOnItsWay, Served, Latest, LatestNoticed
<1>a. ASSUME ordered' => \A s \in Sessions : Served(s)' => Latest(s)'
      PROVE  LatestHeadOnItsWay'
    BY <1>a DEF PushTypeOK, LatestHeadOnItsWay, Served, Latest, LatestNoticed
<1>b. head \in Nat \ {0} /\ OneAnswer /\ HeadsBounded /\ OrderKept
    BY DEF PushTypeOK, IndServed, IndHead
<1>1. ASSUME NEW R \in {{}} \cup {{d} : d \in Devices}, Commit(R)
      PROVE  LatestHeadOnItsWay'
    <2>1. /\ notices' = Append(notices, Notice(head + 1, R, FALSE))
          /\ Notice(head + 1, R, FALSE) \in Notices
        BY <1>1, CommitNotices
    <2>2. /\ Len(notices') \in 1..Len(notices')
          /\ notices'[Len(notices')] = Notice(head + 1, R, FALSE)
        BY <2>1, NoticesAppend
    <2>3. LatestNoticed'
        BY <1>1, <2>2 DEF LatestNoticed, Commit, Notice
    <2> QED
        BY <1>a, <2>3 DEF Latest
<1>2. ASSUME Delete
      PROVE  LatestHeadOnItsWay'
    <2>1. /\ notices' = Append(notices, Notice(0, {}, TRUE))
          /\ Notice(0, {}, TRUE) \in Notices
        BY <1>2, DeleteNotices
    <2>2. \A i \in 1..Len(notices) : i \in 1..Len(notices') /\ notices'[i] = notices[i]
        BY <2>1, NoticesAppend
    <2>3. UNCHANGED <<ordered, head, subs, handler, known, view, outbox, batches>>
        BY <1>2 DEF Delete, client
    <2>4. LatestNoticed => LatestNoticed'
        BY <2>2, <2>3 DEF LatestNoticed
    <2>5. ASSUME NEW s \in Sessions PROVE Latest(s) => Latest(s)'
        BY <2>3, <2>4, FramesSame DEF Latest
    <2> QED
        BY <1>0, <1>a, <2>3, <2>5 DEF Served
<1>3. ASSUME Notify
      PROVE  LatestHeadOnItsWay'
    <2>1. PICK i \in 1..Len(notices) :
              /\ notices[i] \in Notices
              /\ \A j \in 1..Len(notices) :
                     j # i => \E k \in 1..Len(notices') : notices'[k] = notices[j]
              /\ subs' = subs \ ClosedBy(notices[i])
              /\ batches' = Append(batches, PushesOf(notices[i]))
        BY <1>3, NotifyEffect
    <2>2. UNCHANGED <<ordered, head, handler, known, view, outbox>>
        BY <1>3 DEF Notify, log, client
    <2>3. ASSUME NEW s \in Sessions, Served(s)', Latest(s)
          PROVE  Latest(s)'
        <3>1. \A f : f \in FramesFor(s)' <=>
                  f \in FramesFor(s) \/ (s \in subs /\ f = PushesOf(notices[i])[s])
            BY <2>1, <2>2, FramesNotify
        <3>2. CASE LatestNoticed
            <4>1. PICK j \in 1..Len(notices) : notices[j].head = head
                BY <3>2 DEF LatestNoticed
            <4>2. CASE j = i
                <5>1. s \in subs /\ s \notin ClosedBy(notices[i])
                    BY <2>1, <2>3 DEF Served
                <5>2. PushesOf(notices[i])[s].head = head
                    BY <4>1, <4>2, <5>1 DEF PushesOf, Frame
                <5> QED
                    BY <2>2, <3>1, <5>1, <5>2 DEF Latest
            <4>3. CASE j # i
                BY <2>1, <2>2, <4>1, <4>3 DEF Latest, LatestNoticed
            <4> QED
                BY <4>2, <4>3
        <3>3. CASE ~LatestNoticed
            BY <2>2, <2>3, <3>1, <3>3 DEF Latest
        <3> QED
            BY <3>2, <3>3
    <2>4. \A s \in Sessions : Served(s)' => Served(s)
        BY <2>1, <2>2 DEF Served
    <2> QED
        BY <1>0, <1>a, <2>2, <2>3, <2>4
<1>4. ASSUME Deliver
      PROVE  LatestHeadOnItsWay'
    <2>1. UNCHANGED <<ordered, head, notices, subs, handler, known, view>>
        BY <1>4 DEF Deliver, log, client
    <2>2. LatestNoticed' = LatestNoticed
        BY <2>1 DEF LatestNoticed
    <2>3. ASSUME ordered, NEW s \in Sessions, Served(s), Latest(s), ~LatestNoticed
          PROVE  Latest(s)'
        <3>1. PICK i \in 1..Len(batches) :
                  /\ batches' = RemoveAt(batches, i)
                  /\ s \notin DOMAIN batches[i] => outbox'[s] = outbox[s]
                  /\ s \in DOMAIN batches[i] =>
                         /\ outbox'[s] = Enqueue(outbox[s], batches[i][s])
                         /\ batches[i][s] \in Frames
                         /\ batches[i][s].kind # "response"
                         /\ batches[i][s] \in FramesFor(s)
            BY <1>4, <1>b, DeliverEffect
        <3>2. CASE s \in DOMAIN batches[i]
            <4> DEFINE g == batches[i][s]
            <4>1. ~Closing(s)
                BY <2>3 DEF IndServed, Consistent, Served
            <4>2. g.kind # "closed"
                BY <3>1, <3>2, <4>1 DEF Closing
            <4>3. g.head = head
                BY <1>b, <2>3, <3>2, <4>2 DEF OrderKept
            <4>4. Pushed(outbox[s], g, outbox'[s])
                BY <3>1, <3>2, EnqueueProperties DEF PushTypeOK
            <4>5. PICK k \in 1..Len(outbox'[s]) : outbox'[s][k].head = head
                BY <4>3, <4>4 DEF Pushed
            <4>6. outbox'[s][k] \in FramesFor(s)'
                BY FramesMemberNext
            <4> QED
                BY <2>1, <4>5, <4>6 DEF Latest
        <3>3. CASE s \notin DOMAIN batches[i]
            <4>1. \A j \in 1..Len(batches) :
                      j # i => \E k \in 1..Len(batches') : batches'[k] = batches[j]
                <5>1. \A j \in 1..Len(batches) :
                          j # i => \E k \in 1..Len(RemoveAt(batches, i)) :
                                       RemoveAt(batches, i)[k] = batches[j]
                    BY RemoveAtElements DEF PushTypeOK
                <5> QED
                    BY <3>1, <5>1
            <4>2. \A f \in FramesFor(s) : f \in FramesFor(s)'
                <5> TAKE f \in FramesFor(s)
                <5>1. CASE \E k \in 1..Len(outbox[s]) : outbox[s][k] = f
                    BY <3>1, <3>3, <5>1, FramesMemberNext
                <5>2. CASE \E j \in 1..Len(batches) : s \in DOMAIN batches[j] /\ batches[j][s] = f
                    BY <3>3, <4>1, <5>2, FramesMemberNext
                <5> QED
                    BY <5>1, <5>2, FramesMember
            <4> QED
                BY <2>1, <2>3, <4>2 DEF Latest
        <3> QED
            BY <3>2, <3>3
    <2>4. \A s \in Sessions : Served(s)' => Served(s)
        BY <2>1 DEF Served
    <2>5. ordered => \A s \in Sessions : Served(s)' => Latest(s)'
        BY <1>0, <2>2, <2>3, <2>4 DEF Latest
    <2> QED
        BY <1>a, <2>1, <2>5
<1>5. ASSUME NEW s \in Sessions, SessionStep(s)
      PROVE  LatestHeadOnItsWay'
    <2>1. UNCHANGED <<ordered, head, notices>>
        BY <1>5 DEF SessionStep, Authorize, Register, ReadHead, Reply, Unsubscribe, Disconnect,
                    Receive, log
    <2>2. LatestNoticed' = LatestNoticed
        BY <2>1 DEF LatestNoticed
    <2>3. ASSUME NEW t \in Sessions, t # s, Served(t)', Served(t) => Latest(t)
          PROVE  Latest(t)'
        <3>1. /\ t \in subs' <=> t \in subs
              /\ handler'[t] = handler[t]
              /\ view'[t] = view[t]
              /\ known'[t] = known[t]
            BY <1>5, <2>3, OtherSessions
        <3>2. FramesFor(t)' = FramesFor(t)
            BY <1>5, <2>3, OtherFrames
        <3> QED
            BY <2>1, <2>2, <2>3, <3>1, <3>2 DEF Latest, Served
    <2>4. ASSUME Served(s)', Served(s) => Latest(s)
          PROVE  Latest(s)'
        <3>1. CASE Authorize(s) \/ Register(s) \/ Unsubscribe(s) \/ Disconnect(s)
            BY <2>4, <3>1 DEF Authorize, Register, Unsubscribe, Disconnect, Served, PushTypeOK,
                              Requests
        <3>2. CASE ReadHead(s)
            <4>1. handler'[s] \in {[pc |-> "replying", head |-> head], [pc |-> "refusing", head |-> 0]}
                BY <3>2 DEF ReadHead, PushTypeOK
            <4>2. handler'[s].head = head
                BY <2>4, <4>1 DEF Served
            <4> QED
                BY <2>1, <4>2 DEF Latest
        <3>3. CASE Reply(s)
            <4>1. \A f : f \in FramesFor(s)' <=>
                      f \in FramesFor(s) \/ f = Frame("response", handler[s].head)
                BY <3>3, FramesReply
            <4>2. /\ UNCHANGED <<subs, view, known>>
                  /\ handler[s].pc \in {"replying", "refusing"}
                BY <3>3 DEF Reply, client
            <4>3. handler[s].pc = "replying"
                BY <2>4, <4>2 DEF Served, IndServed, Consistent
            <4>4. Latest(s)
                BY <2>4, <4>2, <4>3 DEF Served
            <4>5. Frame("response", handler[s].head).head = handler[s].head
                BY DEF Frame
            <4> QED
                BY <2>1, <2>2, <4>1, <4>2, <4>4, <4>5 DEF Latest
        <3>4. CASE Receive(s)
            <4> DEFINE h == Head(outbox[s])
            <4>1. /\ \A f : f \in FramesFor(s) <=> f \in FramesFor(s)' \/ f = h
                  /\ h \in Frames
                BY <1>b, <3>4, FramesReceive
            <4>2. /\ UNCHANGED <<subs, handler>>
                  /\ known'[s] = IF h.head > known[s] THEN h.head ELSE known[s]
                BY <3>4 DEF Receive, PushTypeOK
            <4>3. view[s] = "closed" => view'[s] = "closed"
                BY <3>4 DEF Receive, PushTypeOK
            <4>4. Latest(s)
                BY <2>4, <4>2, <4>3 DEF Served
            <4>5. h.head <= head /\ known[s] <= head /\ h.head \in Nat /\ known[s] \in Nat
                BY <1>b, <4>1 DEF HeadsBounded, PushTypeOK, Frames
            <4> HIDE DEF h
            <4>6. CASE h.head = head \/ known[s] = head
                <5>1. known'[s] = head
                    BY <1>b, <4>2, <4>5, <4>6
                <5> QED
                    BY <2>1, <5>1 DEF Latest
            <4>7. CASE ~(h.head = head \/ known[s] = head)
                BY <2>1, <2>2, <4>1, <4>2, <4>4, <4>7 DEF Latest
            <4> QED
                BY <4>6, <4>7
        <3> QED
            BY <1>5, <3>1, <3>2, <3>3, <3>4 DEF SessionStep
    <2> QED
        BY <1>0, <1>a, <2>1, <2>3, <2>4
<1>6. ASSUME UNCHANGED vars
      PROVE  LatestHeadOnItsWay'
    BY <1>6 DEF vars, IndHead, LatestHeadOnItsWay, FramesFor
<1> QED
    BY <1>1, <1>2, <1>3, <1>4, <1>5, <1>6, NextCases

LEMMA InitHead == Init => IndHead
<1> SUFFICES ASSUME Init PROVE IndHead
    OBVIOUS
<1>1. PushTypeOK
    BY InitType
<1>2. 1..Len(batches) = {} /\ 1..Len(notices) = {} /\ Len(batches) = 0
    BY EmptySeq DEF Init
<1>3. ASSUME NEW s \in Sessions PROVE \A f : f \notin FramesFor(s)
    <2>1. 1..Len(outbox[s]) = {}
        BY EmptySeq DEF Init
    <2> QED
        BY <1>1, <1>2, <2>1, FramesMember
<1>4. HeadsBounded
    BY <1>2, <1>3 DEF Init, HeadsBounded, NoRequest
<1>5. OrderKept
    BY <1>2 DEF OrderKept
<1>6. LatestHeadOnItsWay
    BY DEF Init, LatestHeadOnItsWay
<1> QED
    BY <1>4, <1>5, <1>6 DEF IndHead

\* On an ordered host no head is lost on its way to a subscriber: neither between the read
\* of the head and the registration, nor when the queue coalesces.
THEOREM LatestAlwaysOnItsWay == Spec => []LatestHeadOnItsWay
<1>1. ASSUME PushTypeOK, PushTypeOK', IndServed, IndHead, [Next]_vars
      PROVE  IndHead'
    <2>1. OneAnswer /\ HeadsBounded /\ OrderKept
        BY <1>1 DEF IndServed, IndHead
    <2> QED
        BY <1>1, <2>1, NextHeadsBounded, NextOrderKept, NextLatest DEF IndHead
<1>2. IndHead => LatestHeadOnItsWay
    BY DEF IndHead
<1> QED
    BY <1>1, <1>2, InitType, NextType, InitServed, NextServed, InitHead, PTL DEF Spec
=============================================================================
