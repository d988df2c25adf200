----------------------------- MODULE Services_proofs ------------------------
(***************************************************************************)
(* The permits of the workers, the advisory lock, the data loader and the  *)
(* documents of GraphQL, for any number of jobs, holders, keys, callers    *)
(* and documents.  The workers' permits are counted by matching them with  *)
(* the permits each job owes; that a document's fragments expand to a list *)
(* of fields is an induction over depths.                                  *)
(***************************************************************************)
EXTENDS Workers, AdvisoryLock, DataLoader, GraphQL, FiniteSetTheorems, FunctionTheorems,
        SequenceTheorems, WellFoundedInduction, TLAPS

-----------------------------------------------------------------------------
(* The permits of the workers *)

NoDup(s) == \A p, q \in DOMAIN s : s[p] = s[q] => p = q

\* The jobs in line are in it once; a job in a handler holds a permit, one that
\* has not run or has ended holds none.
WorkersInv ==
  /\ jobAt \in [Jobs -> {"none", "new", "line", "handed", "handler", "ended"}]
  /\ depth \in [Jobs -> Nat] /\ permits \in Nat
  /\ line \in Seq(Jobs) /\ NoDup(line)
  /\ \A p \in DOMAIN line : jobAt[line[p]] = "line"
  /\ \A j \in Jobs : /\ jobAt[j] \in {"none", "new", "ended"} => depth[j] = 0
                     /\ jobAt[j] = "handler" => depth[j] > 0
  /\ IsFiniteSet(InUse) /\ PermitsKept

\* Things that are numbered without gaps, and told apart by their number.
LEMMA Counted ==
  ASSUME NEW lo \in Int, NEW hi \in Int, lo <= hi + 1, NEW T, NEW f \in [lo..hi -> T],
         \A a, b \in lo..hi : f[a] = f[b] => a = b,
         \A x \in T : \E a \in lo..hi : f[a] = x
  PROVE  IsFiniteSet(T) /\ Cardinality(T) = hi - lo + 1
<1>1. IsFiniteSet(lo..hi) /\ Cardinality(lo..hi) = hi - lo + 1
  <2>1. IsFiniteSet(lo..hi) /\ Cardinality(lo..hi) = IF lo > hi THEN 0 ELSE hi - lo + 1 BY FS_Interval
  <2>2. QED BY <2>1
<1>2. f \in Bijection(lo..hi, T)
  <2>1. f \in Injection(lo..hi, T) BY Fun_IsInj
  <2>2. f \in Surjection(lo..hi, T) BY Fun_IsSurj
  <2>3. QED BY <2>1, <2>2 DEF Bijection
<1>3. ExistsBijection(lo..hi, T) BY <1>2 DEF ExistsBijection
<1>4. QED BY <1>1, <1>3, FS_Bijection

LEMMA RemovedFirst ==
  ASSUME NEW s \in Seq(Jobs), NEW j, NoDup(s)
  PROVE  /\ RemoveFirst(s, j) \in Seq(Jobs) /\ NoDup(RemoveFirst(s, j))
         /\ \A p \in DOMAIN RemoveFirst(s, j) : \E q \in DOMAIN s : RemoveFirst(s, j)[p] = s[q] /\ s[q] # j
         /\ s = <<>> => RemoveFirst(s, j) = <<>>
<1>1. CASE ~\E i \in 1..Len(s): s[i] = j
  BY <1>1 DEF RemoveFirst
<1>2. ASSUME NEW p \in 1..Len(s), s[p] = j PROVE RemoveFirst(s, j) = RemoveAt(s, p)
  <2>. DEFINE I == {i \in 1..Len(s) : s[i] = j}
  <2>1. I = {p} BY <1>2 DEF NoDup
  <2>2. SelectInSeq(s, LAMBDA v : v = j) = p
    <3>. HIDE DEF I
    <3>1. Min(I) = p BY <2>1 DEF Min
    <3>2. SelectInSeq(s, LAMBDA v : v = j) = IF I # {} THEN Min(I) ELSE 0
      BY DEF SelectInSeq, I
    <3>3. QED BY <3>1, <3>2, <2>1
  <2>3. QED BY <2>2, <1>2 DEF RemoveFirst
<1>3. ASSUME NEW p \in 1..Len(s), s[p] = j
      PROVE  LET r == RemoveAt(s, p)
             IN /\ r \in Seq(Jobs) /\ Len(r) = Len(s) - 1
                /\ \A q \in 1..(p - 1) : r[q] = s[q]
                /\ \A q \in p..(Len(s) - 1) : r[q] = s[q + 1]
  <2>. DEFINE a == SubSeq(s, 1, p - 1)
              b == SubSeq(s, p + 1, Len(s))
  <2>1. a \in Seq(Jobs) /\ Len(a) = p - 1 /\ \A q \in 1..(p - 1) : a[q] = s[q] OBVIOUS
  <2>2. b \in Seq(Jobs) /\ Len(b) = Len(s) - p /\ \A q \in 1..(Len(s) - p) : b[q] = s[p + q] OBVIOUS
  <2>3. RemoveAt(s, p) = a \o b BY DEF RemoveAt
  <2>. HIDE DEF a, b
  <2>4. \A q \in p..(Len(s) - 1) : (a \o b)[q] = s[q + 1]
    <3>. SUFFICES ASSUME NEW q \in p..(Len(s) - 1) PROVE (a \o b)[q] = s[q + 1] OBVIOUS
    <3>1. (a \o b)[q] = b[q - (p - 1)] BY <2>1, <2>2
    <3>2. q - (p - 1) \in 1..(Len(s) - p) OBVIOUS
    <3>3. p + (q - (p - 1)) = q + 1 OBVIOUS
    <3>4. QED BY <2>2, <3>1, <3>2, <3>3
  <2>5. QED BY <2>1, <2>2, <2>3, <2>4
<1>4. ASSUME NEW p \in 1..Len(s), s[p] = j
      PROVE  /\ RemoveFirst(s, j) \in Seq(Jobs) /\ NoDup(RemoveFirst(s, j))
             /\ \A q \in DOMAIN RemoveFirst(s, j) : \E i \in DOMAIN s : RemoveFirst(s, j)[q] = s[i] /\ s[i] # j
  <2>. DEFINE r == RemoveFirst(s, j)
              from == [q \in 1..(Len(s) - 1) |-> IF q < p THEN q ELSE q + 1]
  <2>1. /\ r \in Seq(Jobs) /\ Len(r) = Len(s) - 1
        /\ \A q \in 1..(p - 1) : r[q] = s[q]
        /\ \A q \in p..(Len(s) - 1) : r[q] = s[q + 1]
    BY <1>2, <1>3, <1>4
  <2>2. \A q \in 1..(Len(s) - 1) : from[q] \in DOMAIN s /\ from[q] # p
    OBVIOUS
  <2>3. \A q \in 1..(Len(s) - 1) : r[q] = s[from[q]]
    <3>. HIDE DEF r
    <3>. QED BY <2>1
  <2>4. \A q, i \in 1..(Len(s) - 1) : from[q] = from[i] => q = i OBVIOUS
  <2>5. DOMAIN r = 1..(Len(s) - 1) BY <2>1
  <2>. HIDE DEF r, from
  <2>6. NoDup(r) BY <2>2, <2>3, <2>4, <2>5 DEF NoDup
  <2>7. \A q \in DOMAIN r : r[q] = s[from[q]] /\ s[from[q]] # j
    BY <2>2, <2>3, <2>5, <1>4 DEF NoDup
  <2>8. QED BY <2>1, <2>2, <2>5, <2>6, <2>7 DEF r
<1>5. QED BY <1>1, <1>4

\* Whom released permits go to.
LEMMA HandedTo ==
  ASSUME NEW n \in Nat, NEW queue \in Seq(Jobs), NoDup(queue)
  PROVE  \E h \in 0..n :
           LET given == Handed(n, queue)
           IN /\ given.left = n - h /\ given.line \in Seq(Jobs) /\ NoDup(given.line)
              /\ given.to = {queue[i] : i \in 1..h} /\ h <= Len(queue)
              /\ given.left > 0 => given.line = <<>>
              /\ \A p \in DOMAIN given.line : \E q \in DOMAIN queue : q > h /\ given.line[p] = queue[q]
<1>. DEFINE h == IF n < Len(queue) THEN n ELSE Len(queue)
            rest == SubSeq(queue, h + 1, Len(queue))
<1>1. h \in 0..n /\ h <= Len(queue) /\ (n - h > 0 => h = Len(queue)) OBVIOUS
<1>2. /\ Handed(n, queue).left = n - h /\ Handed(n, queue).line = rest
      /\ Handed(n, queue).to = {queue[i] : i \in 1..h}
  BY DEF Handed
<1>. HIDE DEF h
<1>3. /\ rest \in Seq(Jobs) /\ Len(rest) = Len(queue) - h
      /\ \A p \in 1..(Len(queue) - h) : rest[p] = queue[h + p]
  BY <1>1
<1>. HIDE DEF rest
<1>4. NoDup(rest)
  <2>. SUFFICES ASSUME NEW p \in DOMAIN rest, NEW q \in DOMAIN rest, rest[p] = rest[q] PROVE p = q
    BY DEF NoDup
  <2>1. queue[h + p] = queue[h + q] /\ h + p \in DOMAIN queue /\ h + q \in DOMAIN queue BY <1>1, <1>3
  <2>2. h + p = h + q BY <2>1 DEF NoDup
  <2>3. QED BY <1>1, <1>3, <2>2
<1>5. \A p \in DOMAIN rest : h + p \in DOMAIN queue /\ h + p > h /\ rest[p] = queue[h + p]
  BY <1>1, <1>3
<1>6. n - h > 0 => rest = <<>> BY <1>1, <1>3
<1>7. QED BY <1>1, <1>2, <1>3, <1>4, <1>5, <1>6

LEMMA InUseIs == \A x : x \in InUse <=> \E j \in Jobs : \E k \in 1..Permits(j) : x = <<j, k>>
BY DEF InUse

\* Taking n permits from a job and giving h away keeps their sum.
LEMMA InUseMoves ==
  ASSUME IsFiniteSet(InUse), NEW D, NEW G, NEW n \in Nat, NEW h \in Nat,
         D \subseteq InUse, G \cap InUse = {},
         IsFiniteSet(D), Cardinality(D) = n, IsFiniteSet(G), Cardinality(G) = h,
         InUse' = (InUse \ D) \cup G
  PROVE  IsFiniteSet(InUse') /\ Cardinality(InUse') = Cardinality(InUse) - n + h
<1>. DEFINE A == InUse \ D
<1>1. IsFiniteSet(A) /\ Cardinality(A) = Cardinality(InUse) - Cardinality(InUse \cap D)
  BY FS_Difference
<1>2. InUse \cap D = D /\ A \cap G = {} OBVIOUS
<1>3. IsFiniteSet(A \cup G) /\ Cardinality(A \cup G) = Cardinality(A) + Cardinality(G) - Cardinality(A \cap G)
  BY <1>1, FS_Union
<1>4. Cardinality({}) = 0 BY FS_EmptySet
<1>5. Cardinality(InUse) \in Nat /\ Cardinality(A) \in Nat BY <1>1, FS_CardinalityType
<1>6. Cardinality(A) = Cardinality(InUse) - n BY <1>1, <1>2
<1>7. Cardinality(A \cup G) = Cardinality(A) + h - 0 BY <1>2, <1>3, <1>4
<1>8. QED BY <1>3, <1>5, <1>6, <1>7

\* The permits that a job gives up, and those that the first in line get.
Slots(j, lo, hi) == {<<j, k>> : k \in lo..hi}
NextSlots(queue, h, e) == {<<i, e[i] + 1>> : i \in {queue[p] : p \in 1..h}}

LEMMA SlotsCounted ==
  ASSUME NEW j, NEW lo \in Int, NEW hi \in Int, lo <= hi + 1
  PROVE  IsFiniteSet(Slots(j, lo, hi)) /\ Cardinality(Slots(j, lo, hi)) = hi - lo + 1
<1>. DEFINE D == Slots(j, lo, hi)
            f == [a \in lo..hi |-> <<j, a>>]
<1>1. f \in [lo..hi -> D] BY DEF Slots
<1>2. \A a, b \in lo..hi : f[a] = f[b] => a = b OBVIOUS
<1>3. \A x \in D : \E a \in lo..hi : f[a] = x BY DEF Slots
<1>4. IsFiniteSet(D) /\ Cardinality(D) = hi - lo + 1
  <2>. HIDE DEF f, D
  <2>. QED BY <1>1, <1>2, <1>3, Counted
<1>5. QED BY <1>4

LEMMA NextSlotsCounted ==
  ASSUME NEW queue \in Seq(Jobs), NoDup(queue), NEW h \in 0..Len(queue), NEW e
  PROVE  IsFiniteSet(NextSlots(queue, h, e)) /\ Cardinality(NextSlots(queue, h, e)) = h
<1>. DEFINE G == NextSlots(queue, h, e)
            lo == 1
            f == [a \in lo..h |-> <<queue[a], e[queue[a]] + 1>>]
<1>1. f \in [lo..h -> G] BY DEF NextSlots
<1>2. \A a, b \in lo..h : f[a] = f[b] => a = b
  <2>. SUFFICES ASSUME NEW a \in lo..h, NEW b \in lo..h, f[a] = f[b] PROVE a = b OBVIOUS
  <2>1. a \in DOMAIN queue /\ b \in DOMAIN queue OBVIOUS
  <2>2. queue[a] = queue[b] OBVIOUS
  <2>3. QED BY <2>1, <2>2 DEF NoDup
<1>3. \A x \in G : \E a \in lo..h : f[a] = x BY DEF NextSlots
<1>4. lo \in Int /\ h \in Int /\ lo <= h + 1 /\ h - lo + 1 = h OBVIOUS
<1>5. IsFiniteSet(G) /\ Cardinality(G) = h - lo + 1
  <2>. HIDE DEF f, G, lo
  <2>. QED BY <1>1, <1>2, <1>3, <1>4, Counted
<1>6. QED BY <1>4, <1>5

LEMMA UnwoundKeeps ==
  ASSUME WorkersInv, NEW j \in Jobs, NEW n \in Nat, NEW kept \in Nat, NEW queue \in Seq(Jobs), NoDup(queue),
         \A p \in DOMAIN queue : jobAt[queue[p]] = "line" /\ queue[p] # j,
         kept + n = Permits(j), line = <<>> => queue = <<>>, Unwound(j, n, queue, kept)
  PROVE  WorkersInv'
<1>. DEFINE given == Handed(n, queue)
<1>1. PICK h \in 0..n :
        /\ given.left = n - h /\ given.line \in Seq(Jobs) /\ NoDup(given.line)
        /\ given.to = {queue[i] : i \in 1..h} /\ h <= Len(queue)
        /\ given.left > 0 => given.line = <<>>
        /\ \A p \in DOMAIN given.line : \E q \in DOMAIN queue : q > h /\ given.line[p] = queue[q]
  BY HandedTo
<1>. DEFINE to == {queue[i] : i \in 1..h}
<1>2. /\ jobAt' = [i \in Jobs |-> CASE i = j -> IF kept = 0 THEN "ended" ELSE "handler"
                                    [] i \in to -> "handed"
                                    [] OTHER -> jobAt[i]]
      /\ depth' = [depth EXCEPT ![j] = kept]
      /\ permits' = permits + (n - h) /\ line' = given.line
  BY <1>1 DEF Unwound
<1>3. \A i \in to : i \in Jobs /\ i # j /\ jobAt[i] = "line"
  <2>1. \A i \in 1..h : i \in DOMAIN queue BY <1>1
  <2>2. QED BY <2>1
<1>. HIDE DEF to
<1>4. /\ jobAt'[j] = IF kept = 0 THEN "ended" ELSE "handler"
      /\ \A i \in to : jobAt'[i] = "handed"
      /\ \A i \in Jobs : i # j /\ i \notin to => jobAt'[i] = jobAt[i]
  BY <1>2, <1>3
<1>5. /\ depth' \in [Jobs -> Nat] /\ depth'[j] = kept /\ \A i \in Jobs : i # j => depth'[i] = depth[i]
  BY <1>2 DEF WorkersInv
<1>6. jobAt' \in [Jobs -> {"none", "new", "line", "handed", "handler", "ended"}]
  <2>1. jobAt' = [i \in Jobs |-> jobAt'[i]] BY <1>2
  <2>2. \A i \in Jobs : jobAt'[i] \in {"none", "new", "line", "handed", "handler", "ended"}
    BY <1>4 DEF WorkersInv
  <2>3. QED BY <2>1, <2>2
<1>7. permits' \in Nat
  <2>1. n - h \in Nat OBVIOUS
  <2>2. QED BY <1>2, <2>1 DEF WorkersInv
<1>8. line' \in Seq(Jobs) /\ NoDup(line)'
  <2>1. NoDup(line)' <=> NoDup(given.line) BY <1>2 DEF NoDup
  <2>2. QED BY <1>1, <1>2, <2>1
<1>9. ASSUME NEW p \in DOMAIN line' PROVE jobAt'[line'[p]] = "line"
  <2>1. PICK q \in DOMAIN queue : q > h /\ line'[p] = queue[q] BY <1>1, <1>2
  <2>2. queue[q] \notin to BY <2>1, <1>1 DEF NoDup, to
  <2>3. queue[q] \in Jobs OBVIOUS
  <2>4. QED BY <1>4, <2>1, <2>2, <2>3
<1>10. \A i \in Jobs : /\ jobAt'[i] \in {"none", "new", "ended"} => depth'[i] = 0
                       /\ jobAt'[i] = "handler" => depth'[i] > 0
  BY <1>3, <1>4, <1>5 DEF WorkersInv
<1>. DEFINE D == Slots(j, kept + 1, kept + n)
            G == NextSlots(queue, h, depth)
<1>11. IsFiniteSet(D) /\ Cardinality(D) = n
  <2>1. kept + 1 \in Int /\ kept + n \in Int /\ kept + 1 <= (kept + n) + 1 OBVIOUS
  <2>2. IsFiniteSet(D) /\ Cardinality(D) = (kept + n) - (kept + 1) + 1 BY <2>1, SlotsCounted
  <2>3. QED BY <2>2
<1>12. IsFiniteSet(G) /\ Cardinality(G) = h
  <2>1. h \in 0..Len(queue) BY <1>1
  <2>2. QED BY <2>1, NextSlotsCounted
<1>13. /\ Permits(j) = kept + n /\ Permits(j)' = kept
       /\ \A i \in to : Permits(i) = depth[i] /\ depth[i] \in Nat /\ Permits(i)' = depth[i] + 1
       /\ \A i \in Jobs : i # j /\ i \notin to => Permits(i)' = Permits(i)
  <2>1. Permits(j)' = kept BY <1>4, <1>5 DEF Permits
  <2>2. \A i \in to : Permits(i) = depth[i] /\ depth[i] \in Nat BY <1>3 DEF Permits, WorkersInv
  <2>3. \A i \in to : Permits(i)' = depth[i] + 1
    BY <1>3, <1>4, <1>5, <2>2 DEF Permits
  <2>4. \A i \in Jobs : i # j /\ i \notin to => Permits(i)' = Permits(i)
    BY <1>4, <1>5 DEF Permits
  <2>5. QED BY <2>1, <2>2, <2>3, <2>4
<1>14. /\ D \subseteq InUse /\ G \cap InUse = {}
       /\ InUse' = (InUse \ D) \cup G
  <2>1. \A i, k : <<i, k>> \in InUse <=> i \in Jobs /\ k \in 1..Permits(i) BY DEF InUse
  <2>2. \A i, k : <<i, k>> \in InUse' <=> i \in Jobs /\ k \in 1..Permits(i)' BY DEF InUse
  <2>3. \A x : x \in InUse \/ x \in InUse' => \E i, k : x = <<i, k>> BY DEF InUse
  <2>4. \A i, k : <<i, k>> \in D <=> i = j /\ k \in (kept + 1)..(kept + n) BY DEF Slots
  <2>5. \A i, k : <<i, k>> \in G <=> i \in to /\ k = depth[i] + 1 BY DEF NextSlots, to
  <2>6. \A x : x \in D \/ x \in G => \E i, k : x = <<i, k>> BY DEF Slots, NextSlots
  <2>. HIDE DEF D, G
  <2>7. ASSUME NEW i, NEW k, <<i, k>> \in D PROVE <<i, k>> \in InUse
    BY <1>13, <2>1, <2>4, <2>7
  <2>8. ASSUME NEW i, NEW k, <<i, k>> \in G PROVE <<i, k>> \notin InUse
    BY <1>13, <2>1, <2>5, <2>8
  <2>9. ASSUME NEW i, NEW k
        PROVE  <<i, k>> \in InUse' <=> (<<i, k>> \in InUse /\ <<i, k>> \notin D) \/ <<i, k>> \in G
    <3>1. CASE i = j
      <4>1. j \notin to BY <1>3
      <4>2. <<i, k>> \in InUse' <=> k \in 1..kept BY <1>13, <2>2, <3>1
      <4>3. <<i, k>> \in InUse <=> k \in 1..(kept + n) BY <1>13, <2>1, <3>1
      <4>4. k \in 1..kept <=> k \in 1..(kept + n) /\ k \notin (kept + 1)..(kept + n) OBVIOUS
      <4>5. <<i, k>> \in D <=> k \in (kept + 1)..(kept + n) BY <2>4, <3>1
      <4>6. <<i, k>> \notin G BY <2>5, <4>1, <3>1
      <4>7. QED BY <4>2, <4>3, <4>4, <4>5, <4>6
    <3>2. CASE i \in to
      <4>1. i \in Jobs /\ i # j BY <1>3, <3>2
      <4>2. depth[i] \in Nat /\ Permits(i)' = depth[i] + 1 /\ Permits(i) = depth[i] BY <1>13, <3>2
      <4>3. k \in 1..(depth[i] + 1) <=> k \in 1..depth[i] \/ k = depth[i] + 1 BY <4>2
      <4>4. <<i, k>> \notin D BY <2>4, <4>1
      <4>5. <<i, k>> \in G <=> k = depth[i] + 1 BY <2>5, <3>2
      <4>6. QED BY <2>1, <2>2, <4>1, <4>2, <4>3, <4>4, <4>5
    <3>3. CASE i \in Jobs /\ i # j /\ i \notin to
      BY <1>13, <2>1, <2>2, <2>4, <2>5, <3>3
    <3>4. CASE i \notin Jobs
      BY <1>3, <2>1, <2>2, <2>5, <3>4
    <3>5. QED BY <3>1, <3>2, <3>3, <3>4
  <2>10. QED BY <2>3, <2>6, <2>7, <2>8, <2>9
<1>15. IsFiniteSet(InUse') /\ Cardinality(InUse') = Cardinality(InUse) - n + h
  <2>. HIDE DEF D, G
  <2>1. IsFiniteSet(InUse) /\ h \in Nat BY DEF WorkersInv
  <2>2. QED BY <1>11, <1>12, <1>14, <2>1, InUseMoves
<1>16. PermitsKept'
  <2>1. Cardinality(InUse) \in Nat BY FS_CardinalityType DEF WorkersInv
  <2>2. permits + Cardinality(InUse) = Concurrency /\ (permits > 0 => line = <<>>) /\ permits \in Nat
    BY DEF WorkersInv, PermitsKept
  <2>3. permits' + Cardinality(InUse') = Concurrency BY <1>2, <1>15, <2>1, <2>2, WorkersAssumption
  <2>4. permits' > 0 => line' = <<>>
    <3>1. CASE permits > 0
      <4>1. DOMAIN queue = {} BY <2>2, <3>1
      <4>2. DOMAIN line' = {} BY <1>1, <1>2, <4>1
      <4>3. QED BY <1>8, <4>2
    <3>2. CASE permits = 0 BY <1>1, <1>2, <3>2
    <3>3. QED BY <2>2, <3>1, <3>2
  <2>5. QED BY <2>3, <2>4 DEF PermitsKept
<1>17. QED
  BY <1>5, <1>6, <1>7, <1>8, <1>9, <1>10, <1>15, <1>16 DEF WorkersInv

\* A job takes a permit that was free.
LEMMA TakenKeeps ==
  ASSUME WorkersInv, NEW j \in Jobs, permits > 0, jobAt[j] \in {"new", "handler"},
         permits' = permits - 1, jobAt' = [jobAt EXCEPT ![j] = "handler"],
         depth' = [depth EXCEPT ![j] = @ + 1], line' = line
  PROVE  WorkersInv'
<1>. DEFINE G == Slots(j, depth[j] + 1, depth[j] + 1)
<1>1. depth[j] \in Nat BY DEF WorkersInv
<1>2. IsFiniteSet(G) /\ Cardinality(G) = 1
  <2>1. depth[j] + 1 \in Int BY <1>1
  <2>2. Cardinality(G) = (depth[j] + 1) - (depth[j] + 1) + 1 /\ IsFiniteSet(G) BY <2>1, SlotsCounted
  <2>3. QED BY <2>1, <2>2
<1>3. Permits(j) = depth[j] /\ Permits(j)' = depth[j] + 1 /\ \A i \in Jobs : i # j => Permits(i)' = Permits(i)
  BY <1>1 DEF Permits, WorkersInv
<1>4. G \cap InUse = {} /\ InUse' = (InUse \ {}) \cup G
  <2>1. \A i, k : <<i, k>> \in InUse <=> i \in Jobs /\ k \in 1..Permits(i) BY DEF InUse
  <2>2. \A i, k : <<i, k>> \in InUse' <=> i \in Jobs /\ k \in 1..Permits(i)' BY DEF InUse
  <2>3. \A x : x \in InUse \/ x \in InUse' => \E i, k : x = <<i, k>> BY DEF InUse
  <2>4. \A i, k : <<i, k>> \in G <=> i = j /\ k = depth[j] + 1 BY <1>1 DEF Slots
  <2>5. \A x : x \in G => \E i, k : x = <<i, k>> BY DEF Slots
  <2>. HIDE DEF G
  <2>6. ASSUME NEW i, NEW k
        PROVE  /\ <<i, k>> \in InUse' <=> <<i, k>> \in InUse \/ <<i, k>> \in G
               /\ <<i, k>> \in G => <<i, k>> \notin InUse
    BY <1>1, <1>3, <2>1, <2>2, <2>4
  <2>7. QED BY <2>3, <2>5, <2>6
<1>5. IsFiniteSet(InUse') /\ Cardinality(InUse') = Cardinality(InUse) - 0 + 1
  <2>1. IsFiniteSet({}) /\ Cardinality({}) = 0 BY FS_EmptySet
  <2>2. IsFiniteSet(InUse) /\ 0 \in Nat /\ 1 \in Nat /\ {} \subseteq InUse BY DEF WorkersInv
  <2>. HIDE DEF G
  <2>3. QED BY <1>2, <1>4, <2>1, <2>2, InUseMoves
<1>6. PermitsKept'
  <2>1. Cardinality(InUse) \in Nat BY FS_CardinalityType DEF WorkersInv
  <2>2. permits + Cardinality(InUse) = Concurrency /\ line = <<>> /\ permits \in Nat BY DEF WorkersInv, PermitsKept
  <2>3. permits' + Cardinality(InUse') = Concurrency BY <1>5, <2>1, <2>2, WorkersAssumption
  <2>4. QED BY <2>2, <2>3 DEF PermitsKept
<1>7. line = <<>> /\ line' = <<>> BY DEF WorkersInv, PermitsKept
<1>8. QED
  BY <1>1, <1>5, <1>6, <1>7 DEF WorkersInv, NoDup

\* Who is where changes, and nobody's permits.
LEMMA StayingKeeps ==
  ASSUME WorkersInv, NEW j \in Jobs, UNCHANGED permits, depth' \in [Jobs -> Nat],
         jobAt' = [jobAt EXCEPT ![j] = jobAt'[j]],
         jobAt'[j] \in {"none", "new", "line", "handed", "handler", "ended"},
         \A i \in Jobs : i # j => depth'[i] = depth[i],
         jobAt'[j] \in {"none", "new", "ended"} => depth'[j] = 0,
         jobAt'[j] = "handler" => depth'[j] > 0,
         Permits(j)' = Permits(j),
         \/ line' = line /\ jobAt[j] # "line"
         \/ line' = Append(line, j) /\ permits = 0 /\ jobAt[j] # "line" /\ jobAt'[j] = "line"
  PROVE  WorkersInv'
<1>1. \A i \in Jobs : i # j => jobAt'[i] = jobAt[i] BY DEF WorkersInv
<1>2. jobAt' \in [Jobs -> {"none", "new", "line", "handed", "handler", "ended"}] BY DEF WorkersInv
<1>3. \A i \in Jobs : Permits(i)' = Permits(i) BY <1>1 DEF Permits
<1>4. InUse' = InUse BY <1>3 DEF InUse
<1>5. /\ line' \in Seq(Jobs) /\ NoDup(line)'
      /\ \A p \in DOMAIN line' : jobAt'[line'[p]] = "line"
      /\ permits' > 0 => line' = <<>>
  <2>1. line \in Seq(Jobs) /\ NoDup(line) /\ (\A p \in DOMAIN line : jobAt[line[p]] = "line")
        /\ (permits > 0 => line = <<>>)
    BY DEF WorkersInv, PermitsKept
  <2>2. CASE line' = line /\ jobAt[j] # "line" BY <1>1, <2>1, <2>2 DEF NoDup
  <2>3. CASE line' = Append(line, j) /\ permits = 0 /\ jobAt[j] # "line" /\ jobAt'[j] = "line"
    <3>1. line' \in Seq(Jobs) /\ Len(line') = Len(line) + 1 /\ line'[Len(line) + 1] = j
          /\ \A p \in DOMAIN line : line'[p] = line[p]
      BY <2>1, <2>3
    <3>2. \A p \in DOMAIN line' : p \in DOMAIN line \/ p = Len(line) + 1 BY <2>1, <3>1
    <3>3. NoDup(line') BY <2>1, <2>3, <3>1, <3>2 DEF NoDup
    <3>4. QED BY <1>1, <2>1, <2>3, <3>1, <3>2, <3>3 DEF NoDup
  <2>4. QED BY <2>2, <2>3
<1>6. PermitsKept' BY <1>4, <1>5 DEF WorkersInv, PermitsKept
<1>7. \A i \in Jobs : /\ jobAt'[i] \in {"none", "new", "ended"} => depth'[i] = 0
                      /\ jobAt'[i] = "handler" => depth'[i] > 0
  BY <1>1 DEF WorkersInv
<1>8. QED BY <1>2, <1>4, <1>5, <1>6, <1>7 DEF WorkersInv

LEMMA WorkersStep == ASSUME WorkersInv, [WorkersNext]_workersVars PROVE WorkersInv'
<1>1. ASSUME NEW j \in Jobs, RunBackground(j) PROVE WorkersInv'
  <2>1. jobAt[j] = "none" /\ jobAt' = [jobAt EXCEPT ![j] = "new"] /\ UNCHANGED <<depth, permits, line>>
    BY <1>1 DEF RunBackground
  <2>2. jobAt'[j] = "new" /\ depth[j] = 0 /\ depth \in [Jobs -> Nat] BY <2>1 DEF WorkersInv
  <2>3. Permits(j)' = Permits(j) BY <2>1, <2>2 DEF Permits
  <2>4. QED BY <2>1, <2>2, <2>3, StayingKeeps
<1>2. ASSUME NEW j \in Jobs, Run(j) PROVE WorkersInv'
  <2>1. jobAt[j] \in {"new", "handler"} BY <1>2 DEF Run
  <2>2. CASE permits > 0 BY <1>2, <2>1, <2>2, TakenKeeps DEF Run
  <2>3. CASE ~(permits > 0)
    <3>1. jobAt' = [jobAt EXCEPT ![j] = "line"] /\ line' = Append(line, j) /\ UNCHANGED <<depth, permits>>
      BY <1>2, <2>3 DEF Run
    <3>2. permits = 0 /\ jobAt'[j] = "line" /\ depth \in [Jobs -> Nat] BY <2>3, <3>1 DEF WorkersInv
    <3>3. Permits(j)' = Permits(j) BY <2>1, <3>1, <3>2 DEF Permits
    <3>4. QED BY <2>1, <3>1, <3>2, <3>3, StayingKeeps
  <2>4. QED BY <2>2, <2>3
<1>3. ASSUME NEW j \in Jobs, HandlerBegins(j) PROVE WorkersInv'
  <2>1. /\ jobAt[j] = "handed" /\ jobAt' = [jobAt EXCEPT ![j] = "handler"]
        /\ depth' = [depth EXCEPT ![j] = @ + 1] /\ UNCHANGED <<permits, line>>
    BY <1>3 DEF HandlerBegins
  <2>2. jobAt'[j] = "handler" /\ depth[j] \in Nat /\ depth'[j] = depth[j] + 1
        /\ depth' \in [Jobs -> Nat] /\ \A i \in Jobs : i # j => depth'[i] = depth[i]
    BY <2>1 DEF WorkersInv
  <2>3. Permits(j)' = Permits(j) BY <2>1, <2>2 DEF Permits
  <2>4. depth'[j] > 0 /\ jobAt[j] # "line" /\ line' = line BY <2>1, <2>2
  <2>5. jobAt' = [jobAt EXCEPT ![j] = jobAt'[j]] BY <2>1, <2>2
  <2>6. QED BY <2>1, <2>2, <2>3, <2>4, <2>5, StayingKeeps
<1>4. ASSUME NEW j \in Jobs, HandlerEnds(j) PROVE WorkersInv'
  <2>1. jobAt[j] = "handler" /\ Unwound(j, 1, line, depth[j] - 1) BY <1>4 DEF HandlerEnds
  <2>2. depth[j] \in Nat /\ depth[j] > 0 /\ Permits(j) = depth[j] BY <2>1 DEF WorkersInv, Permits
  <2>3. line \in Seq(Jobs) /\ NoDup(line) /\ \A p \in DOMAIN line : jobAt[line[p]] = "line" /\ line[p] # j
    BY <2>1 DEF WorkersInv
  <2>4. PICK kept \in Nat : kept = depth[j] - 1 /\ kept + 1 = Permits(j)
    <3>1. depth[j] - 1 \in Nat /\ (depth[j] - 1) + 1 = Permits(j) BY <2>2
    <3>2. QED BY <3>1
  <2>5. QED BY <2>1, <2>3, <2>4, UnwoundKeeps
<1>5. ASSUME NEW j \in Jobs, CancelJob(j) PROVE WorkersInv'
  <2>1. Unwound(j, Permits(j), RemoveFirst(line, j), 0) BY <1>5 DEF CancelJob
  <2>2. line \in Seq(Jobs) /\ NoDup(line) /\ \A p \in DOMAIN line : jobAt[line[p]] = "line" BY DEF WorkersInv
  <2>3. /\ RemoveFirst(line, j) \in Seq(Jobs) /\ NoDup(RemoveFirst(line, j))
        /\ \A p \in DOMAIN RemoveFirst(line, j) : jobAt[RemoveFirst(line, j)[p]] = "line" /\ RemoveFirst(line, j)[p] # j
        /\ line = <<>> => RemoveFirst(line, j) = <<>>
    BY <2>2, RemovedFirst
  <2>4. Permits(j) \in Nat /\ 0 + Permits(j) = Permits(j) BY DEF Permits, WorkersInv
  <2>5. QED BY <2>1, <2>3, <2>4, UnwoundKeeps
<1>6. CASE Shutdown \/ ShutdownReturns \/ UNCHANGED workersVars
  <2>1. UNCHANGED <<jobAt, depth, permits, line>> BY <1>6 DEF Shutdown, ShutdownReturns, workersVars
  <2>2. InUse' = InUse BY <2>1 DEF InUse, Permits
  <2>3. NoDup(line)' <=> NoDup(line) BY <2>1 DEF NoDup
  <2>4. PermitsKept' BY <2>1, <2>2 DEF WorkersInv, PermitsKept
  <2>5. QED BY <2>1, <2>2, <2>3, <2>4 DEF WorkersInv
<1>7. QED BY <1>1, <1>2, <1>3, <1>4, <1>5, <1>6 DEF WorkersNext, JobStep

\* Whatever runs, waits, is cancelled or shut down: the free permits and those
\* of the jobs are as many as there are, and nobody waits while one is free
\* (WorkerService over asyncio.Semaphore).
THEOREM PermitsKeptAlways == WorkersSpec => []PermitsKept
<1>1. WorkersInit => WorkersInv
  <2>. SUFFICES ASSUME WorkersInit PROVE WorkersInv OBVIOUS
  <2>0. /\ jobAt = [j \in Jobs |-> "none"] /\ depth = [j \in Jobs |-> 0]
        /\ permits = Concurrency /\ line = <<>>
    BY DEF WorkersInit
  <2>1. \A j \in Jobs : Permits(j) = 0 BY <2>0 DEF Permits
  <2>2. InUse = {} BY <2>1 DEF InUse
  <2>3. IsFiniteSet({}) /\ Cardinality({}) = 0 BY FS_EmptySet
  <2>4. permits \in Nat /\ permits + 0 = Concurrency BY <2>0, WorkersAssumption
  <2>5. QED BY <2>0, <2>2, <2>3, <2>4 DEF WorkersInv, PermitsKept, NoDup
<1>2. WorkersInv => PermitsKept BY DEF WorkersInv
<1>3. QED BY <1>1, <1>2, WorkersStep, PTL DEF WorkersSpec

-----------------------------------------------------------------------------
(* The lock of create_all() *)

\* Who works or is about to has the lock, and those that have it exclude each
\* other.
LockInv ==
  /\ step \in [Contenders -> {"idle", "locking", "holding", "working", "leaving", "done", "failed"}]
  /\ \A c \in Contenders : step[c] \in {"holding", "working"} => c \in owner
  /\ \A c, d \in owner : c # d => ~InDatabase /\ ProcessOf[c] # ProcessOf[d]

LEMMA LockStep == ASSUME LockInv, [LockNext]_lockVars PROVE LockInv'
<1>. USE DEF LockInv
<1>1. ASSUME NEW c \in Contenders, Lock(c) PROVE LockInv'
  <2>1. /\ step' = [step EXCEPT ![c] = "holding"] /\ owner' = owner \cup {c} /\ dialect' = dialect
    BY <1>1 DEF Lock, Set
  <2>2. \A o \in owner : ~InDatabase /\ ProcessOf[o] # ProcessOf[c] BY <1>1 DEF Lock, LockFree
  <2>3. InDatabase' = InDatabase BY <2>1 DEF InDatabase
  <2>4. \A d, e \in owner' : d # e => ~InDatabase' /\ ProcessOf[d] # ProcessOf[e] BY <2>1, <2>2, <2>3
  <2>5. QED BY <2>1, <2>4
<1>2. ASSUME NEW c \in Contenders, Unlock(c) PROVE LockInv'
  <2>1. /\ step[c] = "leaving" /\ step' = [step EXCEPT ![c] = "done"] /\ owner' = owner \ {c} /\ dialect' = dialect
    BY <1>2 DEF Unlock, Set
  <2>2. InDatabase' = InDatabase BY <2>1 DEF InDatabase
  <2>3. QED BY <2>1, <2>2
<1>3. ASSUME NEW c \in Contenders, Connect(c) \/ Work(c) \/ Worked(c) \/ PoolTimeout(c) \/ CancelWait(c)
      PROVE  LockInv'
  <2>1. PICK s \in {"locking", "working", "leaving", "failed"} :
          step' = [step EXCEPT ![c] = s] /\ (s = "working" => step[c] = "holding")
    BY <1>3 DEF Connect, Work, Worked, PoolTimeout, CancelWait, Set
  <2>2. owner' = owner /\ dialect' = dialect BY <1>3 DEF Connect, Work, Worked, PoolTimeout, CancelWait
  <2>3. InDatabase' = InDatabase BY <2>2 DEF InDatabase
  <2>4. QED BY <2>1, <2>2, <2>3
<1>4. CASE UNCHANGED lockVars
  <2>1. InDatabase' = InDatabase /\ step' = step /\ owner' = owner BY <1>4 DEF InDatabase, lockVars
  <2>2. QED BY <2>1
<1>5. QED BY <1>1, <1>2, <1>3, <1>4 DEF LockNext, Contend

\* Whatever the dialect, the pool and its time-outs, and whoever is cancelled:
\* no two tasks create the schema at once, of all processes on Postgres and
\* MySQL, of one process elsewhere (SqlAlchemyService.advisory_lock).
THEOREM LockExcludesAlways == LockSpec => []LockExcludes
<1>1. LockInit => LockInv BY DEF LockInit, LockInv
<1>2. LockInv => LockExcludes BY DEF LockInv, LockExcludes
<1>3. QED BY <1>1, <1>2, LockStep, PTL DEF LockSpec

-----------------------------------------------------------------------------
(* The data loader *)

BatchRecords == [no: Int, keys: SUBSET Keys, read: [Keys -> Int]]

\* What a batch that has read holds for its keys.
FreshBatch(b) == \A k \in Keys : k \in b.keys /\ b.read # NotRead => b.read[k] = None \/ b.read[k] >= oldest[k]

\* The oldest version that may still be served is one the source has had.
LoaderInv ==
  /\ version \in [Keys -> Nat] /\ oldest \in [Keys -> Nat] /\ cache \in [Keys -> Int]
  /\ waiting \subseteq Keys /\ started \in Int
  /\ \A b \in batches : b \in BatchRecords /\ FreshBatch(b)
  /\ \A k \in Keys : oldest[k] <= version[k]
  /\ \A k \in Keys : cache[k] \in {Absent, None} \/ cache[k] >= oldest[k]

LEMMA LoaderStep == ASSUME LoaderInv, [LoaderNext]_loaderVars PROVE LoaderInv'
<1>. USE DEF LoaderInv
<1>1. ASSUME Dispatch PROVE LoaderInv'
  <2>1. NotRead \in [Keys -> Int] BY DEF NotRead, Absent
  <2>2. [no |-> started + 1, keys |-> waiting, read |-> NotRead] \in BatchRecords BY <2>1 DEF BatchRecords
  <2>3. PICK b \in BatchRecords : b = [no |-> started + 1, keys |-> waiting, read |-> NotRead] BY <2>2
  <2>4. batches' = batches \cup {b} /\ waiting' = {} /\ UNCHANGED <<version, oldest, cache>> /\ started' = started + 1
    BY <1>1, <2>3 DEF Dispatch
  <2>5. b.read = NotRead BY <2>3
  <2>6. FreshBatch(b)' BY <2>5 DEF FreshBatch, NotRead
  <2>7. \A c \in batches : FreshBatch(c)' BY <2>4 DEF FreshBatch
  <2>8. QED BY <2>4, <2>6, <2>7
<1>2. ASSUME NEW b \in batches, Read(b) PROVE LoaderInv'
  <2>1. PICK found \in SUBSET b.keys :
          batches' = (batches \ {b}) \cup {[b EXCEPT !.read = [k \in Keys |-> IF k \in found THEN version[k] ELSE None]]}
    BY <1>2 DEF Read
  <2>2. UNCHANGED <<version, cache, waiting, oldest, started>> BY <1>2 DEF Read
  <2>3. [k \in Keys |-> IF k \in found THEN version[k] ELSE None] \in [Keys -> Int] BY DEF None
  <2>4. PICK read \in [Keys -> Int] : read = [k \in Keys |-> IF k \in found THEN version[k] ELSE None] BY <2>3
  <2>5. [b EXCEPT !.read = read] \in BatchRecords BY DEF BatchRecords
  <2>6. PICK c \in BatchRecords : c = [b EXCEPT !.read = read] BY <2>5
  <2>7. c.read = read BY <2>6 DEF BatchRecords
  <2>8. \A k \in Keys : read[k] = None \/ read[k] >= oldest[k] BY <2>4
  <2>9. batches' = (batches \ {b}) \cup {c} BY <2>1, <2>4, <2>6
  <2>10. FreshBatch(c)' BY <2>2, <2>7, <2>8 DEF FreshBatch
  <2>11. \A d \in batches : FreshBatch(d)' BY <2>2 DEF FreshBatch
  <2>12. QED BY <2>2, <2>9, <2>10, <2>11
<1>3. ASSUME NEW b \in batches, Return(b) PROVE LoaderInv'
  <2>1. /\ b.read # NotRead /\ batches' = batches \ {b}
        /\ cache' = [k \in Keys |-> IF k \in b.keys THEN b.read[k] ELSE cache[k]]
        /\ UNCHANGED <<version, waiting, oldest, started>>
    BY <1>3 DEF Return
  <2>2. b \in BatchRecords /\ FreshBatch(b) OBVIOUS
  <2>3. b.read \in [Keys -> Int] BY <2>2 DEF BatchRecords
  <2>4. cache' \in [Keys -> Int] BY <2>1, <2>3
  <2>5. \A k \in Keys : cache'[k] \in {Absent, None} \/ cache'[k] >= oldest[k] BY <2>1, <2>2 DEF FreshBatch
  <2>6. \A d \in batches : FreshBatch(d)' BY <2>1 DEF FreshBatch
  <2>7. QED BY <2>1, <2>4, <2>5, <2>6
<1>4. ASSUME NEW b \in batches, Raise(b) PROVE LoaderInv'
  <2>1. batches' = batches \ {b} /\ UNCHANGED <<version, cache, waiting, oldest, started>> BY <1>4 DEF Raise
  <2>2. \A d \in batches : FreshBatch(d)' BY <2>1 DEF FreshBatch
  <2>3. QED BY <2>1, <2>2
<1>12. ASSUME NEW b \in batches, BatchCancelled(b) PROVE LoaderInv'
  <2>1. batches' = batches \ {b} /\ UNCHANGED <<version, cache, waiting, oldest, started>> BY <1>12 DEF BatchCancelled
  <2>2. \A d \in batches : FreshBatch(d)' BY <2>1 DEF FreshBatch
  <2>3. QED BY <2>1, <2>2
<1>5. ASSUME NEW ks \in SUBSET Keys, Clear(ks) PROVE LoaderInv'
  <2>1. /\ version' = [k \in Keys |-> IF k \in ks /\ version[k] < MaxVersion THEN version[k] + 1 ELSE version[k]]
        /\ cache' = [k \in Keys |-> IF k \in ks THEN Absent ELSE cache[k]]
        /\ oldest' = [k \in Keys |-> IF k \in ks /\ ~Loading(k) THEN version'[k] ELSE oldest[k]]
        /\ UNCHANGED <<waiting, batches, started>>
    BY <1>5 DEF Clear, Cleared
  <2>2. version' \in [Keys -> Nat] /\ \A k \in Keys : version'[k] >= version[k] BY <2>1
  <2>3. oldest' \in [Keys -> Nat] /\ \A k \in Keys : oldest'[k] <= version'[k] BY <2>1, <2>2
  <2>4. cache' \in [Keys -> Int] BY <2>1 DEF Absent
  <2>5. \A k \in Keys : cache'[k] \in {Absent, None} \/ cache'[k] >= oldest'[k] BY <2>1
  <2>6. \A b \in batches : FreshBatch(b)'
    <3>. SUFFICES ASSUME NEW b \in batches, NEW k \in Keys, k \in b.keys, b.read # NotRead
                  PROVE  b.read[k] = None \/ b.read[k] >= oldest'[k]
      BY DEF FreshBatch, NotRead
    <3>1. Loading(k) BY DEF Loading
    <3>2. oldest'[k] = oldest[k] BY <2>1, <3>1
    <3>3. QED BY <3>2 DEF FreshBatch
  <2>7. QED BY <2>1, <2>2, <2>3, <2>4, <2>5, <2>6
<1>6. ASSUME NEW k \in Keys, Prime(k) PROVE LoaderInv'
  <2>1. /\ cache' = [cache EXCEPT ![k] = IF cache[k] = Absent THEN version[k] ELSE cache[k]]
        /\ UNCHANGED <<version, waiting, batches, oldest, started>>
    BY <1>6 DEF Prime
  <2>2. \A b \in batches : FreshBatch(b)' BY <2>1 DEF FreshBatch
  <2>3. QED BY <2>1, <2>2
<1>7. CASE waiting' \subseteq Keys /\ UNCHANGED <<version, cache, batches, oldest, started>>
  <2>1. \A b \in batches : FreshBatch(b)' BY <1>7 DEF FreshBatch
  <2>2. QED BY <1>7, <2>1
<1>8. ASSUME NEW l \in Loads, Cancel(l) \/ \E k \in Keys : Load(l, k) PROVE LoaderInv'
  <2>1. waiting' \subseteq Keys BY <1>8 DEF Cancel, Load
  <2>2. UNCHANGED <<version, cache, batches, oldest, started>> BY <1>8 DEF Cancel, Load
  <2>3. QED BY <1>7, <2>1, <2>2
<1>9. CASE UNCHANGED loaderVars BY <1>7, <1>9 DEF loaderVars
<1>10. ASSUME NEW k \in Keys, Clear({k}) PROVE LoaderInv'
  <2>1. {k} \in SUBSET Keys OBVIOUS
  <2>2. QED BY <1>5, <1>10, <2>1
<1>11. QED BY <1>1, <1>2, <1>3, <1>4, <1>5, <1>6, <1>8, <1>9, <1>10, <1>12 DEF LoaderNext, DispatchStep

\* Whatever is loaded, cancelled, primed or cleared at the same time: once
\* clear() was called while nothing loaded a key, neither the cache nor a batch
\* holds an older value of it (GraphQLDataLoader).
THEOREM FreshAlways == LoaderSpec => []FreshAfterClear
<1>1. LoaderInit => LoaderInv
  <2>. SUFFICES ASSUME LoaderInit PROVE LoaderInv OBVIOUS
  <2>1. /\ version = [k \in Keys |-> 1] /\ cache = [k \in Keys |-> Absent] /\ oldest = [k \in Keys |-> 1]
        /\ waiting = {} /\ batches = {} /\ started = 0
    BY DEF LoaderInit
  <2>2. QED BY <2>1 DEF LoaderInv, Absent
<1>2. LoaderInv => FreshAfterClear BY DEF LoaderInv, FreshAfterClear, FreshBatch
<1>3. QED BY <1>1, <1>2, LoaderStep, PTL DEF LoaderSpec

-----------------------------------------------------------------------------
(* Induction over numbers.  The library's theorems for it take a predicate; a *)
(* set of numbers does as well.                                              *)
LEMMA LeastNumber ==
  ASSUME NEW T, T \subseteq Nat, T # {}
  PROVE  \E x \in T : \A y \in T : x <= y
<1>1. IsWellFoundedOn(OpToRel(<, Nat), Nat) BY NatLessThanWellFounded
<1>2. PICK x \in T : \A y \in T : <<y, x>> \notin OpToRel(<, Nat) BY <1>1, WFMin
<1>3. ASSUME NEW y \in T PROVE x <= y
  <2>1. x \in Nat /\ y \in Nat OBVIOUS
  <2>2. ~(y < x) BY <1>2, <2>1 DEF OpToRel
  <2>3. QED BY <2>1, <2>2
<1>4. QED BY <1>3

LEMMA UpTo ==
  ASSUME NEW n \in Nat, NEW T, 0 \in T, \A m \in 0 .. n : m \in T /\ m < n => m + 1 \in T
  PROVE  0 .. n \subseteq T
<1>1. SUFFICES ASSUME (0 .. n) \ T # {} PROVE FALSE OBVIOUS
<1>0. (0 .. n) \ T \subseteq Nat OBVIOUS
<1>2. PICK x \in (0 .. n) \ T : \A y \in (0 .. n) \ T : x <= y BY <1>0, <1>1, LeastNumber
<1>3. x # 0 /\ x - 1 \in 0 .. n /\ x - 1 < n OBVIOUS
<1>4. x - 1 \in T BY <1>2, <1>3
<1>5. QED BY <1>3, <1>4

\* A function of the numbers up to n is given by its first value and what
\* follows from each.
Steps(n, V) == [(0 .. n) \X V -> V]
Iteration(f, n, V, base, rule) ==
  f \in [0 .. n -> V] /\ f[0] = base /\ \A i \in 1 .. n : f[i] = rule[<<i, f[i - 1]>>]

LEMMA Iterates ==
  ASSUME NEW n \in Nat, NEW V, NEW base \in V, NEW rule \in Steps(n, V)
  PROVE  \E f : Iteration(f, n, V, base, rule)
<1> USE DEF Steps, Iteration
<1> DEFINE Good(f, m) == f \in [0 .. m -> V] /\ f[0] = base /\ \A i \in 1 .. m : f[i] = rule[<<i, f[i - 1]>>]
           T == {m \in 0 .. n : \E f \in [0 .. m -> V] : Good(f, m)}
<1>1. 0 \in T
  <2>1. PICK f : f = [i \in 0 .. 0 |-> base] OBVIOUS
  <2>2. f \in [0 .. 0 -> V] /\ Good(f, 0) BY <2>1
  <2>3. QED BY <2>2
<1>2. ASSUME NEW m \in 0 .. n, m \in T, m < n PROVE m + 1 \in T
  <2>1. PICK f \in [0 .. m -> V] : Good(f, m) BY <1>2
  <2>2. PICK g : g = [i \in 0 .. m + 1 |-> IF i = m + 1 THEN rule[<<m + 1, f[m]>>] ELSE f[i]] OBVIOUS
  <2>3. m + 1 \in 0 .. n /\ m \in 0 .. m /\ <<m + 1, f[m]>> \in (0 .. n) \X V BY <1>2, <2>1
  <2>4. rule[<<m + 1, f[m]>>] \in V BY <2>3
  <2>5. g \in [0 .. m + 1 -> V] BY <2>1, <2>2, <2>4
  <2>6. \A i \in 0 .. m : g[i] = f[i] BY <2>2
  <2>7. ASSUME NEW i \in 1 .. m + 1 PROVE g[i] = rule[<<i, g[i - 1]>>]
    <3>1. CASE i = m + 1
      <4>1. i - 1 = m /\ g[m] = f[m] BY <3>1, <2>3, <2>6
      <4>2. g[i] = rule[<<m + 1, f[m]>>] BY <3>1, <2>2
      <4>3. QED BY <3>1, <4>1, <4>2
    <3>2. CASE i # m + 1
      <4>1. i \in 1 .. m /\ i \in 0 .. m /\ i - 1 \in 0 .. m BY <3>2
      <4>2. g[i] = f[i] /\ g[i - 1] = f[i - 1] BY <4>1, <2>6
      <4>3. f[i] = rule[<<i, f[i - 1]>>] BY <4>1, <2>1
      <4>4. QED BY <4>2, <4>3
    <3>3. QED BY <3>1, <3>2
  <2>8. Good(g, m + 1) BY <2>1, <2>5, <2>6, <2>7
  <2>9. QED BY <2>3, <2>5, <2>8
<1>3. 0 .. n \subseteq T
  <2> HIDE DEF T
  <2>1. QED BY <1>1, <1>2, UpTo
<1>4. n \in T
  <2> HIDE DEF T
  <2>1. QED BY <1>3
<1>5. QED BY <1>4

\* Lists that are put together.
LEMMA FlattenIsList == ASSUME NEW F, NEW ss \in Seq(Seq(F)) PROVE FlattenSeq(ss) \in Seq(F)
<1>0. PICK n \in Nat : n = Len(ss) OBVIOUS
<1>1. CASE n = 0
  <2>1. ss = <<>> /\ Len(ss) = 0 BY <1>0, <1>1, EmptySeq
  <2>2. FlattenSeq(ss) = ss BY <2>1 DEF FlattenSeq
  <2>3. QED BY <2>1, <2>2, EmptySeq
<1>2. CASE n # 0
  <2> DEFINE Flat(g) == g = [i \in 1 .. n |-> IF i = 1 THEN ss[i] ELSE g[i - 1] \o ss[i]]
  <2>1. PICK rule : rule = [p \in (0 .. n) \X Seq(F) |-> IF p[1] = 0 THEN <<>> ELSE p[2] \o ss[p[1]]] OBVIOUS
  <2>2. ASSUME NEW p \in (0 .. n) \X Seq(F) PROVE rule[p] \in Seq(F)
    <3>1. p[1] # 0 => ss[p[1]] \in Seq(F) BY <1>0
    <3>2. p[2] \in Seq(F) OBVIOUS
    <3>3. p[1] # 0 => p[2] \o ss[p[1]] \in Seq(F) BY <3>1, <3>2, ConcatProperties
    <3>4. QED BY <2>1, <3>3, EmptySeq
  <2>3. rule \in Steps(n, Seq(F)) BY <2>1, <2>2 DEF Steps
  <2>4. <<>> \in Seq(F) OBVIOUS
  <2>5. PICK f : Iteration(f, n, Seq(F), <<>>, rule) BY <2>3, <2>4, Iterates
  <2>6. \A i \in 1 .. n : f[i] = f[i - 1] \o ss[i]
    <3>1. ASSUME NEW i \in 1 .. n PROVE f[i] = f[i - 1] \o ss[i]
      <4>1. i - 1 \in 0 .. n /\ i \in 0 .. n /\ i # 0 OBVIOUS
      <4>2. f[i - 1] \in Seq(F) BY <4>1, <2>5 DEF Iteration
      <4>3. <<i, f[i - 1]>> \in (0 .. n) \X Seq(F) BY <4>1, <4>2
      <4>4. rule[<<i, f[i - 1]>>] = f[i - 1] \o ss[i] BY <2>1, <4>1, <4>3
      <4>5. QED BY <4>4, <2>5 DEF Iteration
    <3>2. QED BY <3>1
  <2>7. PICK k : k = [i \in 1 .. n |-> f[i]] OBVIOUS
  <2>8. Flat(k)
    <3>1. ASSUME NEW i \in 1 .. n PROVE k[i] = IF i = 1 THEN ss[i] ELSE k[i - 1] \o ss[i]
      <4>1. CASE i = 1
        <5>1. f[0] = <<>> /\ ss[1] \in Seq(F) /\ 1 \in 1 .. n BY <2>5, <1>0, <1>2 DEF Iteration
        <5>2. <<>> \o ss[1] = ss[1] BY <5>1, ConcatEmptySeq
        <5>3. f[1] = f[0] \o ss[1]
          <6>1. f[1] = f[1 - 1] \o ss[1] BY <5>1, <2>6
          <6>2. QED BY <6>1
        <5>4. QED BY <4>1, <5>1, <5>2, <5>3, <2>7
      <4>2. CASE i # 1
        <5>1. i - 1 \in 1 .. n BY <4>2
        <5>2. k[i - 1] = f[i - 1] /\ k[i] = f[i] BY <5>1, <2>7
        <5>3. QED BY <4>2, <5>2, <2>6
      <4>3. QED BY <4>1, <4>2
    <3>2. QED BY <3>1, <2>7
  <2> DEFINE h == CHOOSE g : Flat(g)
  <2>9. FlattenSeq(ss) = h[n] BY <1>0, <1>2 DEF FlattenSeq
  <2>10. Flat(h)
    <3> HIDE DEF Flat
    <3>1. QED BY <2>8
  <2>11. \A i \in 1 .. n : h[i] = IF i = 1 THEN ss[i] ELSE h[i - 1] \o ss[i] BY <2>10
  <2> HIDE DEF h
  <2> DEFINE T == {i \in 0 .. n : i = 0 \/ h[i] \in Seq(F)}
  <2>12. 0 \in T OBVIOUS
  <2>13. ASSUME NEW i \in 0 .. n, i \in T, i < n PROVE i + 1 \in T
    <3>1. i + 1 \in 1 .. n /\ i + 1 \in 0 .. n /\ ss[i + 1] \in Seq(F) BY <2>13, <1>0
    <3>2. CASE i = 0
      <4>1. h[1] = ss[1] BY <3>1, <3>2, <2>11
      <4>2. QED BY <4>1, <3>1, <3>2
    <3>3. CASE i # 0
      <4>1. h[i] \in Seq(F) BY <2>13, <3>3
      <4>2. h[i + 1] = h[i] \o ss[i + 1]
        <5>1. i + 1 # 1 /\ (i + 1) - 1 = i BY <3>3
        <5>2. QED BY <5>1, <3>1, <2>11
      <4>3. h[i + 1] \in Seq(F) BY <4>1, <4>2, <3>1, ConcatProperties
      <4>4. QED BY <4>3, <3>1
    <3>4. QED BY <3>2, <3>3
  <2>14. 0 .. n \subseteq T
    <3> HIDE DEF T
    <3>1. QED BY <2>12, <2>13, UpTo
  <2>15. n \in T
    <3> HIDE DEF T
    <3>1. QED BY <2>14
  <2>16. QED BY <2>15, <2>9, <1>2
<1>3. QED BY <1>1, <1>2

-----------------------------------------------------------------------------
(* The fields of a document *)

LEMMA ComplexityNat ==
  ASSUME NEW F, \A x \in F : x.under \in Nat, NEW fs \in Seq(F)
  PROVE  Complexity(fs) \in Nat
<1>0. PICK n \in Nat : n = Len(fs) OBVIOUS
<1> DEFINE Grows(g) == g = [i \in 0 .. n |-> IF i = 0 THEN 0 ELSE g[i - 1] + 1 + fs[i].under]
<1>1. \A i \in 1 .. n : fs[i].under \in Nat
  <2>1. \A i \in 1 .. n : fs[i] \in F BY <1>0
  <2>2. QED BY <2>1
<1>2. PICK rule \in [(0 .. n) \X Nat -> Nat] : \A i \in 1 .. n, v \in Nat : rule[<<i, v>>] = v + 1 + fs[i].under
  <2>1. PICK rule : rule = [p \in (0 .. n) \X Nat |-> IF p[1] = 0 THEN 0 ELSE p[2] + 1 + fs[p[1]].under] OBVIOUS
  <2>2. ASSUME NEW p \in (0 .. n) \X Nat PROVE rule[p] \in Nat
    <3>1. p[1] # 0 => p[1] \in 1 .. n OBVIOUS
    <3>2. p[1] # 0 => fs[p[1]].under \in Nat BY <3>1, <1>1
    <3>3. QED BY <2>1, <3>2
  <2>3. rule \in [(0 .. n) \X Nat -> Nat] BY <2>1, <2>2
  <2>4. ASSUME NEW i \in 1 .. n, NEW v \in Nat PROVE rule[<<i, v>>] = v + 1 + fs[i].under
    <3>1. <<i, v>> \in (0 .. n) \X Nat /\ i # 0 OBVIOUS
    <3>2. QED BY <2>1, <3>1
  <2>5. QED BY <2>3, <2>4
<1>3. PICK f : Iteration(f, n, Nat, 0, rule)
  <2>1. rule \in Steps(n, Nat) BY DEF Steps
  <2>2. QED BY <2>1, Iterates
<1>4. Grows(f)
  <2>1. ASSUME NEW i \in 0 .. n, i # 0 PROVE f[i] = f[i - 1] + 1 + fs[i].under
    <3>1. i \in 1 .. n /\ i - 1 \in 0 .. n BY <2>1
    <3>2. f[i] = rule[<<i, f[i - 1]>>] /\ f[i - 1] \in Nat BY <3>1, <1>3 DEF Iteration
    <3>3. QED BY <3>1, <3>2, <1>2
  <2>2. QED BY <2>1, <1>3 DEF Iteration
<1> DEFINE h == CHOOSE g : Grows(g)
<1>5. Complexity(fs) = h[n] BY <1>0 DEF Complexity
<1>6. Grows(h)
  <2> HIDE DEF Grows
  <2>1. QED BY <1>4
<1>7. h[n] \in Nat
  <2>1. \A i \in 0 .. n : h[i] = IF i = 0 THEN 0 ELSE h[i - 1] + 1 + fs[i].under BY <1>6
  <2> HIDE DEF h
  <2> DEFINE T == {i \in 0 .. n : h[i] \in Nat}
  <2>2. 0 \in T
    <3>1. h[0] = 0 /\ 0 \in 0 .. n BY <2>1
    <3>2. QED BY <3>1
  <2>3. ASSUME NEW i \in 0 .. n, i \in T, i < n PROVE i + 1 \in T
    <3>0. i + 1 \in 1 .. n BY <2>3
    <3>1. i + 1 \in 0 .. n /\ i + 1 # 0 /\ (i + 1) - 1 = i /\ fs[i + 1].under \in Nat BY <3>0, <1>1
    <3>2. h[i + 1] = h[i] + 1 + fs[i + 1].under BY <2>1, <3>1
    <3>3. h[i] \in Nat BY <2>3
    <3>4. QED BY <3>1, <3>2, <3>3
  <2>4. 0 .. n \subseteq T
    <3> HIDE DEF T
    <3>1. QED BY <2>2, <2>3, UpTo
  <2>5. QED BY <2>4
<1>8. QED BY <1>5, <1>7

AnyItem(d) == UNION {ToSet(sel) : sel \in d.selections}
AnyField(d) ==
  [key : {i.key : i \in AnyItem(d)}, name : {i.name : i \in AnyItem(d)},
   on : {AnyType} \cup {i.on : i \in AnyItem(d)} \cup {d.fragments[f].on : f \in DOMAIN d.fragments}, under : Nat]
Result(d) == [ok : BOOLEAN, fields : Seq(AnyField(d))]

LEMMA ConditionedTyped ==
  ASSUME NEW d, NEW s \in Result(d), NEW on \in {AnyType} \cup {i.on : i \in AnyItem(d)} \cup {d.fragments[f].on : f \in DOMAIN d.fragments}
  PROVE  [s EXCEPT !.fields = Conditioned(@, on)] \in Result(d)
<1> DEFINE Keys_ == {i.key : i \in AnyItem(d)}
           Names_ == {i.name : i \in AnyItem(d)}
           Ons_ == {AnyType} \cup {i.on : i \in AnyItem(d)} \cup {d.fragments[f].on : f \in DOMAIN d.fragments}
<1>1. AnyField(d) = [key : Keys_, name : Names_, on : Ons_, under : Nat] BY DEF AnyField
<1>2. on \in Ons_ OBVIOUS
<1> HIDE DEF Keys_, Names_, Ons_
<1>3. PICK fs : fs = s.fields OBVIOUS
<1>4. fs \in Seq(AnyField(d)) BY <1>3 DEF Result
<1>5. Conditioned(fs, on) \in Seq(AnyField(d))
  <2>1. CASE on = AnyType BY <2>1, <1>4 DEF Conditioned
  <2>2. CASE on # AnyType
    <3>1. \A i \in DOMAIN fs : [fs[i] EXCEPT !.on = on] \in AnyField(d)
      <4>1. \A i \in DOMAIN fs : fs[i] \in AnyField(d) BY <1>4
      <4>2. QED BY <4>1, <1>1, <1>2
    <3>2. DOMAIN fs = 1 .. Len(fs) /\ Len(fs) \in Nat BY <1>4
    <3>3. Conditioned(fs, on) = [i \in DOMAIN fs |-> [fs[i] EXCEPT !.on = on]] BY <2>2 DEF Conditioned
    <3>4. QED BY <3>1, <3>2, <3>3
  <2>3. QED BY <2>1, <2>2
<1>6. QED BY <1>3, <1>5 DEF Result

LEMMA ExpandTyped ==
  ASSUME NEW d \in Documents, NEW sel \in d.selections, NEW i \in DOMAIN sel, NEW seen \in SUBSET DOMAIN d.fragments,
         NEW below \in [Within(d) -> Result(d)]
  PROVE  Expand(d, sel[i], seen, below) \in Result(d)
<1>1. PICK item : item = sel[i] OBVIOUS
<1>2. item \in ToSet(sel) BY <1>1 DEF ToSet
<1>3. item.is \in {"field", "inline", "spread"} /\ item.sel \in d.selections BY <1>2, GraphQLAssumption
<1>4. item \in AnyItem(d) BY <1>2 DEF AnyItem
<1>5. PICK s : s = below[<<item.sel, seen>>] OBVIOUS
<1>6. s \in Result(d)
  <2>1. <<item.sel, seen>> \in Within(d) BY <1>3 DEF Within
  <2>2. QED BY <1>5, <2>1
<1>7. Nothing \in Result(d) /\ Refused \in Result(d) BY DEF Nothing, Refused, Result
<1>8. CASE ~Registered(item)
  <2>1. Expand(d, item, seen, below) = Refused BY <1>8 DEF Expand
  <2>2. QED BY <1>1, <1>7, <2>1
<1>9. CASE Registered(item) /\ item.is = "field"
  <2>1. CASE Included(item)
    <3>1. PICK n : n = Complexity(s.fields) OBVIOUS
    <3>2. n \in Nat
      <4>1. s.fields \in Seq(AnyField(d)) BY <1>6 DEF Result
      <4>2. \A x \in AnyField(d) : x.under \in Nat BY DEF AnyField
      <4>3. QED BY <3>1, <4>1, <4>2, ComplexityNat
    <3>3. PICK fd : fd = [key |-> item.key, name |-> item.name, on |-> AnyType, under |-> n] OBVIOUS
    <3>4. fd \in AnyField(d)
      <4>1. item.key \in {x.key : x \in AnyItem(d)} /\ item.name \in {x.name : x \in AnyItem(d)} BY <1>4
      <4>2. AnyType \in {AnyType} \cup {x.on : x \in AnyItem(d)} \cup {d.fragments[f].on : f \in DOMAIN d.fragments} OBVIOUS
      <4>3. QED BY <3>2, <3>3, <4>1, <4>2 DEF AnyField
    <3>5. Expand(d, item, seen, below) = [ok |-> s.ok, fields |-> <<fd>>] BY <1>9, <2>1, <1>5, <3>1, <3>3 DEF Expand
    <3>6. s.ok \in BOOLEAN /\ <<fd>> \in Seq(AnyField(d)) BY <1>6, <3>4 DEF Result
    <3>7. QED BY <1>1, <3>5, <3>6 DEF Result
  <2>2. CASE ~Included(item)
    <3>1. Expand(d, item, seen, below) = [s EXCEPT !.fields = <<>>] BY <1>9, <2>2, <1>5 DEF Expand
    <3>2. <<>> \in Seq(AnyField(d)) OBVIOUS
    <3>3. [s EXCEPT !.fields = <<>>] \in Result(d) BY <1>6, <3>2 DEF Result
    <3>4. QED BY <1>1, <3>1, <3>3
  <2>3. QED BY <2>1, <2>2
<1>10. CASE Registered(item) /\ item.is = "inline"
  <2>1. CASE Included(item)
    <3>1. Expand(d, item, seen, below) = [s EXCEPT !.fields = Conditioned(@, item.on)]
      BY <1>10, <2>1, <1>5 DEF Expand
    <3>2. item.on \in {x.on : x \in AnyItem(d)} BY <1>4
    <3>3. QED BY <1>1, <1>6, <3>1, <3>2, ConditionedTyped
  <2>2. CASE ~Included(item)
    <3>1. Expand(d, item, seen, below) = Nothing BY <1>10, <2>2 DEF Expand
    <3>2. QED BY <1>1, <1>7, <3>1
  <2>3. QED BY <2>1, <2>2
<1>11. CASE Registered(item) /\ item.is = "spread"
  <2>1. CASE item.name \notin DOMAIN d.fragments \/ item.name \in seen
    <3>0. Registered(item) /\ item.is = "spread" BY <1>11
    <3>1. Expand(d, item, seen, below) = Refused BY <3>0, <2>1 DEF Expand
    <3>2. QED BY <1>1, <1>7, <3>1
  <2>2. CASE ~(item.name \notin DOMAIN d.fragments \/ item.name \in seen) /\ ~Included(item)
    <3>1. Expand(d, item, seen, below) = Nothing BY <1>11, <2>2 DEF Expand
    <3>2. QED BY <1>1, <1>7, <3>1
  <2>3. CASE item.name \in DOMAIN d.fragments /\ item.name \notin seen /\ Included(item)
    <3>1. PICK f : f = d.fragments[item.name] OBVIOUS
    <3>2. PICK t : t = below[<<f.sel, seen \cup {item.name}>>] OBVIOUS
    <3>3. t \in Result(d)
      <4>1. f.sel \in d.selections
        <5>1. f.sel \in {d.fragments[g].sel : g \in DOMAIN d.fragments} BY <3>1, <2>3
        <5>2. QED BY <5>1, GraphQLAssumption
      <4>2. <<f.sel, seen \cup {item.name}>> \in Within(d) BY <4>1, <2>3 DEF Within
      <4>3. QED BY <3>2, <4>2
    <3>4. Expand(d, item, seen, below) = [t EXCEPT !.fields = Conditioned(@, f.on)]
      BY <1>11, <2>3, <3>1, <3>2 DEF Expand
    <3>5. f.on \in {d.fragments[g].on : g \in DOMAIN d.fragments} BY <3>1, <2>3
    <3>6. QED BY <1>1, <3>3, <3>4, <3>5, ConditionedTyped
  <2>4. QED BY <2>1, <2>2, <2>3
<1>12. item.is = "field" \/ item.is = "inline" \/ item.is = "spread" BY <1>3
<1>13. CASE Registered(item)
  <2>1. CASE item.is = "field" BY <1>13, <2>1, <1>9
  <2>2. CASE item.is = "inline" BY <1>13, <2>2, <1>10
  <2>3. CASE item.is = "spread" BY <1>13, <2>3, <1>11
  <2>4. QED BY <1>12, <2>1, <2>2, <2>3
<1>14. QED BY <1>8, <1>13

LEMMA ExpandedTyped ==
  ASSUME NEW d \in Documents, NEW sel \in d.selections, NEW seen \in SUBSET DOMAIN d.fragments,
         NEW below \in [Within(d) -> Result(d)]
  PROVE  Expanded(d, sel, seen, below) \in Result(d)
<1>1. PICK es : es = [i \in DOMAIN sel |-> Expand(d, sel[i], seen, below)] OBVIOUS
<1>2. \A i \in DOMAIN sel : es[i] \in Result(d) BY <1>1, ExpandTyped
<1>3. DOMAIN sel = 1 .. Len(sel) /\ Len(sel) \in Nat
  <2>1. sel \in Seq(ToSet(sel)) BY GraphQLAssumption
  <2>2. QED BY <2>1
<1>4. PICK ss : ss = [i \in DOMAIN sel |-> es[i].fields] OBVIOUS
<1>5. ss \in Seq(Seq(AnyField(d)))
  <2>1. \A i \in DOMAIN sel : es[i].fields \in Seq(AnyField(d)) BY <1>2 DEF Result
  <2>2. QED BY <2>1, <1>3, <1>4
<1>6. FlattenSeq(ss) \in Seq(AnyField(d)) BY <1>5, FlattenIsList
<1>7. Expanded(d, sel, seen, below) = [ok |-> \A i \in DOMAIN sel : es[i].ok, fields |-> FlattenSeq(ss)]
  BY <1>1, <1>4 DEF Expanded
<1>8. (\A i \in DOMAIN sel : es[i].ok) \in BOOLEAN OBVIOUS
<1>9. QED BY <1>6, <1>7, <1>8 DEF Result

\* Expansion ends, in a list of fields.
LEMMA FieldsOfTyped ==
  ASSUME NEW d \in Documents, NEW sel \in d.selections, NEW seen \in SUBSET DOMAIN d.fragments
  PROVE  FieldsOf(d, sel, seen) \in Result(d)
<1>0. PICK n \in Nat : n = Depth(d)
  <2>1. Cardinality(d.selections) \in Nat /\ Cardinality(DOMAIN d.fragments) \in Nat BY GraphQLAssumption, FS_CardinalityType
  <2>2. QED BY <2>1 DEF Depth
<1> DEFINE V == [Within(d) -> Result(d)]
           Next_(g) == [w \in Within(d) |-> Expanded(d, w[1], w[2], g)]
           None_ == [w \in Within(d) |-> Refused]
           Deep(g) == g = [m \in 0 .. n |-> [w \in Within(d) |-> IF m = 0 THEN Refused ELSE Expanded(d, w[1], w[2], g[m - 1])]]
<1>1. None_ \in V BY DEF Refused, Result
<1>2. \A g \in V : Next_(g) \in V
  <2>1. \A w \in Within(d) : w[1] \in d.selections /\ w[2] \in SUBSET DOMAIN d.fragments BY DEF Within
  <2>2. QED BY <2>1, ExpandedTyped
<1>3. PICK rule : rule = [p \in (0 .. n) \X V |-> Next_(p[2])] OBVIOUS
<1>4. rule \in Steps(n, V) /\ \A m \in 0 .. n, g \in V : rule[<<m, g>>] = Next_(g)
  <2>1. \A p \in (0 .. n) \X V : p[2] \in V OBVIOUS
  <2>2. \A p \in (0 .. n) \X V : rule[p] \in V
    <3> HIDE DEF V, Next_
    <3>1. QED BY <1>2, <1>3, <2>1
  <2>3. \A m \in 0 .. n, g \in V : <<m, g>> \in (0 .. n) \X V OBVIOUS
  <2> HIDE DEF V, Next_
  <2>4. QED BY <1>3, <2>2, <2>3 DEF Steps
<1>5. PICK f : Iteration(f, n, V, None_, rule)
  <2> HIDE DEF V, None_
  <2>1. QED BY <1>1, <1>4, Iterates
<1>6. Deep(f)
  <2>1. ASSUME NEW m \in 0 .. n
        PROVE  f[m] = [w \in Within(d) |-> IF m = 0 THEN Refused ELSE Expanded(d, w[1], w[2], f[m - 1])]
    <3>1. CASE m = 0
      <4>1. f[m] = None_
        <5> HIDE DEF None_
        <5>1. QED BY <1>5, <3>1 DEF Iteration
      <4>2. QED BY <3>1, <4>1
    <3>2. CASE m # 0
      <4>1. m \in 1 .. n /\ m - 1 \in 0 .. n BY <3>2
      <4>2. f[m - 1] \in V /\ f[m] = rule[<<m, f[m - 1]>>]
        <5> HIDE DEF V, None_
        <5>1. QED BY <1>5, <4>1 DEF Iteration
      <4>3. f[m] = Next_(f[m - 1])
        <5> HIDE DEF V, Next_
        <5>1. QED BY <1>4, <4>2
      <4>4. QED BY <3>2, <4>3
    <3>3. QED BY <3>1, <3>2
  <2>2. DOMAIN f = 0 .. n BY <1>5 DEF Iteration
  <2>3. f = [m \in 0 .. n |-> f[m]]
    <3>1. f \in [0 .. n -> V] BY <1>5 DEF Iteration
    <3>2. QED BY <3>1
  <2>4. QED BY <2>1, <2>3
<1> DEFINE h == CHOOSE g : Deep(g)
<1>7. FieldsOf(d, sel, seen) = h[n][<<sel, seen>>] BY <1>0 DEF FieldsOf
<1>8. Deep(h)
  <2> HIDE DEF Deep
  <2>1. QED BY <1>6
<1>9. \A m \in 0 .. n : h[m] = [w \in Within(d) |-> IF m = 0 THEN Refused ELSE Expanded(d, w[1], w[2], h[m - 1])] BY <1>8
<1> HIDE DEF h
<1> DEFINE T == {m \in 0 .. n : h[m] \in V}
<1>10. 0 \in T
  <2>1. h[0] = None_ BY <1>9
  <2>2. QED BY <2>1, <1>1
<1>11. ASSUME NEW m \in 0 .. n, m \in T, m < n PROVE m + 1 \in T
  <2>1. m + 1 \in 0 .. n /\ m + 1 # 0 /\ (m + 1) - 1 = m BY <1>11
  <2>2. h[m + 1] = Next_(h[m]) BY <1>9, <2>1
  <2>3. h[m] \in V BY <1>11
  <2>4. h[m + 1] \in V
    <3> HIDE DEF V, Next_
    <3>1. QED BY <1>2, <2>2, <2>3
  <2>5. QED BY <2>1, <2>4
<1>12. 0 .. n \subseteq T
  <2> HIDE DEF T
  <2>1. QED BY <1>10, <1>11, UpTo
<1>13. h[n] \in V BY <1>12
<1>14. <<sel, seen>> \in Within(d) BY DEF Within
<1>15. QED BY <1>7, <1>13, <1>14

-----------------------------------------------------------------------------
(* The execution of a document *)

\* Where the execution is among the fields.
PlaceKept ==
  /\ doc \in Documents /\ transport \in {"http", "ws"}
  /\ fields \in Seq(AnyField(doc)) /\ index \in Nat
  /\ at \in {"begin", "checking"} => data = <<>> /\ errors = <<>> /\ payloads = <<>> /\ ran = {} /\ index = 0 /\ after = ""
  /\ at \in {"fields", "error"} \/ (at = "finalize" /\ after \in {"items", "fields"}) =>
       /\ index \in 1 .. Len(fields) + 1 /\ Complexity(fields) <= MaxComplexity
       /\ after \notin {"answer", "refused"}
  /\ at = "error" => index <= Len(fields)
  /\ after = "answer" => index = Len(fields) + 1 /\ transport = "http" /\ at \in {"finalize", "ended"}
  /\ transport = "http" => stage # "items"
  /\ after = "refused" => at \in {"finalize", "ended"}

\* The fields done so far have their keys in the data.
DataKept ==
  /\ errors \in Seq(Nat)
  /\ transport = "http" /\ after # "refused" =>
       /\ ToSet(errors) \subseteq 1 .. index - 1
       /\ DOMAIN data = {fields[i].key : i \in 1 .. index - 1}
       /\ \A k \in DOMAIN data :
            /\ data[k].index \in 1 .. index - 1
            /\ \A i \in 1 .. index - 1 : fields[i].key = k => i <= data[k].index
            /\ data[k].null = (data[k].index \in ToSet(errors))

\* What was sent is of fields up to the one in progress, which has not failed.
SentKept ==
  /\ payloads \in Seq([index : Nat, error : BOOLEAN])
  /\ \A p \in DOMAIN payloads : payloads[p].index <= index /\ (payloads[p].error => payloads[p].index < index)
  /\ PayloadsInOrder

DocumentInv == PlaceKept /\ DataKept /\ SentKept /\ RefusedRunsNothing

LEMMA DocumentStarts == GraphQLInit => DocumentInv
<1> SUFFICES ASSUME GraphQLInit PROVE DocumentInv OBVIOUS
<1>0. /\ doc \in Documents /\ transport \in {"http", "ws"} /\ at = "begin" /\ after = "" /\ stage = "before"
      /\ fields = <<>> /\ index = 0 /\ data = <<>> /\ errors = <<>> /\ payloads = <<>> /\ ran = {}
  BY DEF GraphQLInit
<1>a. <<>> \in Seq(AnyField(doc)) /\ <<>> \in Seq(Nat) /\ <<>> \in Seq([index : Nat, error : BOOLEAN]) /\ DOMAIN <<>> = {}
  OBVIOUS
<1>1. PlaceKept BY <1>0, <1>a DEF PlaceKept
<1>b. SentKept BY <1>0, <1>a DEF SentKept, PayloadsInOrder
<1>c. RefusedRunsNothing BY <1>0 DEF RefusedRunsNothing
<1>2. DataKept
  <2>1. ToSet(errors) = {} /\ DOMAIN data = {} BY <1>0, <1>a DEF ToSet
  <2>2. 1 .. index - 1 = {}
    <3>1. index = 0 BY <1>0
    <3>2. QED BY <3>1
  <2>3. QED BY <1>0, <1>a, <2>1, <2>2 DEF DataKept
<1>3. QED BY <1>1, <1>2, <1>b, <1>c DEF DocumentInv

LEMMA StagesFollow == ASSUME NEW s \in {"before", "guards", "pipes", "after"} PROVE Following(s) # "items"
<1> DEFINE i == CHOOSE i \in 1 .. Len(Stages) : Stages[i] = s
<1>1. Len(Stages) = 7 /\ Stages[1] = "before" /\ Stages[2] = "guards" /\ Stages[3] = "pipes" /\ Stages[4] = "interceptors"
      /\ Stages[5] = "handler" /\ Stages[6] = "after" /\ Stages[7] = "shape"
  BY DEF Stages
<1>2. \E j \in 1 .. Len(Stages) : Stages[j] = s
  <2>1. 1 \in 1 .. Len(Stages) /\ 2 \in 1 .. Len(Stages) /\ 3 \in 1 .. Len(Stages) /\ 6 \in 1 .. Len(Stages) BY <1>1
  <2>2. s = Stages[1] \/ s = Stages[2] \/ s = Stages[3] \/ s = Stages[6] BY <1>1
  <2>3. QED BY <2>1, <2>2
<1>3. i \in 1 .. 7 /\ Stages[i] = s BY <1>1, <1>2
<1>4. Following(s) = Stages[i + 1] BY DEF Following
<1> HIDE DEF i
<1>5. i \in {1, 2, 3, 6}
  <2>1. i \notin {4, 5, 7} BY <1>1, <1>3
  <2>2. QED BY <1>3, <2>1
<1>6. i + 1 \in {2, 3, 4, 7} BY <1>5
<1>7. QED BY <1>1, <1>4, <1>6

\* Steps that answer and send nothing.
LEMMA QuietKeeps ==
  ASSUME DocumentInv, Begin \/ Escape \/ Pass \/ Intercept \/ CallHandler \/ Item \/ FieldFails \/ Done \/ Finalize
  PROVE  DocumentInv'
<1>0. /\ UNCHANGED <<doc, transport, fields, index, data, errors, payloads>>
      /\ after' # "refused" => after # "refused"
  BY DEF Begin, Escape, Pass, Intercept, CallHandler, Item, FieldFails, Done, Finalize, Finalizes, DocumentInv, PlaceKept
<1>1. PlaceKept'
  <2>1. CASE Begin BY <1>0, <2>1 DEF Begin, DocumentInv, PlaceKept
  <2>2. CASE Escape BY <1>0, <2>2 DEF Escape, DocumentInv, PlaceKept
  <2>3. CASE Pass \/ Intercept \/ CallHandler \/ Item
    <3>1. at = "fields" /\ UNCHANGED <<at, after>>
      BY <2>3 DEF Pass, Intercept, CallHandler, Item, Owned, Running
    <3>2. transport = "http" => stage' # "items"
      <4>1. CASE Pass BY <4>1, StagesFollow DEF Pass
      <4>2. CASE Intercept \/ CallHandler BY <4>2 DEF Intercept, CallHandler
      <4>3. CASE Item BY <4>3 DEF Item, DocumentInv, PlaceKept
      <4>4. QED BY <2>3, <4>1, <4>2, <4>3
    <3>3. QED BY <1>0, <3>1, <3>2 DEF DocumentInv, PlaceKept
  <2>4. CASE FieldFails BY <1>0, <2>4 DEF FieldFails, Running, DocumentInv, PlaceKept
  <2>5. CASE Done
    <3>1. at = "fields" /\ index > Len(fields) /\ stage' = stage BY <2>5 DEF Done
    <3>2. PlaceKept BY DEF DocumentInv
    <3>3. fields \in Seq(AnyField(doc)) BY <3>2 DEF PlaceKept
    <3>4. Len(fields) \in Nat /\ index \in 1 .. Len(fields) + 1 BY <3>1, <3>2, <3>3 DEF PlaceKept
    <3>5. index = Len(fields) + 1 BY <3>1, <3>4
    <3>6. \/ transport = "http" /\ at' = "finalize" /\ after' = "answer"
          \/ at' = "ended" /\ after' = after /\ after \notin {"answer", "refused"}
      BY <2>5, <3>1, <3>2 DEF Done, Finalizes, PlaceKept
    <3>7. QED BY <1>0, <3>1, <3>2, <3>5, <3>6 DEF PlaceKept
  <2>6. CASE Finalize BY <1>0, <2>6 DEF Finalize, DocumentInv, PlaceKept
  <2>7. QED BY <2>1, <2>2, <2>3, <2>4, <2>5, <2>6
<1>2. DataKept' BY <1>0 DEF DocumentInv, DataKept
<1>3. SentKept' BY <1>0 DEF DocumentInv, SentKept, PayloadsInOrder
<1>4. RefusedRunsNothing'
  <2>1. CASE CallHandler BY <2>1, <1>0 DEF CallHandler, Owned, Running, DocumentInv, PlaceKept, RefusedRunsNothing
  <2>2. CASE ~CallHandler
    <3>1. ran' = ran BY <2>2 DEF Begin, Escape, Pass, Intercept, Item, FieldFails, Done, Finalize
    <3>2. QED BY <1>0, <3>1 DEF DocumentInv, RefusedRunsNothing
  <2>3. QED BY <2>1, <2>2
<1>5. QED BY <1>1, <1>2, <1>3, <1>4 DEF DocumentInv

LEMMA OperationListed ==
  ASSUME NEW d \in Documents, NEW name
  PROVE  Operation(d, name).sel \in d.selections
<1>1. NoOperation.sel \in d.selections /\ [NoOperation EXCEPT !.ok = TRUE].sel \in d.selections
  <2>1. <<>> \in d.selections BY GraphQLAssumption
  <2>2. QED BY <2>1 DEF NoOperation
<1>2. PICK n : n = SelectInSeq(d.operations, LAMBDA o : o.name = name) OBVIOUS
<1>3. d.operations \in Seq(ToSet(d.operations)) BY GraphQLAssumption
<1>4. n = 0 \/ n \in DOMAIN d.operations
  <2> DEFINE I == {i \in 1 .. Len(d.operations) : d.operations[i].name = name}
  <2>1. n = IF I # {} THEN Min(I) ELSE 0 BY <1>2 DEF SelectInSeq
  <2>2. I \subseteq 1 .. Len(d.operations) /\ Len(d.operations) \in Nat BY <1>3
  <2>3. I # {} => Min(I) \in I
    <3> HIDE DEF I
    <3>1. ASSUME I # {} PROVE \E x \in I : \A y \in I : x <= y
      <4>1. I \subseteq Nat BY <2>2
      <4>2. QED BY <3>1, <4>1, LeastNumber
    <3>2. QED BY <3>1 DEF Min
  <2>4. DOMAIN d.operations = 1 .. Len(d.operations) BY <1>3
  <2> HIDE DEF I
  <2>5. QED BY <2>1, <2>2, <2>3, <2>4
<1>5. \A i \in DOMAIN d.operations : [ok |-> TRUE, op |-> d.operations[i].op, sel |-> d.operations[i].sel].sel \in d.selections
  <2>1. ASSUME NEW i \in DOMAIN d.operations PROVE d.operations[i].sel \in d.selections
    <3>1. d.operations[i] \in ToSet(d.operations) BY DEF ToSet
    <3>2. QED BY <3>1, GraphQLAssumption
  <2>2. QED BY <2>1
<1>6. CASE name = ""
  <2>1. CASE Len(d.operations) = 1
    <3>1. 1 \in DOMAIN d.operations /\ Head(d.operations) = d.operations[1] BY <1>3, <2>1
    <3>a. ~(Len(d.operations) > 1) BY <2>1
    <3>b. PICK o : o = d.operations[1] OBVIOUS
    <3>c. Operation(d, name) = [ok |-> TRUE, op |-> o.op, sel |-> o.sel]
      BY <1>6, <2>1, <3>1, <3>a, <3>b DEF Operation
    <3>2. Operation(d, name) = [ok |-> TRUE, op |-> d.operations[1].op, sel |-> d.operations[1].sel] BY <3>b, <3>c
    <3>3. QED BY <1>5, <3>1, <3>2
  <2>2. CASE Len(d.operations) > 1
    <3>1. Len(d.operations) # 1 BY <1>3, <2>2
    <3>2. Operation(d, name) = NoOperation BY <1>6, <2>2, <3>1 DEF Operation
    <3>3. QED BY <1>1, <3>2
  <2>3. CASE Len(d.operations) # 1 /\ ~(Len(d.operations) > 1)
    <3>1. Operation(d, name) = [NoOperation EXCEPT !.ok = TRUE] BY <1>6, <2>3 DEF Operation
    <3>2. QED BY <1>1, <3>1
  <2>4. QED BY <2>1, <2>2, <2>3
<1>7. CASE name # ""
  <2>1. Operation(d, name) = IF n = 0 THEN NoOperation
                             ELSE [ok |-> TRUE, op |-> d.operations[n].op, sel |-> d.operations[n].sel]
    BY <1>2, <1>7 DEF Operation
  <2>2. CASE n = 0 BY <1>1, <2>1, <2>2
  <2>3. CASE n # 0
    <3>1. n \in DOMAIN d.operations BY <1>4, <2>3
    <3>2. Operation(d, name) = [ok |-> TRUE, op |-> d.operations[n].op, sel |-> d.operations[n].sel] BY <2>1, <2>3
    <3>3. QED BY <1>5, <3>1, <3>2
  <2>4. QED BY <2>2, <2>3
<1>8. QED BY <1>6, <1>7

LEMMA CheckKeeps == ASSUME DocumentInv, Check PROVE DocumentInv'
<1>1. PICK e : e = FieldsOf(doc, Operation(doc, asked).sel, {}) OBVIOUS
<1>2. e \in Result(doc)
  <2>1. doc \in Documents BY DEF DocumentInv, PlaceKept
  <2>2. Operation(doc, asked).sel \in doc.selections BY <2>1, OperationListed
  <2>3. QED BY <1>1, <2>1, <2>2, FieldsOfTyped
<1>3. e.fields \in Seq(AnyField(doc)) /\ Complexity(e.fields) \in Nat
  <2>1. e.fields \in Seq(AnyField(doc)) BY <1>2 DEF Result
  <2>2. \A x \in AnyField(doc) : x.under \in Nat BY DEF AnyField
  <2>3. QED BY <2>1, <2>2, ComplexityNat
<1>4. /\ at = "checking" /\ UNCHANGED <<doc, transport, data, payloads, ran>>
      /\ \/ errors' = <<0>> /\ at' = "finalize" /\ after' = "refused" /\ UNCHANGED <<fields, index>>
         \/ /\ ~(Complexity(e.fields) > MaxComplexity)
            /\ at' = "fields" /\ fields' = e.fields /\ index' = 1 /\ UNCHANGED <<errors, after>>
  BY <1>1 DEF Check, Finalizes
<1>5. data = <<>> /\ errors = <<>> /\ payloads = <<>> /\ ran = {} /\ index = 0 /\ after = ""
  BY <1>4 DEF DocumentInv, PlaceKept
<1>6. MaxComplexity \in Nat BY GraphQLAssumption
<1>a. <<>> \in Seq(Nat) /\ <<>> \in Seq([index : Nat, error : BOOLEAN]) /\ <<0>> \in Seq(Nat) /\ DOMAIN <<>> = {} OBVIOUS
<1>b. doc \in Documents /\ transport \in {"http", "ws"} /\ fields \in Seq(AnyField(doc)) /\ stage' = stage
      /\ (transport = "http" => stage # "items")
  BY DEF DocumentInv, PlaceKept, Check
<1>7. SentKept' BY <1>4, <1>5, <1>a DEF SentKept, PayloadsInOrder
<1>8. RefusedRunsNothing' BY <1>4, <1>5 DEF RefusedRunsNothing
<1>9. CASE at' = "finalize"
  <2>0. errors' = <<0>> /\ after' = "refused" /\ UNCHANGED <<fields, index>> BY <1>4, <1>9
  <2>1. PlaceKept' BY <1>4, <1>5, <1>9, <1>b, <2>0 DEF PlaceKept
  <2>2. DataKept' BY <2>0, <1>a DEF DataKept
  <2>3. QED BY <2>1, <2>2, <1>7, <1>8 DEF DocumentInv
<1>10. CASE at' = "fields"
  <2>0. fields' = e.fields /\ index' = 1 /\ errors' = errors /\ after' = after /\ ~(Complexity(e.fields) > MaxComplexity)
    BY <1>4, <1>10
  <2>a. Complexity(e.fields) <= MaxComplexity
    <3>1. Complexity(e.fields) \in Nat BY <1>3
    <3>2. ~(Complexity(e.fields) > MaxComplexity) BY <2>0
    <3>3. QED BY <3>1, <3>2, <1>6
  <2>b. errors' = <<>> /\ after' = "" BY <1>5, <2>0
  <2>1. errors' = <<>> /\ after' = "" /\ Complexity(e.fields) <= MaxComplexity BY <2>a, <2>b
  <2>2. Len(e.fields) \in Nat BY <1>3
  <2>3. PlaceKept'
    <3>1. doc' \in Documents /\ transport' \in {"http", "ws"} /\ fields' \in Seq(AnyField(doc')) /\ index' \in Nat
      BY <1>3, <1>4, <1>b, <2>0
    <3>2. at' = "fields" /\ after' = "" /\ (transport' = "http" => stage' # "items") BY <1>4, <1>10, <1>b, <2>1
    <3>3. index' \in 1 .. Len(fields') + 1 /\ Complexity(fields)' <= MaxComplexity
      <4>1. fields' = e.fields /\ index' = 1 BY <2>0
      <4>2. 1 \in 1 .. Len(e.fields) + 1 BY <2>2
      <4>3. QED BY <4>1, <4>2, <2>a
    <3>4. QED BY <3>1, <3>2, <3>3 DEF PlaceKept
  <2>4. DataKept'
    <3>1. ToSet(errors)' = {} /\ DOMAIN data' = {} BY <1>4, <1>5, <1>a, <2>0, <2>1 DEF ToSet
    <3>2. 1 .. index' - 1 = {} BY <2>0
    <3>3. QED BY <1>a, <2>1, <3>1, <3>2 DEF DataKept
  <2>5. QED BY <2>3, <2>4, <1>7, <1>8 DEF DocumentInv
<1>11. QED BY <1>4, <1>9, <1>10

\* A field is done, and has failed if null.
LEMMA PutKeeps ==
  ASSUME DocumentInv, NEW null \in BOOLEAN, transport = "http", transport' = transport, after # "refused", after' = after,
         index \in 1 .. Len(fields), fields' = fields,
         index' = index + 1, Put(null), errors' = IF null THEN Append(errors, index) ELSE errors
  PROVE  DataKept'
<1>1. index \in Nat /\ errors \in Seq(Nat) BY DEF DocumentInv, PlaceKept, DataKept
<1>2. errors' \in Seq(Nat) /\ ToSet(errors') = IF null THEN ToSet(errors) \cup {index} ELSE ToSet(errors)
  <2>1. CASE null
    <3>1. PICK t : t = Append(errors, index) OBVIOUS
    <3>2. t \in Seq(Nat) /\ Len(t) = Len(errors) + 1 /\ t[Len(errors) + 1] = index /\ \A i \in 1 .. Len(errors) : t[i] = errors[i]
      BY <1>1, <3>1
    <3>3. DOMAIN t = 1 .. Len(errors) + 1 /\ DOMAIN errors = 1 .. Len(errors) /\ Len(errors) \in Nat BY <1>1, <3>2
    <3>4. ToSet(t) = ToSet(errors) \cup {index} BY <3>2, <3>3 DEF ToSet
    <3>5. QED BY <2>1, <3>1, <3>2, <3>4
  <2>2. CASE ~null BY <2>2, <1>1
  <2>3. QED BY <2>1, <2>2
<1>3. /\ ToSet(errors) \subseteq 1 .. index - 1
      /\ DOMAIN data = {fields[i].key : i \in 1 .. index - 1}
      /\ \A k \in DOMAIN data :
           /\ data[k].index \in 1 .. index - 1
           /\ \A i \in 1 .. index - 1 : fields[i].key = k => i <= data[k].index
           /\ data[k].null = (data[k].index \in ToSet(errors))
  BY DEF DocumentInv, DataKept
<1>4. PICK key : key = fields[index].key OBVIOUS
<1>5. data' = [k \in DOMAIN data \cup {key} |-> IF k = key THEN [index |-> index, null |-> null] ELSE data[k]]
  BY <1>4 DEF Put, Field
<1>6. 1 .. index' - 1 = (1 .. index - 1) \cup {index} BY <1>1
<1>7. ToSet(errors') \subseteq 1 .. index' - 1 BY <1>2, <1>3, <1>6
<1>8. DOMAIN data' = {fields'[i].key : i \in 1 .. index' - 1} BY <1>3, <1>4, <1>5, <1>6
<1>9. ASSUME NEW k \in DOMAIN data'
      PROVE  /\ data'[k].index \in 1 .. index' - 1
             /\ \A i \in 1 .. index' - 1 : fields'[i].key = k => i <= data'[k].index
             /\ data'[k].null = (data'[k].index \in ToSet(errors'))
  <2>1. CASE k = key
    <3>1. data'[k] = [index |-> index, null |-> null] BY <1>5, <1>9, <2>1
    <3>2. index \notin ToSet(errors) BY <1>1, <1>3
    <3>3. null = (index \in ToSet(errors')) BY <3>2, <1>2
    <3>4. \A i \in 1 .. index' - 1 : i <= index BY <1>1
    <3>5. QED BY <3>1, <3>3, <3>4, <1>6
  <2>2. CASE k # key
    <3>1. k \in DOMAIN data /\ data'[k] = data[k] BY <1>5, <1>9, <2>2
    <3>2. data[k].index \in 1 .. index - 1 /\ data[k].null = (data[k].index \in ToSet(errors)) BY <1>3, <3>1
    <3>3. data[k].index # index BY <1>1, <3>2
    <3>4. data[k].null = (data[k].index \in ToSet(errors')) BY <1>2, <3>2, <3>3
    <3>5. \A i \in 1 .. index' - 1 : fields'[i].key = k => i <= data[k].index
      BY <1>3, <1>4, <1>6, <2>2, <3>1
    <3>6. QED BY <3>1, <3>2, <3>4, <3>5, <1>6
  <2>3. QED BY <2>1, <2>2
<1>10. QED BY <1>2, <1>7, <1>8, <1>9 DEF DataKept

\* A payload of the field in progress.
LEMMA SendKeeps ==
  ASSUME DocumentInv, NEW error \in BOOLEAN, payloads' = Append(payloads, [index |-> index, error |-> error]),
         index' \in Nat, IF error THEN index < index' ELSE index <= index'
  PROVE  SentKept'
<1>1. index \in Nat /\ payloads \in Seq([index : Nat, error : BOOLEAN])
      /\ \A p \in DOMAIN payloads : payloads[p].index <= index /\ (payloads[p].error => payloads[p].index < index)
  BY DEF DocumentInv, PlaceKept, SentKept
<1>2. PICK new : new = [index |-> index, error |-> error] OBVIOUS
<1>3. new \in [index : Nat, error : BOOLEAN] BY <1>1, <1>2
<1>4. /\ payloads' \in Seq([index : Nat, error : BOOLEAN]) /\ Len(payloads') = Len(payloads) + 1
      /\ payloads'[Len(payloads) + 1] = new /\ \A p \in 1 .. Len(payloads) : payloads'[p] = payloads[p]
  BY <1>1, <1>2, <1>3
<1>5. DOMAIN payloads' = (DOMAIN payloads) \cup {Len(payloads) + 1} /\ DOMAIN payloads = 1 .. Len(payloads) /\ Len(payloads) \in Nat
  BY <1>1, <1>4
<1>6. \A p \in DOMAIN payloads : payloads[p] \in [index : Nat, error : BOOLEAN] BY <1>1, ElementOfSeq, <1>5
<1>7. ASSUME NEW p \in DOMAIN payloads'
      PROVE  payloads'[p].index <= index' /\ (payloads'[p].error => payloads'[p].index < index')
  <2>1. CASE p \in DOMAIN payloads
    <3>1. payloads'[p] = payloads[p] /\ payloads[p].index \in Nat /\ payloads[p].index <= index
          /\ (payloads[p].error => payloads[p].index < index)
      BY <2>1, <1>1, <1>4, <1>5, <1>6
    <3>2. index <= index' BY <1>1
    <3>3. QED BY <3>1, <3>2, <1>1
  <2>2. CASE p = Len(payloads) + 1 BY <2>2, <1>1, <1>2, <1>4
  <2>3. QED BY <1>5, <2>1, <2>2
<1>8. ASSUME NEW p \in DOMAIN payloads', NEW q \in DOMAIN payloads', p < q
      PROVE  payloads'[p].index < payloads'[q].index \/ (payloads'[p].index = payloads'[q].index /\ ~payloads'[p].error)
  <2>1. p \in DOMAIN payloads BY <1>5, <1>8
  <2>2. CASE q \in DOMAIN payloads BY <1>4, <1>5, <1>8, <2>1, <2>2 DEF DocumentInv, SentKept, PayloadsInOrder
  <2>3. CASE q = Len(payloads) + 1
    <3>1. payloads'[p] = payloads[p] /\ payloads'[q].index = index BY <1>2, <1>4, <1>5, <2>1, <2>3
    <3>2. payloads[p].index \in Nat BY <1>6, <2>1
    <3>3. QED BY <1>1, <2>1, <3>1, <3>2
  <2>4. QED BY <1>5, <2>2, <2>3
<1>9. PayloadsInOrder' BY <1>8 DEF PayloadsInOrder
<1>10. QED BY <1>4, <1>7, <1>9 DEF SentKept

\* Nothing is sent, and the next field may have come.
LEMMA UnsentKeeps ==
  ASSUME DocumentInv, UNCHANGED payloads, index' \in Nat, index <= index'
  PROVE  SentKept'
<1>1. index \in Nat /\ \A p \in DOMAIN payloads : payloads[p].index \in Nat
  <2>1. index \in Nat /\ payloads \in Seq([index : Nat, error : BOOLEAN]) BY DEF DocumentInv, PlaceKept, SentKept
  <2>2. DOMAIN payloads = 1 .. Len(payloads) BY <2>1
  <2>3. \A p \in DOMAIN payloads : payloads[p] \in [index : Nat, error : BOOLEAN] BY <2>1, <2>2, ElementOfSeq
  <2>4. QED BY <2>1, <2>3
<1>2. QED BY <1>1 DEF DocumentInv, SentKept, PayloadsInOrder

LEMMA FieldKeeps ==
  ASSUME DocumentInv, Meta \/ Shape \/ SourceEnds \/ FieldError
  PROVE  DocumentInv'
<1>1. /\ doc \in Documents /\ transport \in {"http", "ws"} /\ fields \in Seq(AnyField(doc)) /\ Len(fields) \in Nat
      /\ index \in 1 .. Len(fields) /\ Complexity(fields) <= MaxComplexity /\ after \notin {"answer", "refused"}
      /\ at \in {"fields", "error"}
  <2>1. (at = "fields" /\ index <= Len(fields)) \/ at = "error" BY DEF Meta, Shape, SourceEnds, FieldError, Owned, Running
  <2>2. PlaceKept BY DEF DocumentInv
  <2>a. fields \in Seq(AnyField(doc)) BY <2>2 DEF PlaceKept
  <2>3. fields \in Seq(AnyField(doc)) /\ Len(fields) \in Nat BY <2>a
  <2>4. index \in 1 .. Len(fields) + 1 /\ index <= Len(fields) BY <2>1, <2>2 DEF PlaceKept
  <2>b. index \in 1 .. Len(fields) BY <2>3, <2>4
  <2>5. at \in {"fields", "error"} BY <2>1
  <2>6. QED BY <2>2, <2>3, <2>b, <2>5 DEF PlaceKept
<1>2. UNCHANGED <<doc, transport, fields, ran>> BY DEF Meta, Shape, SourceEnds, FieldError
<1>3. index' \in {index, index + 1} BY DEF Meta, Shape, SourceEnds, FieldError, NextField, AfterError
<1>a. transport = "http" => stage' # "items" BY DEF Meta, Shape, SourceEnds, FieldError, NextField, AfterError
<1>4. /\ \/ at' = "fields" /\ after' = after
         \/ at' = "finalize" /\ after' \in {"items", "fields"} /\ transport = "ws"
  BY <1>1 DEF Meta, Shape, SourceEnds, FieldError, Owned, Running, Finalizes
<1>b. index' \in 1 .. Len(fields) + 1 BY <1>1, <1>3
<1>5. PlaceKept'
  <2>1. doc' \in Documents /\ transport' \in {"http", "ws"} /\ fields' \in Seq(AnyField(doc')) /\ index' \in Nat
        /\ (transport' = "http" => stage' # "items")
    BY <1>1, <1>2, <1>a, <1>b
  <2>2. at' \in {"fields", "finalize"} /\ after' \notin {"answer", "refused"} BY <1>1, <1>4
  <2>3. index' \in 1 .. Len(fields') + 1 /\ Complexity(fields)' <= MaxComplexity BY <1>1, <1>2, <1>b
  <2>4. QED BY <2>1, <2>2, <2>3 DEF PlaceKept
<1>6. RefusedRunsNothing' BY <1>2 DEF DocumentInv, RefusedRunsNothing
<1>7. DataKept'
  <2>1. CASE transport = "ws"
    <3>1. errors' \in Seq(Nat)
      <4>1. errors \in Seq(Nat) /\ index \in Nat BY <1>1 DEF DocumentInv, DataKept
      <4>2. errors' = errors \/ errors' = Append(errors, index) BY DEF Meta, Shape, SourceEnds, FieldError
      <4>3. QED BY <4>1, <4>2
    <3>2. transport' # "http" BY <1>2, <2>1
    <3>3. QED BY <3>1, <3>2 DEF DataKept
  <2>2. CASE transport = "http"
    <3>1. CASE SourceEnds
      BY <2>2, <3>1 DEF SourceEnds, DocumentInv, PlaceKept
    <3>2. CASE Meta \/ Shape
      <4>1. Put(FALSE) /\ index' = index + 1 /\ errors' = errors /\ after' = after BY <2>2, <3>2 DEF Meta, Shape, NextField
      <4>2. QED BY <1>1, <1>2, <2>2, <4>1, PutKeeps
    <3>3. CASE FieldError
      <4>1. Put(TRUE) /\ index' = index + 1 /\ errors' = Append(errors, index) /\ after' = after
        BY <2>2, <3>3 DEF FieldError, AfterError, NextField
      <4>2. QED BY <1>1, <1>2, <2>2, <4>1, PutKeeps
    <3>4. QED BY <3>1, <3>2, <3>3
  <2>3. QED BY <1>1, <2>1, <2>2
<1>c. index \in Nat /\ index' \in Nat /\ index <= index' BY <1>1, <1>3
<1>8. SentKept'
  <2>1. CASE Meta \/ SourceEnds \/ ((Shape \/ FieldError) /\ transport = "http")
    <3>1. UNCHANGED payloads BY <2>1, <1>1 DEF Meta, SourceEnds, Shape, FieldError
    <3>2. QED BY <1>c, <3>1, UnsentKeeps
  <2>2. CASE Shape /\ transport = "ws"
    <3>1. payloads' = Append(payloads, [index |-> index, error |-> FALSE]) /\ index' = index BY <2>2 DEF Shape
    <3>2. IF FALSE THEN index < index' ELSE index <= index' BY <1>c
    <3>3. QED BY <3>1, <3>2, <1>c, SendKeeps
  <2>3. CASE FieldError /\ transport = "ws"
    <3>1. payloads' = Append(payloads, [index |-> index, error |-> TRUE]) /\ index' = index + 1
      BY <2>3 DEF FieldError, AfterError, NextField
    <3>2. IF TRUE THEN index < index' ELSE index <= index' BY <1>c, <3>1
    <3>3. QED BY <3>1, <3>2, <1>c, SendKeeps
  <2>4. QED BY <1>1, <2>1, <2>2, <2>3
<1>9. QED BY <1>5, <1>6, <1>7, <1>8 DEF DocumentInv

LEMMA DocumentStep == ASSUME DocumentInv, [GraphQLNext]_gqlVars PROVE DocumentInv'
<1>1. CASE UNCHANGED gqlVars
  BY <1>1 DEF gqlVars, DocumentInv, PlaceKept, DataKept, SentKept, PayloadsInOrder, RefusedRunsNothing
<1>2. CASE GraphQLNext BY <1>2, QuietKeeps, CheckKeeps, FieldKeeps DEF GraphQLNext
<1>3. QED BY <1>1, <1>2

LEMMA DocumentShown == DocumentInv => DocumentServed
<1> SUFFICES ASSUME DocumentInv PROVE DocumentServed OBVIOUS
<1>1. ASSUME outcome = "answered", after = "answer"
      PROVE  /\ DOMAIN data = {fields[i].key : i \in DOMAIN fields}
             /\ \A k \in DOMAIN data :
                  /\ \A i \in DOMAIN fields : fields[i].key = k => i <= data[k].index
                  /\ data[k].null = (data[k].index \in Range(errors))
  <2>1. index = Len(fields) + 1 /\ transport = "http" /\ fields \in Seq(AnyField(doc)) BY <1>1 DEF DocumentInv, PlaceKept
  <2>2. DOMAIN fields = 1 .. index - 1 BY <2>1
  <2>3. Range(errors) = ToSet(errors) BY DEF Range, ToSet
  <2>4. QED BY <1>1, <2>1, <2>2, <2>3 DEF DocumentInv, DataKept
<1>2. Answered BY <1>1 DEF Answered
<1>3. QED BY <1>2 DEF DocumentServed, DocumentInv, SentKept

\* Whatever hooks, guards, resolvers and subscriptions do or raise: a query that
\* is answered has every key, null where its last field failed; a subscription
\* sends its fields' payloads in order; a document beyond max_complexity runs no
\* resolver (GraphQLSchema).
THEOREM DocumentServedAlways == GraphQLSpec => []DocumentServed
<1>1. QED BY DocumentStarts, DocumentStep, DocumentShown, PTL DEF GraphQLSpec
=============================================================================
