---------------------------- MODULE PdlListProofs ----------------------------
(***************************************************************************)
(* Proofs about PdlList: for lists of any length the pointers always form  *)
(* a queue and a free list, and the operations are those of AbsList.       *)
(***************************************************************************)
EXTENDS PdlList, Integers, FiniteSetTheorems, WellFoundedInduction, TLAPS

(* IsQueue and IsFreeList, of any pointers.                                *)
QueueOf(q, b, e, nx, pv) ==
  /\ q \in Seq(Node) /\ Injective(q)
  /\ q = <<>> => b = Null /\ e = Null
  /\ q # <<>> => b = q[1] /\ e = q[Len(q)]
  /\ \A k \in 1 .. Len(q) - 1 : nx[q[k]] = q[k + 1] /\ pv[q[k + 1]] = q[k]

FreeOf(s, f, nx) ==
  /\ s \in Seq(Node) /\ Injective(s)
  /\ s = <<>> => f = Null
  /\ s # <<>> => f = s[1] /\ nx[s[Len(s)]] = Null
  /\ \A k \in 1 .. Len(s) - 1 : nx[s[k]] = s[k + 1]

Rest(s) == [i \in 1 .. Len(s) - 1 |-> s[i + 1]]
Cons(n, s) == [i \in 1 .. Len(s) + 1 |-> IF i = 1 THEN n ELSE s[i - 1]]

-----------------------------------------------------------------------------
(* Sequences of nodes.                                                     *)

LEMMA SeqFacts ==
  ASSUME NEW q \in Seq(Node)
  PROVE  /\ Len(q) \in Nat /\ DOMAIN q = 1 .. Len(q) /\ q \in [1 .. Len(q) -> Node]
         /\ q = <<>> <=> Len(q) = 0
         /\ \A k \in 1 .. Len(q) : q[k] \in Node /\ q[k] # Null /\ q[k] \in Nodes(q)
         /\ \A n \in Nodes(q) : \E k \in 1 .. Len(q) : n = q[k]
         /\ Nodes(q) \subseteq Node
<1>1. /\ Len(q) \in Nat /\ DOMAIN q = 1 .. Len(q) /\ q \in [1 .. Len(q) -> Node]
      /\ q = <<>> <=> Len(q) = 0
  OBVIOUS
<1>2. \A k \in 1 .. Len(q) : q[k] \in Node /\ q[k] # Null /\ q[k] \in Nodes(q)
  BY <1>1 DEF Nodes, Node, Null
<1> QED BY <1>1, <1>2 DEF Nodes

LEMMA FunctionSeq ==
  ASSUME NEW n \in Nat, NEW f \in [1 .. n -> Node]
  PROVE  f \in Seq(Node) /\ Len(f) = n /\ DOMAIN f = 1 .. n
OBVIOUS

(* A list without repetitions is no longer than the nodes are many.        *)
LEMMA PathFacts ==
  /\ \A q \in Path : q \in Seq(Node)
  /\ \A q \in Seq(Node) : Injective(q) => q \in Path /\ Len(q) <= Length
<1>1. ASSUME NEW q \in Path PROVE q \in Seq(Node)
  <2>1. PICK k \in 0 .. Length : q \in [1 .. k -> Node]
    BY DEF Path
  <2>2. k \in Nat
    BY ListAssumption
  <2> QED BY <2>1, <2>2, FunctionSeq
<1>2. ASSUME NEW q \in Seq(Node), Injective(q) PROVE q \in Path /\ Len(q) <= Length
  <2>1. Len(q) \in Nat /\ q \in [1 .. Len(q) -> Node] /\ DOMAIN q = 1 .. Len(q)
    BY SeqFacts
  <2>2. IsFiniteSet(Node) /\ Cardinality(Node) = Length
    BY ListAssumption, FS_Interval DEF Node
  <2>3. q \in Injection(1 .. Len(q), Node)
    BY <1>2, <2>1 DEF Injective, Injection, IsInjective
  <2>4. Cardinality(1 .. Len(q)) = Len(q)
    BY <2>1, FS_Interval
  <2>5. Len(q) <= Length
    BY <2>2, <2>3, <2>4, FS_Injection
  <2>6. Len(q) \in 0 .. Length
    BY <2>1, <2>5, ListAssumption
  <2> QED BY <2>1, <2>5, <2>6 DEF Path
<1> QED BY <1>1, <1>2

LEMMA QueueIs ==
  ASSUME NEW q
  PROVE  q \in Path /\ IsQueue(q) <=> QueueOf(q, beg, end, next, prev) /\ Len(q) = size
BY PathFacts DEF IsQueue, QueueOf

LEMMA FreeIs ==
  ASSUME NEW s
  PROVE  s \in Path /\ IsFreeList(s) <=> FreeOf(s, free_list, next)
BY PathFacts DEF IsFreeList, FreeOf

(* The free list and the queue under changes of pointers they do not use.  *)
LEMMA FreeFrame ==
  ASSUME NEW s, NEW f, NEW nx, NEW nx2, FreeOf(s, f, nx),
         \A n \in Nodes(s) : nx2[n] = nx[n]
  PROVE  FreeOf(s, f, nx2)
<1>1. s \in Seq(Node)
  BY DEF FreeOf
<1>2. \A k \in 1 .. Len(s) : nx2[s[k]] = nx[s[k]]
  BY <1>1, SeqFacts
<1>3. \A k \in 1 .. Len(s) - 1 : k \in 1 .. Len(s)
  BY <1>1, SeqFacts
<1>4. s # <<>> => Len(s) \in 1 .. Len(s)
  BY <1>1, SeqFacts
<1> QED BY <1>2, <1>3, <1>4 DEF FreeOf

LEMMA QueueFrame ==
  ASSUME NEW q, NEW b, NEW e, NEW nx, NEW nx2, NEW pv, NEW pv2, QueueOf(q, b, e, nx, pv),
         \A n \in Nodes(q) : nx2[n] = nx[n] /\ pv2[n] = pv[n]
  PROVE  QueueOf(q, b, e, nx2, pv2)
<1>1. q \in Seq(Node)
  BY DEF QueueOf
<1>2. \A k \in 1 .. Len(q) : nx2[q[k]] = nx[q[k]] /\ pv2[q[k]] = pv[q[k]]
  BY <1>1, SeqFacts
<1>3. \A k \in 1 .. Len(q) - 1 : k \in 1 .. Len(q) /\ k + 1 \in 1 .. Len(q)
  BY <1>1, SeqFacts
<1> QED BY <1>2, <1>3 DEF QueueOf

(* A node is taken from the front of the free list, or put there.          *)
LEMMA FreePop ==
  ASSUME NEW s, NEW f, NEW nx, FreeOf(s, f, nx), f # Null
  PROVE  /\ f \in Nodes(s) /\ FreeOf(Rest(s), nx[f], nx)
         /\ Nodes(Rest(s)) = Nodes(s) \ {f}
<1> DEFINE n == Len(s)
           r == Rest(s)
<1>1. s \in Seq(Node) /\ s # <<>> /\ n \in Nat /\ n > 0 /\ DOMAIN s = 1 .. n
  BY SeqFacts DEF FreeOf
<1>2. f = s[1] /\ 1 \in 1 .. n /\ n \in 1 .. n /\ n - 1 \in Nat
  BY <1>1 DEF FreeOf
<1>3. /\ \A k \in 1 .. n - 1 : k + 1 \in 1 .. n /\ k \in 1 .. n /\ k + 1 # 1
      /\ \A k \in 1 .. n : k = 1 \/ (k - 1 \in 1 .. n - 1 /\ (k - 1) + 1 = k)
  BY <1>1
<1>4. r \in [1 .. n - 1 -> Node] /\ \A k \in 1 .. n - 1 : r[k] = s[k + 1]
  BY <1>1, <1>3, SeqFacts DEF Rest
<1>5. r \in Seq(Node) /\ Len(r) = n - 1 /\ DOMAIN r = 1 .. n - 1
  BY <1>2, <1>4, FunctionSeq
<1> HIDE DEF n, r
<1>6. Injective(s) /\ \A j, k \in 1 .. n : s[j] = s[k] => j = k
  BY <1>1 DEF FreeOf, Injective
<1>7. Injective(r)
  <2> SUFFICES ASSUME NEW j \in 1 .. n - 1, NEW k \in 1 .. n - 1, r[j] = r[k] PROVE j = k
    BY <1>5 DEF Injective
  <2>1. j + 1 = k + 1
    BY <1>3, <1>4, <1>6
  <2> QED BY <2>1, <1>1
<1>8. Nodes(r) = Nodes(s) \ {f}
  <2>1. ASSUME NEW m \in Nodes(r) PROVE m \in Nodes(s) /\ m # f
    <3>1. PICK k \in 1 .. n - 1 : m = s[k + 1]
      BY <1>4, <1>5 DEF Nodes
    <3>2. k + 1 \in 1 .. n /\ k + 1 # 1
      BY <1>3
    <3>3. s[k + 1] # s[1]
      BY <1>2, <1>6, <3>2
    <3> QED BY <1>1, <1>2, <3>1, <3>2, <3>3 DEF Nodes
  <2>2. ASSUME NEW m \in Nodes(s), m # f PROVE m \in Nodes(r)
    <3>1. PICK k \in 1 .. n : m = s[k]
      BY <1>1 DEF Nodes
    <3>2. k - 1 \in 1 .. n - 1 /\ r[k - 1] = m
      BY <1>2, <1>3, <1>4, <2>2, <3>1
    <3> QED BY <1>5, <3>2 DEF Nodes
  <2> QED BY <2>1, <2>2
<1>9. r = <<>> => nx[f] = Null
  <2> SUFFICES ASSUME r = <<>> PROVE nx[f] = Null
    OBVIOUS
  <2>1. n = 1
    BY <1>1, <1>5, SeqFacts
  <2> QED BY <1>1, <1>2, <2>1 DEF FreeOf, n
<1>10. r # <<>> => nx[f] = r[1] /\ nx[r[n - 1]] = Null
  <2> SUFFICES ASSUME r # <<>> PROVE nx[f] = r[1] /\ nx[r[n - 1]] = Null
    OBVIOUS
  <2>1. n - 1 > 0 /\ n - 1 \in 1 .. n - 1 /\ 1 \in 1 .. n - 1 /\ (n - 1) + 1 = n
    BY <1>1, <1>2, <1>5, SeqFacts
  <2>2. r[1] = s[2] /\ r[n - 1] = s[n]
    BY <1>4, <2>1
  <2>3. nx[s[1]] = s[2] /\ nx[s[n]] = Null
    BY <1>1, <2>1 DEF FreeOf, n
  <2> QED BY <1>2, <2>2, <2>3
<1>11. \A k \in 1 .. (n - 1) - 1 : nx[r[k]] = r[k + 1]
  <2> TAKE k \in 1 .. (n - 1) - 1
  <2>1. k \in 1 .. n - 1 /\ k + 1 \in 1 .. n - 1
    BY <1>1
  <2>2. nx[s[k + 1]] = s[(k + 1) + 1]
    BY <2>1 DEF FreeOf, n
  <2> QED BY <1>4, <2>1, <2>2
<1> QED BY <1>2, <1>5, <1>1, <1>7, <1>8, <1>9, <1>10, <1>11 DEF FreeOf, r, Nodes

LEMMA FreePush ==
  ASSUME NEW s, NEW f, NEW nx, NEW nx2, NEW n \in Node, FreeOf(s, f, nx), n \notin Nodes(s),
         nx2[n] = f, \A m \in Nodes(s) : nx2[m] = nx[m]
  PROVE  FreeOf(Cons(n, s), n, nx2) /\ Nodes(Cons(n, s)) = Nodes(s) \cup {n}
<1> DEFINE l == Len(s)
           r == Cons(n, s)
<1>1. FreeOf(s, f, nx2) /\ s \in Seq(Node) /\ l \in Nat /\ DOMAIN s = 1 .. l
  BY FreeFrame, SeqFacts DEF FreeOf
<1>2. r \in [1 .. l + 1 -> Node] /\ r[1] = n /\ \A k \in 1 .. l : r[k + 1] = s[k]
  <2>1. \A k \in 1 .. l + 1 : k # 1 => k - 1 \in 1 .. l /\ s[k - 1] \in Node
    BY <1>1, SeqFacts
  <2>2. \A k \in 1 .. l : k + 1 \in 1 .. l + 1 /\ k + 1 # 1 /\ (k + 1) - 1 = k
    BY <1>1
  <2> QED BY <1>1, <2>1, <2>2 DEF Cons
<1>3. r \in Seq(Node) /\ Len(r) = l + 1 /\ DOMAIN r = 1 .. l + 1
  BY <1>1, <1>2, FunctionSeq
<1> HIDE DEF l, r
<1>4. /\ \A k \in 1 .. l : k + 1 \in 1 .. l + 1
      /\ \A k \in 1 .. l + 1 : k = 1 \/ (k - 1 \in 1 .. l /\ (k - 1) + 1 = k)
      /\ 1 \in 1 .. l + 1
  BY <1>1
<1>5. \A k \in 1 .. l + 1 : k = 1 \/ (k - 1 \in 1 .. l /\ r[k] = s[k - 1])
  BY <1>2, <1>4
<1>6. \A k \in 1 .. l : s[k] \in Nodes(s) /\ s[k] # n
  BY <1>1 DEF Nodes
<1>7. Injective(r)
  <2> SUFFICES ASSUME NEW j \in 1 .. l + 1, NEW k \in 1 .. l + 1, r[j] = r[k] PROVE j = k
    BY <1>3 DEF Injective
  <2>1. CASE j = 1 \/ k = 1
    BY <1>2, <1>5, <1>6, <2>1
  <2>2. CASE j # 1 /\ k # 1
    <3>1. j - 1 \in 1 .. l /\ k - 1 \in 1 .. l /\ s[j - 1] = s[k - 1]
      BY <1>5, <2>2
    <3>2. j - 1 = k - 1
      BY <1>1, <3>1 DEF FreeOf, Injective
    <3> QED BY <3>2, <1>1
  <2> QED BY <2>1, <2>2
<1>8. Nodes(r) = Nodes(s) \cup {n}
  <2>1. Nodes(r) \subseteq Nodes(s) \cup {n}
    <3> SUFFICES ASSUME NEW k \in 1 .. l + 1 PROVE r[k] \in Nodes(s) \cup {n}
      BY <1>3 DEF Nodes
    <3> QED BY <1>2, <1>5, <1>6
  <2>2. \A k \in 1 .. l : s[k] \in Nodes(r)
    BY <1>2, <1>3, <1>4 DEF Nodes
  <2>3. n \in Nodes(r)
    BY <1>2, <1>3, <1>4 DEF Nodes
  <2>4. \A m \in Nodes(s) : \E k \in 1 .. l : m = s[k]
    BY <1>1 DEF Nodes
  <2> QED BY <2>1, <2>2, <2>3, <2>4
<1>9. r # <<>> /\ r[1] = n
  BY <1>1, <1>2, <1>3, SeqFacts
<1>10. nx2[r[l + 1]] = Null
  <2>1. CASE l = 0
    <3>1. f = Null
      BY <1>1, <2>1, SeqFacts DEF FreeOf, l
    <3> QED BY <1>2, <2>1, <3>1
  <2>2. CASE l # 0
    <3>1. l \in 1 .. l /\ s # <<>>
      BY <1>1, <2>2, SeqFacts DEF l
    <3>2. nx2[s[l]] = Null
      BY <1>1, <3>1 DEF FreeOf, l
    <3> QED BY <1>2, <3>1, <3>2
  <2> QED BY <2>1, <2>2
<1>11. ASSUME NEW k \in 1 .. (l + 1) - 1 PROVE nx2[r[k]] = r[k + 1]
  <2>1. k \in 1 .. l /\ r[k + 1] = s[k] /\ k \in 1 .. l + 1
    BY <1>1, <1>2
  <2>2. CASE k = 1
    <3>1. s # <<>> /\ f = s[1]
      BY <1>1, <2>1, SeqFacts DEF FreeOf, l
    <3> QED BY <1>2, <2>1, <2>2, <3>1
  <2>3. CASE k # 1
    <3>1. k - 1 \in 1 .. l - 1 /\ (k - 1) + 1 = k /\ r[k] = s[k - 1]
      BY <1>1, <1>5, <2>1, <2>3
    <3>2. nx2[s[k - 1]] = s[(k - 1) + 1]
      BY <1>1, <3>1 DEF FreeOf, l
    <3> QED BY <2>1, <3>1, <3>2
  <2> QED BY <2>2, <2>3
<1> QED BY <1>3, <1>7, <1>8, <1>9, <1>10, <1>11 DEF FreeOf, r

(* The queue grows at its end, as AtEnd has it.                            *)
Attaches(n, b, e, nx, pv, b2, nx2, pv2) ==
  /\ b = Null => b2 = n /\ nx2 = nx /\ pv2 = pv
  /\ b # Null => /\ b2 = b /\ nx2[e] = n /\ pv2[n] = e
                 /\ \A m \in Node : /\ m # e => nx2[m] = nx[m]
                                    /\ m # n => pv2[m] = pv[m]

LEMMA QueueAppend ==
  ASSUME NEW q, NEW b, NEW e, NEW nx, NEW pv,
         NEW n \in Node, QueueOf(q, b, e, nx, pv), n \notin Nodes(q),
         NEW b2, NEW nx2, NEW pv2, Attaches(n, b, e, nx, pv, b2, nx2, pv2)
  PROVE  /\ QueueOf(Append(q, n), b2, n, nx2, pv2)
         /\ Len(Append(q, n)) = Len(q) + 1 /\ Nodes(Append(q, n)) = Nodes(q) \cup {n}
         /\ \A m \in Node : m \notin Nodes(q) => nx2[m] = nx[m]
<1> DEFINE l == Len(q)
           r == Append(q, n)
<1>1. q \in Seq(Node) /\ l \in Nat /\ DOMAIN q = 1 .. l
  BY SeqFacts DEF QueueOf
<1>2. /\ r \in Seq(Node) /\ Len(r) = l + 1 /\ DOMAIN r = 1 .. l + 1
      /\ r[l + 1] = n /\ \A k \in 1 .. l : r[k] = q[k]
  BY <1>1
<1>3. \A k \in 1 .. l : q[k] \in Node /\ q[k] \in Nodes(q) /\ q[k] # n
  BY <1>1, SeqFacts
<1>4. /\ b = Null <=> l = 0
      /\ l # 0 => b = q[1] /\ e = q[l] /\ l \in 1 .. l /\ 1 \in 1 .. l
  BY <1>1, SeqFacts DEF QueueOf
<1>5. \A j, k \in 1 .. l : q[j] = q[k] => j = k
  BY <1>1 DEF QueueOf, Injective
<1>6. \A k \in 1 .. l - 1 : nx[q[k]] = q[k + 1] /\ pv[q[k + 1]] = q[k]
  BY DEF QueueOf
<1> HIDE DEF l, r
<1>7. /\ \A k \in 1 .. l + 1 : k = l + 1 \/ k \in 1 .. l
      /\ \A k \in 1 .. l : k \in 1 .. l + 1
      /\ l + 1 \in 1 .. l + 1
  BY <1>1
<1>8. Injective(r)
  <2> SUFFICES ASSUME NEW j \in 1 .. l + 1, NEW k \in 1 .. l + 1, r[j] = r[k] PROVE j = k
    BY <1>2 DEF Injective
  <2> QED BY <1>2, <1>3, <1>5, <1>7
<1>9. Nodes(r) = Nodes(q) \cup {n}
  <2>1. Nodes(r) = {r[k] : k \in 1 .. l + 1} /\ Nodes(q) = {q[k] : k \in 1 .. l}
    BY <1>1, <1>2 DEF Nodes
  <2> QED BY <1>2, <1>7, <2>1
<1>10. r # <<>> /\ r[1] = b2
  BY <1>1, <1>2, <1>4, SeqFacts DEF Attaches
<1>11. ASSUME NEW k \in 1 .. (l + 1) - 1 PROVE nx2[r[k]] = r[k + 1] /\ pv2[r[k + 1]] = r[k]
  <2>1. k \in 1 .. l /\ r[k] = q[k] /\ l # 0 /\ b # Null /\ e = q[l] /\ q[l] \in Node
    BY <1>1, <1>2, <1>3, <1>4
  <2>2. CASE k = l
    <3>1. nx2[e] = n /\ pv2[n] = e
      BY <2>1 DEF Attaches
    <3> QED BY <1>2, <2>1, <2>2, <3>1
  <2>3. CASE k # l
    <3>1. k \in 1 .. l - 1 /\ k + 1 \in 1 .. l /\ l \in 1 .. l
      BY <1>1, <2>1, <2>3
    <3>2. q[k] # e /\ q[k + 1] # n /\ r[k + 1] = q[k + 1]
      BY <1>2, <1>3, <1>5, <2>1, <2>3, <3>1
    <3>3. nx2[q[k]] = nx[q[k]] /\ pv2[q[k + 1]] = pv[q[k + 1]]
      BY <1>3, <2>1, <3>1, <3>2 DEF Attaches
    <3> QED BY <1>6, <2>1, <3>1, <3>2, <3>3
  <2> QED BY <2>2, <2>3
<1>12. \A m \in Node : m \notin Nodes(q) => nx2[m] = nx[m]
  BY <1>3, <1>4 DEF Attaches
<1> QED BY <1>2, <1>8, <1>9, <1>10, <1>11, <1>12 DEF QueueOf, r, l

(* The node at k leaves the queue; its neighbours, if it has two, are      *)
(* linked with each other and no other pointer matters.                    *)
Removes(q, k, b2, e2, nx2, pv2) ==
  /\ Len(q) = 1 => b2 = Null /\ e2 = Null
  /\ Len(q) # 1 => /\ b2 = IF k = 1 THEN q[2] ELSE q[1]
                   /\ e2 = IF k = Len(q) THEN q[Len(q) - 1] ELSE q[Len(q)]
  /\ \A j \in 1 .. Len(q) - 1 : j # k /\ j + 1 # k =>
       nx2[q[j]] = q[j + 1] /\ pv2[q[j + 1]] = q[j]
  /\ 1 < k /\ k < Len(q) => nx2[q[k - 1]] = q[k + 1] /\ pv2[q[k + 1]] = q[k - 1]

LEMMA QueueRemove ==
  ASSUME NEW q, NEW b, NEW e, NEW nx, NEW pv, QueueOf(q, b, e, nx, pv),
         NEW k \in 1 .. Len(q), NEW b2, NEW e2, NEW nx2, NEW pv2,
         Removes(q, k, b2, e2, nx2, pv2)
  PROVE  /\ QueueOf(Abs!Without(q, k), b2, e2, nx2, pv2)
         /\ Len(Abs!Without(q, k)) = Len(q) - 1
         /\ Nodes(Abs!Without(q, k)) = Nodes(q) \ {q[k]}
<1> DEFINE l == Len(q)
           r == Abs!Without(q, k)
<1>1. q \in Seq(Node) /\ l \in Nat /\ l > 0 /\ DOMAIN q = 1 .. l
  BY SeqFacts DEF QueueOf
<1>2. \A i \in 1 .. l - 1 : /\ i \in 1 .. l /\ i + 1 \in 1 .. l
                            /\ r[i] = IF i < k THEN q[i] ELSE q[i + 1]
  BY <1>1 DEF Abs!Without
<1>3. r \in [1 .. l - 1 -> Node]
  <2>1. \A i \in 1 .. l - 1 : q[i] \in Node /\ q[i + 1] \in Node
    BY <1>1, <1>2, SeqFacts
  <2> QED BY <2>1 DEF Abs!Without
<1>4. r \in Seq(Node) /\ Len(r) = l - 1 /\ DOMAIN r = 1 .. l - 1
  <2> HIDE DEF l, r
  <2>1. l - 1 \in Nat
    BY <1>1
  <2> QED BY <1>3, <2>1, FunctionSeq
<1>5. \A i, j \in 1 .. l : q[i] = q[j] => i = j
  BY <1>1 DEF QueueOf, Injective
<1>6. k \in 1 .. l
  OBVIOUS
<1>7. l # 1 => b2 = (IF k = 1 THEN q[2] ELSE q[1]) /\ e2 = (IF k = l THEN q[l - 1] ELSE q[l])
  BY DEF Removes
<1>8. l = 1 => b2 = Null /\ e2 = Null
  BY DEF Removes
<1>9. \A j \in 1 .. l - 1 : j # k /\ j + 1 # k => nx2[q[j]] = q[j + 1] /\ pv2[q[j + 1]] = q[j]
  BY DEF Removes
<1>10. 1 < k /\ k < l => nx2[q[k - 1]] = q[k + 1] /\ pv2[q[k + 1]] = q[k - 1]
  BY DEF Removes
<1> HIDE DEF l, r
<1>11. Injective(r)
  <2> SUFFICES ASSUME NEW i \in 1 .. l - 1, NEW j \in 1 .. l - 1, r[i] = r[j] PROVE i = j
    BY <1>4 DEF Injective
  <2>1. CASE i < k /\ j < k
    BY <1>2, <1>5, <2>1
  <2>2. CASE i < k /\ ~(j < k)
    <3>1. i = j + 1
      BY <1>2, <1>5, <2>2
    <3> QED BY <1>1, <1>6, <2>2, <3>1
  <2>3. CASE ~(i < k) /\ j < k
    <3>1. i + 1 = j
      BY <1>2, <1>5, <2>3
    <3> QED BY <1>1, <1>6, <2>3, <3>1
  <2>4. CASE ~(i < k) /\ ~(j < k)
    <3>1. i + 1 = j + 1
      BY <1>2, <1>5, <2>4
    <3> QED BY <1>1, <3>1
  <2> QED BY <2>1, <2>2, <2>3, <2>4
<1>12. Nodes(r) = Nodes(q) \ {q[k]}
  <2>1. ASSUME NEW i \in 1 .. l - 1 PROVE \E j \in 1 .. l : r[i] = q[j] /\ j # k
    <3>1. CASE i < k
      BY <1>2, <1>1, <1>6, <3>1
    <3>2. CASE ~(i < k)
      <4>1. i + 1 # k
        BY <1>1, <1>6, <3>2
      <4> QED BY <1>2, <3>2, <4>1
    <3> QED BY <3>1, <3>2
  <2>2. ASSUME NEW j \in 1 .. l, j # k PROVE \E i \in 1 .. l - 1 : r[i] = q[j]
    <3>1. CASE j < k
      <4>1. j \in 1 .. l - 1
        BY <1>1, <1>6, <3>1
      <4> QED BY <1>2, <3>1, <4>1
    <3>2. CASE ~(j < k)
      <4>1. j - 1 \in 1 .. l - 1 /\ ~(j - 1 < k) /\ (j - 1) + 1 = j
        BY <1>1, <1>6, <2>2, <3>2
      <4> QED BY <1>2, <4>1
    <3> QED BY <3>1, <3>2
  <2>3. Nodes(r) \subseteq Nodes(q) \ {q[k]}
    <3> SUFFICES ASSUME NEW i \in 1 .. l - 1 PROVE r[i] \in Nodes(q) \ {q[k]}
      BY <1>4 DEF Nodes
    <3>1. PICK j \in 1 .. l : r[i] = q[j] /\ j # k
      BY <2>1
    <3>2. q[j] # q[k]
      BY <1>5, <1>6, <3>1
    <3> QED BY <1>1, <3>1, <3>2 DEF Nodes
  <2>4. Nodes(q) \ {q[k]} \subseteq Nodes(r)
    <3> SUFFICES ASSUME NEW j \in 1 .. l, j # k PROVE q[j] \in Nodes(r)
      BY <1>1 DEF Nodes
    <3>1. PICK i \in 1 .. l - 1 : r[i] = q[j]
      BY <2>2
    <3> QED BY <1>4, <3>1 DEF Nodes
  <2> QED BY <2>3, <2>4
<1>13. CASE l = 1
  <2>1. r = <<>> /\ 1 .. (l - 1) - 1 = {}
    BY <1>4, <1>13, SeqFacts
  <2> QED BY <1>4, <1>8, <1>11, <1>12, <1>13, <2>1 DEF QueueOf, r, l
<1>14. CASE l # 1
  <2>1. /\ l > 1 /\ r # <<>> /\ 1 \in 1 .. l - 1 /\ l - 1 \in 1 .. l - 1
        /\ 1 + 1 = 2 /\ (l - 1) + 1 = l
    <3>1. /\ l > 1 /\ 1 \in 1 .. l - 1 /\ l - 1 \in 1 .. l - 1 /\ l - 1 # 0
          /\ 1 + 1 = 2 /\ (l - 1) + 1 = l
      BY <1>1, <1>14
    <3>2. r # <<>>
      BY <1>4, <3>1, SeqFacts
    <3> QED BY <3>1, <3>2
  <2>2. r[1] = b2
    <3>1. k = 1 \/ 1 < k
      BY <1>1, <1>6
    <3>2. r[1] = IF 1 < k THEN q[1] ELSE q[2]
      BY <1>2, <2>1
    <3> QED BY <1>7, <2>1, <3>1, <3>2
  <2>3. r[l - 1] = e2
    <3>1. l - 1 < k <=> k = l
      BY <1>1, <1>6
    <3>2. r[l - 1] = IF l - 1 < k THEN q[l - 1] ELSE q[l]
      BY <1>2, <2>1
    <3> QED BY <1>7, <2>1, <3>1, <3>2
  <2>4. ASSUME NEW i \in 1 .. (l - 1) - 1 PROVE nx2[r[i]] = r[i + 1] /\ pv2[r[i + 1]] = r[i]
    <3>1. i \in 1 .. l - 1 /\ i + 1 \in 1 .. l - 1
      BY <1>1
    <3>2. /\ r[i] = IF i < k THEN q[i] ELSE q[i + 1]
          /\ r[i + 1] = IF i + 1 < k THEN q[i + 1] ELSE q[(i + 1) + 1]
      BY <1>2, <3>1
    <3>3. CASE i + 1 < k
      <4>1. i < k /\ i # k /\ i + 1 # k
        BY <1>1, <1>6, <3>1, <3>3
      <4> QED BY <1>9, <3>1, <3>2, <3>3, <4>1
    <3>4. CASE i + 1 = k
      <4>1. i < k /\ ~(i + 1 < k) /\ i = k - 1 /\ 1 < k /\ k < l
        BY <1>1, <1>6, <3>1, <3>4
      <4> QED BY <1>10, <3>2, <3>4, <4>1
    <3>5. CASE ~(i < k)
      <4>1. ~(i + 1 < k) /\ i + 1 # k /\ (i + 1) + 1 # k
        BY <1>1, <1>6, <3>1, <3>5
      <4> QED BY <1>9, <3>1, <3>2, <3>5, <4>1
    <3> QED BY <1>1, <1>6, <3>1, <3>3, <3>4, <3>5
  <2> QED BY <1>4, <1>11, <1>12, <2>1, <2>2, <2>3, <2>4 DEF QueueOf, r, l
<1> QED BY <1>13, <1>14

-----------------------------------------------------------------------------
(* What a caller that follows next from beg to end finds is the queue.     *)
LEMMA WalkIs ==
  ASSUME NEW q, QueueOf(q, beg, end, next, prev)
  PROVE  Walk = [k \in Node |-> IF k <= Len(q) THEN q[k] ELSE Null]
<1> DEFINE W == [k \in Node |-> IF k <= Len(q) THEN q[k] ELSE Null]
           Step(f) == [k \in Node |-> IF k = 1 THEN beg
                                      ELSE LET n == f[k - 1]
                                           IN  IF n \in {end, Null} THEN Null ELSE next[n]]
<1>1. Walk = CHOOSE at : at = Step(at)
  BY DEF Walk
<1>2. q \in Seq(Node) /\ Len(q) \in Nat
  BY SeqFacts DEF QueueOf
<1>3. \A k \in Node : k \in Nat /\ k > 0 /\ (k # 1 => k - 1 \in Node)
  BY ListAssumption DEF Node
<1>4. ASSUME NEW k \in Node, k # 1
      PROVE  W[k] = IF W[k - 1] \in {end, Null} THEN Null ELSE next[W[k - 1]]
  <2>1. k \in Nat /\ k > 1 /\ k - 1 \in Node /\ k - 1 > 0 /\ (k - 1) + 1 = k
    BY <1>3, <1>4
  <2>2. CASE k <= Len(q)
    <3>1. /\ k \in 1 .. Len(q) /\ k - 1 \in 1 .. Len(q) - 1 /\ k - 1 \in 1 .. Len(q)
          /\ Len(q) \in 1 .. Len(q) /\ k - 1 # Len(q)
      BY <1>2, <2>1, <2>2
    <3>2. W[k] = q[k] /\ W[k - 1] = q[k - 1]
      BY <2>1, <3>1
    <3>3. q[k - 1] # end /\ q[k - 1] # Null
      <4>1. q # <<>> /\ DOMAIN q = 1 .. Len(q) /\ q[k - 1] # Null
        BY <1>2, <3>1, SeqFacts
      <4> QED BY <3>1, <4>1 DEF QueueOf, Injective
    <3>4. next[q[k - 1]] = q[k]
      BY <2>1, <3>1 DEF QueueOf
    <3> QED BY <3>2, <3>3, <3>4
  <2>3. CASE k = Len(q) + 1
    <3>1. k - 1 = Len(q) /\ q # <<>> /\ ~(k <= Len(q)) /\ k - 1 <= Len(q)
      BY <1>2, <2>1, <2>3, SeqFacts
    <3>2. W[k] = Null /\ W[k - 1] = q[Len(q)]
      BY <2>1, <3>1
    <3> QED BY <3>1, <3>2 DEF QueueOf
  <2>4. CASE k > Len(q) + 1
    <3>1. ~(k <= Len(q)) /\ ~(k - 1 <= Len(q))
      BY <1>2, <2>1, <2>4
    <3>2. W[k] = Null /\ W[k - 1] = Null
      BY <2>1, <3>1
    <3> QED BY <3>2
  <2> QED BY <1>2, <2>1, <2>2, <2>3, <2>4
<1>5. ASSUME 1 \in Node PROVE W[1] = beg
  <2>1. CASE Len(q) = 0
    <3>1. ~(1 <= Len(q)) /\ q = <<>>
      BY <1>2, <2>1, SeqFacts
    <3> QED BY <1>5, <3>1 DEF QueueOf
  <2>2. CASE Len(q) # 0
    <3>1. 1 <= Len(q) /\ q # <<>>
      BY <1>2, <2>2, SeqFacts
    <3> QED BY <1>5, <3>1 DEF QueueOf
  <2> QED BY <2>1, <2>2
<1>6. W \in [Node -> Pointer]
  <2>1. \A k \in Node : k <= Len(q) => q[k] \in Node
    BY <1>2, <1>3, SeqFacts
  <2> QED BY <2>1 DEF Pointer
<1>7. DOMAIN W = Node
  OBVIOUS
<1> HIDE DEF W
<1>8. W = Step(W)
  <2>1. \A k \in Node : W[k] = Step(W)[k]
    BY <1>4, <1>5
  <2> QED BY <1>6, <2>1
<1>9. Walk = Step(Walk)
  BY <1>1, <1>8
<1>10. ASSUME NEW k \in Node, k # 1, Walk[k - 1] = W[k - 1] PROVE Walk[k] = W[k]
  <2>1. Walk[k] = IF Walk[k - 1] \in {end, Null} THEN Null ELSE next[Walk[k - 1]]
    BY <1>9, <1>10
  <2> QED BY <1>4, <1>10, <2>1
<1>11. ASSUME NEW k \in Node, Walk[k] # W[k] PROVE FALSE
  <2> DEFINE T == {n \in Node : Walk[n] # W[n]}
  <2>1. T \subseteq Nat /\ T # {}
    BY <1>3, <1>11
  <2>2. PICK m \in T : \A p \in T : <<p, m>> \notin OpToRel(<, Nat)
    BY <2>1, NatLessThanWellFounded, WFMin
  <2>3. ASSUME NEW p \in T PROVE m <= p
    <3>1. <<p, m>> \notin {ss \in Nat \X Nat : ss[1] < ss[2]}
      BY <2>2 DEF OpToRel
    <3>2. p \in Nat /\ m \in Nat
      BY <2>1
    <3> QED BY <3>1, <3>2
  <2>4. m \in Node /\ Walk[m] # W[m] /\ m \in Nat
    BY <1>3
  <2>5. m # 1
    BY <1>5, <1>9, <2>4
  <2>6. m - 1 \in Node /\ ~(m <= m - 1)
    BY <1>3, <2>4, <2>5
  <2>7. m - 1 \notin T
    BY <2>3, <2>6
  <2> QED BY <1>10, <2>4, <2>5, <2>6, <2>7
<1>12. Walk \in [Node -> Pointer] \/ DOMAIN Walk = Node
  BY <1>9
<1>13. Walk = [k \in Node |-> Walk[k]]
  BY <1>9
<1>14. W = [k \in Node |-> W[k]]
  BY <1>6
<1>15. Walk = W
  BY <1>11, <1>13, <1>14
<1> QED BY <1>15 DEF W

LEMMA CountTo ==
  ASSUME NEW n \in Nat
  PROVE  Cardinality(1 .. n) = n
BY FS_Interval

LEMMA LinkedIs ==
  ASSUME NEW q, QueueOf(q, beg, end, next, prev)
  PROVE  Linked = Nodes(q) /\ Reached = q
<1>1. Walk = [k \in Node |-> IF k <= Len(q) THEN q[k] ELSE Null]
  BY WalkIs
<1>2. q \in Seq(Node) /\ Len(q) \in Nat /\ Len(q) <= Length
  BY SeqFacts, PathFacts DEF QueueOf
<1>3. \A k \in Node : k \in Nat /\ k > 0 /\ (k <= Len(q) <=> k \in 1 .. Len(q))
  BY <1>2, ListAssumption DEF Node
<1>4. \A k \in 1 .. Len(q) : k \in Node
  BY <1>2, ListAssumption DEF Node
<1>5. \A k \in 1 .. Len(q) : Walk[k] = q[k]
  BY <1>1, <1>3, <1>4
<1>6. \A k \in Node : k \notin 1 .. Len(q) => Walk[k] = Null
  BY <1>1, <1>3
<1>7. Linked = Nodes(q)
  <2>1. Null \notin Node
    BY <1>3 DEF Null
  <2>2. Nodes(q) = {q[k] : k \in 1 .. Len(q)} /\ Nodes(q) \subseteq Node
    BY <1>2, SeqFacts DEF Nodes
  <2> QED BY <1>4, <1>5, <1>6, <2>1, <2>2 DEF Linked
<1>8. {k \in Node : Walk[k] # Null} = 1 .. Len(q)
  <2>1. \A k \in 1 .. Len(q) : q[k] # Null
    BY <1>2, SeqFacts
  <2> QED BY <1>4, <1>5, <1>6, <2>1
<1>9. Cardinality(1 .. Len(q)) = Len(q)
  BY <1>2, CountTo
<1>10. Walk \in [1 .. Length -> Pointer]
  <2>1. \A k \in Node : Walk[k] \in Pointer
    BY <1>2, <1>5, <1>6, SeqFacts DEF Pointer
  <2> QED BY <1>1, <2>1 DEF Node
<1>11. SubSeq(Walk, 1, Len(q)) = q
  <2>1. /\ Len(Walk) = Length /\ Walk \in Seq(Pointer)
    BY <1>10, ListAssumption
  <2>2. /\ SubSeq(Walk, 1, Len(q)) \in Seq(Pointer) /\ Len(SubSeq(Walk, 1, Len(q))) = Len(q)
        /\ \A k \in 1 .. Len(q) : SubSeq(Walk, 1, Len(q))[k] = Walk[k]
    BY <1>2, <2>1
  <2>3. q \in Seq(Pointer)
    BY <1>2 DEF Pointer
  <2> QED BY <1>2, <1>5, <2>2, <2>3
<1> QED BY <1>7, <1>8, <1>9, <1>11 DEF Reached

-----------------------------------------------------------------------------
(* Types hold whatever callers unlink.                                     *)

LEMMA TypesInit == Init => TypeOK
<1> SUFFICES ASSUME Init PROVE TypeOK
  OBVIOUS
<1>1. 1 \in Node /\ Null \in Pointer
  BY ListAssumption DEF Node, Pointer
<1>2. ASSUME NEW n \in Node PROVE (IF n < Length THEN n + 1 ELSE Null) \in Pointer
  BY ListAssumption DEF Node, Pointer
<1>3. next \in [Node -> Pointer] /\ prev \in [Node -> Pointer]
  BY <1>1, <1>2 DEF Init
<1>4. 0 \in 0 .. Width - 1 /\ 0 \in 0 .. MaxAfter
  BY ListAssumption
<1> QED BY <1>1, <1>3, <1>4 DEF Init, TypeOK, Pointer

LEMMA AtEndTypes ==
  ASSUME TypeOK, NEW n \in Node, ~NoEnd, AtEnd(n)
  PROVE  {beg, end}' \subseteq Pointer /\ (next \in [Node -> Pointer])' /\ (prev \in [Node -> Pointer])'
<1> USE DEF TypeOK, Pointer
<1>1. beg' \in Pointer /\ end' \in Pointer
  BY DEF AtEnd
<1>2. (next \in [Node -> Pointer])'
  BY DEF AtEnd
<1>3. (prev \in [Node -> Pointer])'
  BY DEF AtEnd
<1> QED BY <1>1, <1>2, <1>3

LEMMA ToFreeTypes ==
  ASSUME TypeOK, NEW n \in Node, NEW nexts \in [Node -> Pointer], ToFree(n, nexts)
  PROVE  /\ (free_list \in Pointer)' /\ (next \in [Node -> Pointer])'
         /\ (size \in 0 .. Width - 1)' /\ (held \subseteq Node)'
<1>1. (size + Width - 1) % Width \in 0 .. Width - 1
  BY ListAssumption DEF TypeOK
<1>2. (next \in [Node -> Pointer])'
  BY DEF ToFree, TypeOK
<1> QED BY <1>1, <1>2 DEF ToFree, TypeOK, Pointer

LEMMA UnlinkTypes ==
  ASSUME TypeOK, NEW n \in Node, NodeUnlink(n), (after \in 0 .. MaxAfter)'
  PROVE  TypeOK'
<1>1. CASE UnlinkFirst(n)
  <2>1. {beg, end}' \subseteq Pointer /\ (prev \in [Node -> Pointer])'
    BY <1>1 DEF UnlinkFirst, TypeOK, Pointer
  <2>2. ToFree(n, next) /\ (crashed \in BOOLEAN)'
    BY <1>1 DEF UnlinkFirst, TypeOK
  <2>3. next \in [Node -> Pointer]
    BY DEF TypeOK
  <2> QED BY <2>1, <2>2, <2>3, ToFreeTypes DEF TypeOK
<1>2. CASE UnlinkLast(n)
  <2>1. {beg, end}' \subseteq Pointer /\ (prev \in [Node -> Pointer])'
    BY <1>2 DEF UnlinkLast, TypeOK, Pointer
  <2>2. ToFree(n, next) /\ (crashed \in BOOLEAN)'
    BY <1>2 DEF UnlinkLast, TypeOK
  <2>3. next \in [Node -> Pointer]
    BY DEF TypeOK
  <2> QED BY <2>1, <2>2, <2>3, ToFreeTypes DEF TypeOK
<1>3. CASE UnlinkMiddle(n)
  <2>1. CASE next[n] = Null
    BY <1>3, <2>1 DEF UnlinkMiddle, TypeOK
  <2>2. CASE next[n] # Null
    <3> DEFINE nexts == [next EXCEPT ![prev[n]] = next[n]]
    <3>1. nexts \in [Node -> Pointer]
      BY DEF TypeOK
    <3>2. ToFree(n, nexts) /\ UNCHANGED <<beg, end, crashed>>
          /\ prev' = [prev EXCEPT ![next[n]] = prev[n], ![n] = Null]
      BY <1>3, <2>2 DEF UnlinkMiddle
    <3>3. (prev \in [Node -> Pointer])'
      BY <3>2 DEF TypeOK, Pointer
    <3> QED BY <3>1, <3>2, <3>3, ToFreeTypes DEF TypeOK
  <2> QED BY <2>1, <2>2
<1>4. CASE UnlinkAbsent(n)
  BY <1>4 DEF UnlinkAbsent, listVars, TypeOK
<1> QED BY <1>1, <1>2, <1>3, <1>4 DEF NodeUnlink

LEMMA CallTypes ==
  ASSUME TypeOK, NEW contract, Call(contract)
  PROVE  (after \in 0 .. MaxAfter)'
BY ListAssumption DEF Call, TypeOK

LEMMA TypesKept == TypeOK /\ [Next]_vars => TypeOK'
<1> SUFFICES ASSUME TypeOK, [Next]_vars PROVE TypeOK'
  OBVIOUS
<1>1. CASE UNCHANGED vars
  BY <1>1 DEF vars, listVars, TypeOK
<1>2. (size + 1) % Width \in 0 .. Width - 1
  BY ListAssumption DEF TypeOK
<1>3. ASSUME NodeAdd, (after \in 0 .. MaxAfter)' PROVE TypeOK'
  <2>1. free_list \in Node /\ next[free_list] \in Pointer
    BY <1>3 DEF NodeAdd, TypeOK, Pointer
  <2>2. {beg, end}' \subseteq Pointer /\ (next \in [Node -> Pointer])' /\ (prev \in [Node -> Pointer])'
    BY <1>3, <2>1, AtEndTypes DEF NodeAdd
  <2> QED BY <1>2, <1>3, <2>1, <2>2 DEF NodeAdd, TypeOK
<1>4. ASSUME NodeAlloc, (after \in 0 .. MaxAfter)' PROVE TypeOK'
  BY <1>4 DEF NodeAlloc, TypeOK, Pointer
<1>5. ASSUME CrashAtEnd, (after \in 0 .. MaxAfter)' PROVE TypeOK'
  BY <1>5 DEF CrashAtEnd, TypeOK
<1>6. ASSUME NodeAdd2Fails, (after \in 0 .. MaxAfter)' PROVE TypeOK'
  BY <1>6 DEF NodeAdd2Fails, TypeOK, Pointer
<1>7. ASSUME NEW n \in Node, NodeLinkBack(n), (after \in 0 .. MaxAfter)' PROVE TypeOK'
  <2>1. {beg, end}' \subseteq Pointer /\ (next \in [Node -> Pointer])' /\ (prev \in [Node -> Pointer])'
    BY <1>7, AtEndTypes DEF NodeLinkBack
  <2> QED BY <1>2, <1>7, <2>1 DEF NodeLinkBack, TypeOK
<1>8. CASE Next
  <2>1. Linked \subseteq Node
    BY DEF Linked
  <2> QED BY <1>3, <1>4, <1>5, <1>6, <1>7, <1>8, <2>1, CallTypes, UnlinkTypes DEF Next
<1> QED BY <1>1, <1>8

(* Every pointer is null or a node, whatever callers have done.            *)
THEOREM TypeCorrect == Spec => []TypeOK
<1> QED BY TypesInit, TypesKept, PTL DEF Spec

-----------------------------------------------------------------------------
(* What the pointers always form while the contract is kept: the queue q   *)
(* and the free list s.                                                    *)
Shape(q, s) ==
  /\ QueueOf(q, beg, end, next, prev) /\ Len(q) = size
  /\ FreeOf(s, free_list, next)
  /\ Partition(Nodes(q), Nodes(s), held)

(* What a step of the contract does to the queue: a step of AbsList.       *)
QueueStep(q, p) ==
  \E n \in Node :
    \/ n \notin Nodes(q) \cup held /\ p = Append(q, n) /\ UNCHANGED held
    \/ n \notin Nodes(q) \cup held /\ p = q /\ held' = held \cup {n}
    \/ n \in held /\ p = Append(q, n) /\ held' = held \ {n}
    \/ \E k \in DOMAIN q : q[k] = n /\ p = Abs!Without(q, k) /\ UNCHANGED held

Follows(q) == ~crashed' /\ \E p, r : Shape(p, r)' /\ QueueStep(q, p)

LEMMA WellFormedIs == IsWellFormed <=> ~crashed /\ \E q, s : Shape(q, s)
BY QueueIs, FreeIs DEF IsWellFormed, Shape

LEMMA SizeMod ==
  ASSUME NEW a \in Nat, NEW w \in Nat
  PROVE  /\ a + 1 < w => (a + 1) % w = a + 1
         /\ a > 0 /\ a < w => (a + w - 1) % w = a - 1
<1>1. CASE a + 1 < w
  BY <1>1
<1>2. CASE a > 0 /\ a < w
  <2>1. a + w - 1 = w + (a - 1) /\ a - 1 \in 0 .. w - 1
    BY <1>2
  <2> QED BY <1>2, <2>1
<1> QED BY <1>1, <1>2

(* No queue has an end and no beginning.                                   *)
LEMMA HasEnd ==
  ASSUME NEW q, NEW s, Shape(q, s)
  PROVE  ~NoEnd
<1>1. q \in Seq(Node) /\ QueueOf(q, beg, end, next, prev)
  BY DEF Shape, QueueOf
<1>2. q # <<>> => Len(q) \in 1 .. Len(q)
  BY <1>1, SeqFacts
<1> QED BY <1>1, <1>2, SeqFacts DEF NoEnd, QueueOf

(* AtEnd of a node that is in neither list, next and the free list f.      *)
LEMMA AppendStep ==
  ASSUME TypeOK, NEW q, NEW s, NEW f, QueueOf(q, beg, end, next, prev), Len(q) = size,
         FreeOf(s, f, next), NEW n \in Node, n \notin Nodes(q), n \notin Nodes(s),
         Nodes(q) \cap Nodes(s) = {}, AtEnd(n), size' = (size + 1) % Width
  PROVE  /\ QueueOf(Append(q, n), beg', end', next', prev') /\ Len(Append(q, n)) = size'
         /\ FreeOf(s, f, next') /\ Nodes(Append(q, n)) = Nodes(q) \cup {n}
<1>1. next \in [Node -> Pointer] /\ prev \in [Node -> Pointer]
  BY DEF TypeOK
<1>2. /\ QueueOf(Append(q, n), beg', end', next', prev')
      /\ Len(Append(q, n)) = Len(q) + 1 /\ Nodes(Append(q, n)) = Nodes(q) \cup {n}
      /\ \A m \in Node : m \notin Nodes(q) => next'[m] = next[m]
  <2>1. Attaches(n, beg, end, next, prev, beg', next', prev') /\ end' = n
    <3>1. beg # Null => end \in Node
      <4>1. q \in Seq(Node) /\ (q # <<>> => Len(q) \in 1 .. Len(q))
        BY SeqFacts DEF QueueOf
      <4> QED BY <4>1, SeqFacts DEF QueueOf
    <3> QED BY <1>1, <3>1 DEF AtEnd, Attaches
  <2>2. /\ QueueOf(Append(q, n), beg', n, next', prev')
        /\ Len(Append(q, n)) = Len(q) + 1 /\ Nodes(Append(q, n)) = Nodes(q) \cup {n}
        /\ \A m \in Node : m \notin Nodes(q) => next'[m] = next[m]
    BY <1>1, <2>1, QueueAppend
  <2> QED BY <2>1, <2>2
<1>3. s \in Seq(Node) /\ Append(q, n) \in Seq(Node) /\ Injective(Append(q, n))
  BY <1>2 DEF FreeOf, QueueOf
<1>4. FreeOf(s, f, next')
  BY <1>2, <1>3, SeqFacts, FreeFrame
<1>5. size \in Nat /\ Len(Append(q, n)) = size + 1 /\ size + 1 <= Length
  <2>1. Len(Append(q, n)) <= Length
    BY <1>3, PathFacts
  <2>2. size \in Nat
    BY ListAssumption DEF TypeOK
  <2> QED BY <1>2, <2>1, <2>2
<1>6. size' = size + 1
  <2>1. size + 1 < Width /\ Width \in Nat
    BY <1>5, ListAssumption
  <2>2. (size + 1) % Width = size + 1
    BY <1>5, <2>1, SizeMod
  <2> QED BY <2>2
<1> QED BY <1>2, <1>4, <1>5, <1>6

LEMMA AddStep ==
  ASSUME TypeOK, ~crashed, NEW q, NEW s, Shape(q, s), NodeAdd
  PROVE  Follows(q)
<1>1. PICK n \in Node : n = free_list
  BY DEF NodeAdd, TypeOK, Pointer
<1>2. /\ n \in Nodes(s) /\ FreeOf(Rest(s), next[n], next) /\ Nodes(Rest(s)) = Nodes(s) \ {n}
  BY <1>1, FreePop DEF Shape, NodeAdd
<1>3. n \notin Nodes(q) /\ n \notin held /\ Nodes(q) \cap Nodes(s) = {}
  BY <1>2 DEF Shape, Partition
<1>4. /\ QueueOf(Append(q, n), beg', end', next', prev') /\ Len(Append(q, n)) = size'
      /\ FreeOf(Rest(s), next[n], next') /\ Nodes(Append(q, n)) = Nodes(q) \cup {n}
  BY <1>1, <1>2, <1>3, AppendStep DEF Shape, NodeAdd
<1>5. free_list' = next[n] /\ held' = held /\ ~crashed'
  <2>1. q \in Seq(Node) /\ (q # <<>> => Len(q) \in DOMAIN q)
    BY SeqFacts DEF Shape, QueueOf
  <2>2. beg # Null => end \in Nodes(q)
    BY <2>1 DEF Shape, QueueOf, Nodes
  <2>3. next'[n] = next[n]
    BY <1>1, <1>3, <2>2 DEF NodeAdd, AtEnd, TypeOK
  <2> QED BY <1>1, <2>3 DEF NodeAdd
<1>6. Partition(Nodes(Append(q, n)), Nodes(Rest(s)), held')
  BY <1>2, <1>3, <1>4, <1>5 DEF Shape, Partition
<1>7. QueueStep(q, Append(q, n))
  BY <1>3, <1>5 DEF QueueStep
<1>8. PICK p, r : p = Append(q, n) /\ r = Rest(s)
  OBVIOUS
<1>9. Shape(p, r)'
  BY <1>4, <1>5, <1>6, <1>8 DEF Shape
<1> QED BY <1>5, <1>7, <1>8, <1>9 DEF Follows

LEMMA AllocStep ==
  ASSUME TypeOK, ~crashed, NEW q, NEW s, Shape(q, s), NodeAlloc
  PROVE  Follows(q)
<1>1. PICK n \in Node : n = free_list
  BY DEF NodeAlloc, TypeOK, Pointer
<1>2. /\ n \in Nodes(s) /\ FreeOf(Rest(s), next[n], next) /\ Nodes(Rest(s)) = Nodes(s) \ {n}
  BY <1>1, FreePop DEF Shape, NodeAlloc
<1>3. n \notin Nodes(q) /\ n \notin held
  BY <1>2 DEF Shape, Partition
<1>4. /\ free_list' = next[n] /\ held' = held \cup {n} /\ ~crashed' /\ next' = next
      /\ beg' = beg /\ end' = end /\ size' = size /\ prev' = [prev EXCEPT ![n] = n]
  BY <1>1 DEF NodeAlloc
<1>5. QueueOf(q, beg', end', next', prev')
  <2>1. q \in Seq(Node) /\ QueueOf(q, beg, end, next, prev)
    BY DEF Shape, QueueOf
  <2>2. \A m \in Nodes(q) : next'[m] = next[m] /\ prev'[m] = prev[m]
    BY <1>3, <1>4, <2>1, SeqFacts DEF TypeOK
  <2> QED BY <1>4, <2>1, <2>2, QueueFrame
<1>6. Partition(Nodes(q), Nodes(Rest(s)), held')
  BY <1>2, <1>3, <1>4 DEF Shape, Partition
<1>7. QueueStep(q, q)
  BY <1>3, <1>4 DEF QueueStep
<1>8. PICK r : r = Rest(s)
  OBVIOUS
<1>9. Shape(q, r)'
  BY <1>2, <1>4, <1>5, <1>6, <1>8 DEF Shape
<1> QED BY <1>4, <1>7, <1>9 DEF Follows

LEMMA LinkBackStep ==
  ASSUME TypeOK, ~crashed, NEW q, NEW s, Shape(q, s), NEW n \in Node, NodeLinkBack(n)
  PROVE  Follows(q)
<1>1. n \in held /\ n \notin Nodes(q) /\ n \notin Nodes(s) /\ Nodes(q) \cap Nodes(s) = {}
  BY DEF NodeLinkBack, Shape, Partition
<1>2. /\ QueueOf(Append(q, n), beg', end', next', prev') /\ Len(Append(q, n)) = size'
      /\ FreeOf(s, free_list, next') /\ Nodes(Append(q, n)) = Nodes(q) \cup {n}
  BY <1>1, AppendStep DEF Shape, NodeLinkBack
<1>3. free_list' = free_list /\ held' = held \ {n} /\ ~crashed'
  BY DEF NodeLinkBack
<1>4. Partition(Nodes(Append(q, n)), Nodes(s), held')
  BY <1>1, <1>2, <1>3 DEF Shape, Partition
<1>5. QueueStep(q, Append(q, n))
  BY <1>1, <1>3 DEF QueueStep
<1>6. PICK p : p = Append(q, n)
  OBVIOUS
<1>7. Shape(p, s)'
  BY <1>2, <1>3, <1>4, <1>6 DEF Shape
<1> QED BY <1>3, <1>5, <1>6, <1>7 DEF Follows

(* The unlinking of a linked node: the pointers of the others, and that    *)
(* nothing crashes.                                                        *)
LEMMA UnlinkPointers ==
  ASSUME TypeOK, ~crashed, NEW q, NEW s, Shape(q, s), NEW k \in 1 .. Len(q),
         NEW n \in Node, n = q[k], NodeUnlink(n)
  PROVE  /\ Removes(q, k, beg', end', next', prev') /\ ~crashed'
         /\ next'[n] = free_list /\ \A m \in Node : m \notin Nodes(q) => next'[m] = next[m]
         /\ free_list' = n /\ size' = (size + Width - 1) % Width /\ held' = held \ {n}
<1> DEFINE l == Len(q)
<1>1. /\ q \in Seq(Node) /\ l \in Nat /\ q # <<>> /\ DOMAIN q = 1 .. l
      /\ 1 \in 1 .. l /\ l \in 1 .. l
  BY SeqFacts DEF Shape, QueueOf
<1>2. /\ beg = q[1] /\ end = q[l]
      /\ \A j \in 1 .. l - 1 : next[q[j]] = q[j + 1] /\ prev[q[j + 1]] = q[j]
  BY <1>1 DEF Shape, QueueOf
<1>3. \A i, j \in 1 .. l : q[i] = q[j] => i = j
  BY <1>1 DEF Shape, QueueOf, Injective
<1>4. \A j \in 1 .. l : q[j] \in Node /\ q[j] # Null /\ q[j] \in Nodes(q)
  BY <1>1, SeqFacts
<1>5. next \in [Node -> Pointer] /\ prev \in [Node -> Pointer]
  BY DEF TypeOK
<1>6. k \in 1 .. l
  OBVIOUS
<1>7. \A j \in 1 .. l - 1 : j \in 1 .. l /\ j + 1 \in 1 .. l
  BY <1>1
<1> HIDE DEF l
<1>8. CASE k = 1
  <2>1. UnlinkFirst(n)
    BY <1>2, <1>8 DEF NodeUnlink, UnlinkLast, UnlinkMiddle, UnlinkAbsent
  <2>2. /\ next' = [next EXCEPT ![n] = free_list] /\ free_list' = n /\ ~crashed'
        /\ size' = (size + Width - 1) % Width /\ held' = held \ {n}
    BY <2>1 DEF UnlinkFirst, ToFree
  <2>3. \A m \in Node : m # n => next'[m] = next[m] /\ prev'[m] = prev[m]
    BY <1>5, <2>1, <2>2 DEF UnlinkFirst
  <2>4. l = 1 => beg' = Null /\ end' = Null
    BY <1>2, <2>1 DEF UnlinkFirst
  <2>5. l # 1 => beg' = q[2] /\ end' = q[l]
    <3> SUFFICES ASSUME l # 1 PROVE beg' = q[2] /\ end' = q[l]
      OBVIOUS
    <3>1. beg # end /\ 1 \in 1 .. l - 1 /\ 1 + 1 = 2
      BY <1>1, <1>2, <1>3
    <3>2. next[n] = q[2]
      BY <1>2, <1>8, <3>1
    <3> QED BY <1>2, <2>1, <3>1, <3>2 DEF UnlinkFirst
  <2>6. ASSUME NEW j \in 1 .. l - 1, j # k, j + 1 # k
        PROVE  next'[q[j]] = q[j + 1] /\ prev'[q[j + 1]] = q[j]
    <3>1. q[j] # n /\ q[j + 1] # n
      BY <1>3, <1>6, <1>7, <2>6
    <3> QED BY <1>2, <1>4, <1>7, <2>3, <3>1
  <2>7. next'[n] = free_list /\ \A m \in Node : m \notin Nodes(q) => next'[m] = next[m]
    <3>1. next'[n] = free_list
      BY <1>5, <2>2
    <3>2. n \in Nodes(q)
      BY <1>4, <1>6
    <3> QED BY <2>3, <3>1, <3>2
  <2>8. Removes(q, k, beg', end', next', prev')
    BY <1>1, <1>8, <2>4, <2>5, <2>6 DEF Removes, l
  <2> QED BY <2>2, <2>7, <2>8
<1>9. CASE k = l /\ k # 1
  <2>1. beg # n /\ end = n /\ l # 1
    BY <1>1, <1>2, <1>3, <1>6, <1>9
  <2>2. UnlinkLast(n)
    BY <2>1 DEF NodeUnlink, UnlinkFirst, UnlinkMiddle, UnlinkAbsent
  <2>3. /\ next' = [next EXCEPT ![n] = free_list] /\ free_list' = n /\ ~crashed'
        /\ size' = (size + Width - 1) % Width /\ held' = held \ {n}
    BY <2>2 DEF UnlinkLast, ToFree
  <2>4. \A m \in Node : m # n => next'[m] = next[m] /\ prev'[m] = prev[m]
    BY <1>5, <2>2, <2>3 DEF UnlinkLast
  <2>5. beg' = q[1] /\ end' = q[l - 1]
    <3>1. l - 1 \in 1 .. l - 1 /\ (l - 1) + 1 = l
      BY <1>1, <1>6, <1>9
    <3>2. prev[n] = q[l - 1]
      BY <1>2, <1>9, <3>1
    <3> QED BY <1>2, <2>2, <3>2 DEF UnlinkLast
  <2>6. ASSUME NEW j \in 1 .. l - 1, j # k, j + 1 # k
        PROVE  next'[q[j]] = q[j + 1] /\ prev'[q[j + 1]] = q[j]
    <3>1. q[j] # n /\ q[j + 1] # n
      BY <1>3, <1>6, <1>7, <2>6
    <3> QED BY <1>2, <1>4, <1>7, <2>4, <3>1
  <2>7. next'[n] = free_list /\ \A m \in Node : m \notin Nodes(q) => next'[m] = next[m]
    <3>1. next'[n] = free_list
      BY <1>5, <2>3
    <3>2. n \in Nodes(q)
      BY <1>4, <1>6
    <3> QED BY <2>4, <3>1, <3>2
  <2>8. Removes(q, k, beg', end', next', prev')
    <3>1. ~(k < l)
      BY <1>1, <1>9
    <3> QED BY <1>9, <2>1, <2>5, <2>6, <3>1 DEF Removes, l
  <2> QED BY <2>3, <2>7, <2>8
<1>10. CASE k # 1 /\ k # l
  <2>1. /\ k - 1 \in 1 .. l - 1 /\ k \in 1 .. l - 1 /\ (k - 1) + 1 = k /\ l # 1
        /\ k - 1 \in 1 .. l /\ k + 1 \in 1 .. l
    BY <1>1, <1>6, <1>10
  <2>2. next[n] = q[k + 1] /\ prev[n] = q[k - 1]
    BY <1>2, <2>1
  <2>3. n \notin {beg, end} /\ next[n] # Null /\ prev[n] # Null
    BY <1>1, <1>2, <1>3, <1>4, <1>6, <1>10, <2>1, <2>2
  <2>4. UnlinkMiddle(n)
    BY <2>3 DEF NodeUnlink, UnlinkFirst, UnlinkLast, UnlinkAbsent
  <2>5. /\ prev' = [prev EXCEPT ![next[n]] = prev[n], ![n] = Null]
        /\ next' = [[next EXCEPT ![prev[n]] = next[n]] EXCEPT ![n] = free_list]
        /\ free_list' = n /\ ~crashed' /\ beg' = beg /\ end' = end
        /\ size' = (size + Width - 1) % Width /\ held' = held \ {n}
    BY <2>3, <2>4 DEF UnlinkMiddle, ToFree
  <2>6. q[k + 1] # n /\ q[k - 1] # n
    <3>1. k + 1 # k /\ k - 1 # k
      BY <1>6
    <3> QED BY <1>3, <1>6, <2>1, <3>1
  <2>7. /\ \A m \in Node : m # n /\ m # q[k - 1] => next'[m] = next[m]
        /\ \A m \in Node : m # n /\ m # q[k + 1] => prev'[m] = prev[m]
        /\ next'[n] = free_list
    BY <1>5, <2>2, <2>5
  <2>8. next'[q[k - 1]] = q[k + 1] /\ prev'[q[k + 1]] = q[k - 1]
    BY <1>4, <1>5, <2>1, <2>2, <2>5, <2>6
  <2>9. ASSUME NEW j \in 1 .. l - 1, j # k, j + 1 # k
        PROVE  next'[q[j]] = q[j + 1] /\ prev'[q[j + 1]] = q[j]
    <3>1. j # k - 1 /\ j + 1 # k + 1
      BY <1>1, <1>6, <2>9
    <3>2. q[j] # n /\ q[j + 1] # n /\ q[j] # q[k - 1] /\ q[j + 1] # q[k + 1]
      BY <1>3, <1>6, <1>7, <2>1, <2>9, <3>1
    <3> QED BY <1>2, <1>4, <1>7, <2>7, <3>2
  <2>10. \A m \in Node : m \notin Nodes(q) => next'[m] = next[m]
    BY <1>4, <1>6, <2>1, <2>7
  <2>11. Removes(q, k, beg', end', next', prev')
    BY <1>1, <1>2, <1>10, <2>1, <2>5, <2>8, <2>9 DEF Removes, l
  <2> QED BY <2>5, <2>7, <2>10, <2>11
<1> QED BY <1>8, <1>9, <1>10

(* ToFree puts the unlinked node at the front of the free list.            *)
LEMMA PushStep ==
  ASSUME NEW s, NEW n, n \in Node, FreeOf(s, free_list, next), n \notin Nodes(s),
         next'[n] = free_list, \A m \in Nodes(s) : next'[m] = next[m]
  PROVE  FreeOf(Cons(n, s), n, next') /\ Nodes(Cons(n, s)) = Nodes(s) \cup {n}
BY FreePush

LEMMA UnlinkStep ==
  ASSUME TypeOK, ~crashed, NEW q, NEW s, Shape(q, s), NEW n \in Linked, NodeUnlink(n)
  PROVE  Follows(q)
<1>1. /\ QueueOf(q, beg, end, next, prev) /\ q \in Seq(Node) /\ Len(q) = size
      /\ FreeOf(s, free_list, next) /\ Partition(Nodes(q), Nodes(s), held)
  BY DEF Shape, QueueOf
<1>2. PICK k \in 1 .. Len(q) : n = q[k]
  BY <1>1, LinkedIs, SeqFacts
<1>3. n \in Node /\ n \in Nodes(q) /\ n \notin Nodes(s) /\ n \notin held
  BY <1>1, <1>2, SeqFacts DEF Partition
<1>4. /\ Removes(q, k, beg', end', next', prev') /\ ~crashed'
      /\ next'[n] = free_list /\ \A m \in Node : m \notin Nodes(q) => next'[m] = next[m]
      /\ free_list' = n /\ size' = (size + Width - 1) % Width /\ held' = held \ {n}
  BY <1>2, <1>3, UnlinkPointers
<1>5. PICK p, r : p = Abs!Without(q, k) /\ r = Cons(n, s)
  OBVIOUS
<1>6. QueueOf(p, beg', end', next', prev') /\ Len(p) = Len(q) - 1 /\ Nodes(p) = Nodes(q) \ {n}
  BY <1>1, <1>2, <1>4, <1>5, QueueRemove
<1>7. FreeOf(r, free_list', next') /\ Nodes(r) = Nodes(s) \cup {n}
  <2>1. \A m \in Nodes(s) : m \in Node /\ m \notin Nodes(q)
    BY <1>1, SeqFacts DEF FreeOf, Partition
  <2>2. \A m \in Nodes(s) : next'[m] = next[m]
    BY <1>4, <2>1
  <2>3. FreeOf(s, free_list, next) /\ n \in Node /\ n \notin Nodes(s) /\ next'[n] = free_list
    BY <1>1, <1>3, <1>4
  <2>4. FreeOf(Cons(n, s), n, next') /\ Nodes(Cons(n, s)) = Nodes(s) \cup {n}
    BY <2>2, <2>3, PushStep
  <2> QED BY <1>4, <1>5, <2>4
<1>8. size' = Len(p)
  <2>1. size \in Nat /\ size > 0 /\ size < Width /\ Width \in Nat
    BY <1>1, <1>2, SeqFacts, ListAssumption DEF TypeOK
  <2>2. (size + Width - 1) % Width = size - 1
    BY <2>1, SizeMod
  <2> QED BY <1>1, <1>4, <1>6, <2>2
<1>9. held' = held
  BY <1>3, <1>4
<1>10. Partition(Nodes(p), Nodes(r), held')
  BY <1>1, <1>3, <1>6, <1>7, <1>9 DEF Partition
<1>11. QueueStep(q, p)
  BY <1>1, <1>2, <1>3, <1>5, <1>9, SeqFacts DEF QueueStep
<1>12. Shape(p, r)'
  BY <1>6, <1>7, <1>8, <1>10 DEF Shape
<1> QED BY <1>4, <1>11, <1>12 DEF Follows

-----------------------------------------------------------------------------
(* WellFormed, as an invariant that is inductive.                          *)
ListInv == after = 0 => ~crashed /\ \E q, s : Shape(q, s)

LEMMA AllFree == Init => Shape(<<>>, [k \in 1 .. Length |-> k])
<1> SUFFICES ASSUME Init PROVE Shape(<<>>, [k \in 1 .. Length |-> k])
  OBVIOUS
<1> DEFINE s == [k \in 1 .. Length |-> k]
           q == <<>>
<1>1. Length \in Nat /\ Length > 0 /\ 1 \in 1 .. Length /\ Length \in 1 .. Length
  BY ListAssumption
<1>2. s \in [1 .. Length -> Node] /\ \A k \in 1 .. Length : s[k] = k
  BY DEF Node
<1>3. s \in Seq(Node) /\ Len(s) = Length /\ DOMAIN s = 1 .. Length
  BY <1>1, <1>2, FunctionSeq
<1>4. q \in Seq(Node) /\ Len(q) = 0 /\ DOMAIN q = {} /\ 1 .. Len(q) - 1 = {}
  OBVIOUS
<1>5. /\ \A k \in Node : next[k] = IF k < Length THEN k + 1 ELSE Null
      /\ beg = Null /\ end = Null /\ size = 0 /\ held = {} /\ free_list = 1
  BY DEF Init
<1> HIDE DEF s, q
<1>6. s # <<>>
  BY <1>1, <1>3, SeqFacts
<1>7. \A k \in 1 .. Length - 1 : k \in 1 .. Length /\ k + 1 \in 1 .. Length /\ k < Length
  BY <1>1
<1>8. \A k \in 1 .. Length - 1 : next[s[k]] = s[k + 1]
  BY <1>2, <1>5, <1>7 DEF Node
<1>9. next[s[Length]] = Null
  BY <1>1, <1>2, <1>5 DEF Node
<1>10. FreeOf(s, free_list, next)
  BY <1>1, <1>2, <1>3, <1>5, <1>6, <1>8, <1>9 DEF FreeOf, Injective
<1>11. q = <<>>
  BY DEF q
<1>12. QueueOf(q, beg, end, next, prev)
  BY <1>4, <1>5, <1>11 DEF QueueOf, Injective
<1>13. Nodes(q) = {} /\ Nodes(s) = Node
  BY <1>2, <1>3, <1>4 DEF Nodes, Node
<1> QED BY <1>4, <1>5, <1>10, <1>12, <1>13 DEF Shape, Partition, q, s

LEMMA ListInit == Init => ListInv
BY AllFree DEF ListInv, Init

(* Once broken, the contract stays so.                                     *)
LEMMA CallKeeps ==
  ASSUME TypeOK, NEW contract \in BOOLEAN, Call(contract), after' = 0
  PROVE  after = 0 /\ contract
<1>1. after \in Nat
  BY ListAssumption DEF TypeOK
<1> QED BY <1>1 DEF Call

LEMMA ContractStep ==
  ASSUME TypeOK, ListInv, Next, after' = 0
  PROVE  after = 0 /\ \A q, s : Shape(q, s) => Follows(q)
<1>1. ~crashed
  BY DEF Next
<1>2. CASE (NodeAdd \/ NodeAlloc \/ CrashAtEnd) /\ Call(TRUE)
  <2>1. after = 0
    BY <1>2, CallKeeps
  <2>2. ASSUME NEW q, NEW s, Shape(q, s) PROVE Follows(q)
    <3>1. ~CrashAtEnd
      BY <2>2, HasEnd DEF CrashAtEnd
    <3> QED BY <1>1, <1>2, <2>2, <3>1, AddStep, AllocStep
  <2> QED BY <2>1, <2>2
<1>3. CASE NodeAdd2Fails /\ Call(FALSE)
  BY <1>3, CallKeeps
<1>4. ASSUME NEW n \in Node, NodeLinkBack(n), Call(TRUE)
      PROVE  after = 0 /\ \A q, s : Shape(q, s) => Follows(q)
  BY <1>1, <1>4, CallKeeps, LinkBackStep
<1>5. ASSUME NEW n \in Linked \cup {m \in Node : State(m) \in Unlinks},
             NodeUnlink(n), Call(n \in Linked)
      PROVE  after = 0 /\ \A q, s : Shape(q, s) => Follows(q)
  <2>1. after = 0 /\ n \in Linked
    <3>1. after \in Nat
      BY ListAssumption DEF TypeOK
    <3>2. CASE n \in Linked
      BY <1>5, <3>1, <3>2 DEF Call
    <3>3. CASE n \notin Linked
      BY <1>5, <3>3 DEF Call
    <3> QED BY <3>2, <3>3
  <2> QED BY <1>1, <1>5, <2>1, UnlinkStep
<1> QED BY <1>2, <1>3, <1>4, <1>5 DEF Next

LEMMA ListKept == TypeOK /\ ListInv /\ [Next]_vars => ListInv'
<1> SUFFICES ASSUME TypeOK, ListInv, [Next]_vars, after' = 0
             PROVE  ~crashed' /\ \E q, s : Shape(q, s)'
  BY DEF ListInv
<1>1. CASE UNCHANGED vars
  <2>1. after = 0 /\ ~crashed /\ crashed' = crashed
    BY <1>1 DEF vars, listVars, ListInv
  <2>2. PICK q, s : Shape(q, s)
    BY <2>1 DEF ListInv
  <2>3. Shape(q, s)'
    BY <1>1, <2>2 DEF Shape, vars, listVars
  <2> QED BY <2>1, <2>3
<1>2. CASE Next
  <2>1. after = 0 /\ \A q, s : Shape(q, s) => Follows(q)
    BY <1>2, ContractStep
  <2>2. PICK q, s : Shape(q, s)
    BY <2>1 DEF ListInv
  <2>3. Follows(q)
    BY <2>1, <2>2
  <2> QED BY <2>3 DEF Follows
<1> QED BY <1>1, <1>2

LEMMA ListProperty == ListInv => WellFormed
BY WellFormedIs DEF ListInv, WellFormed

(* As long as callers keep the contract, in whatever order they add,       *)
(* allocate, link and unlink, the pointers are those of a queue of size    *)
(* nodes and of a free list, every node is in one of them or with a        *)
(* caller, and no null pointer is followed.                                *)
THEOREM ListCorrect == Spec => [](TypeOK /\ WellFormed)
<1>1. Init => TypeOK /\ ListInv
  BY TypesInit, ListInit
<1>2. TypeOK /\ ListInv /\ [Next]_vars => TypeOK' /\ ListInv'
  BY TypesKept, ListKept
<1> QED BY <1>1, <1>2, ListProperty, PTL DEF Spec

-----------------------------------------------------------------------------
(* The refinement of AbsList.                                              *)

LEMMA ReachedIs == \A q : QueueOf(q, beg, end, next, prev) => Reached = q
BY LinkedIs

LEMMA ReachedIsNext == \A q : QueueOf(q, beg', end', next', prev') => Reached' = q
<1>1. (\A q : QueueOf(q, beg, end, next, prev) => Reached = q)'
  BY ReachedIs, PTL
<1> QED BY <1>1

LEMMA QueueInit == Init => Abs!Init
<1> SUFFICES ASSUME Init PROVE Abs!Init
  OBVIOUS
<1>1. PICK q : q = <<>>
  OBVIOUS
<1>2. QueueOf(q, beg, end, next, prev)
  BY <1>1, AllFree DEF Shape
<1>3. Reached = <<>>
  BY <1>1, <1>2, ReachedIs
<1> QED BY <1>3 DEF Abs!Init, Init

LEMMA QueueNext ==
  TypeOK /\ ListInv /\ [Next]_vars => [Abs!Next]_<<Reached, held, after = 0>>
<1> SUFFICES ASSUME TypeOK, ListInv, [Next]_vars
             PROVE  Abs!Next \/ UNCHANGED <<Reached, held, after = 0>>
  OBVIOUS
<1>1. CASE UNCHANGED vars
  BY <1>1 DEF vars, listVars, Reached, Walk
<1>2. CASE Next /\ after' # 0
  BY <1>2 DEF Abs!Next
<1>3. CASE Next /\ after' = 0
  <2>1. after = 0 /\ \A q, s : Shape(q, s) => Follows(q)
    BY <1>3, ContractStep
  <2>2. PICK q, s : Shape(q, s)
    BY <2>1 DEF ListInv
  <2>3. PICK p, r : Shape(p, r)' /\ QueueStep(q, p)
    BY <2>1, <2>2 DEF Follows
  <2>4. Reached = q /\ Reached' = p
    BY <2>2, <2>3, ReachedIs, ReachedIsNext DEF Shape
  <2>5. Abs!Linked = Nodes(q)
    BY <2>4 DEF Abs!Linked, Nodes
  <2>6. Abs!Call
    BY <2>3, <2>4, <2>5
       DEF QueueStep, Abs!Call, Abs!Add, Abs!Alloc, Abs!LinkBack, Abs!Unlink, Abs!FreeNodes
  <2> QED BY <1>3, <2>1, <2>6 DEF Abs!Next
<1> QED BY <1>1, <1>2, <1>3

(* The list of pointers is AbsList's queue: the nodes met from beg to end  *)
(* are the linked ones in the order they were linked, and each member      *)
(* function does to them what it promises.                                 *)
THEOREM QueueImplemented == Spec => ImplementsQueue
<1>1. Init => TypeOK /\ ListInv
  BY TypesInit, ListInit
<1>2. TypeOK /\ ListInv /\ [Next]_vars => TypeOK' /\ ListInv'
  BY TypesKept, ListKept
<1> QED BY <1>1, <1>2, QueueInit, QueueNext, PTL DEF Spec, ImplementsQueue, Abs!Spec
=============================================================================
