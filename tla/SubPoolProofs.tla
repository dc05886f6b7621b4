---------------------------- MODULE SubPoolProofs ----------------------------
(***************************************************************************)
(* Proofs about SubPool: for any number of blocks and any sizes, blocks    *)
(* never overlap, and the bitmaps, the size sets and the stack agree.      *)
(***************************************************************************)
EXTENDS SubPool, FiniteSetTheorems, WellFoundedInduction, TLAPS

Taken(b) == AllBits \ first[b]
Cut == Blk \ Stacked

(* No block is on the stack twice.                                         *)
OnceEach(q) == \A i, j \in DOMAIN q : q[i] = q[j] => i = j
StackInv == OnceEach(free_blocks)

(* What callers have are the clear bits of the blocks not on the stack,    *)
(* and those are bits of sub-blocks.  A block of one sub-block is the only *)
(* one off the stack with none of them live.                               *)
LiveInv ==
  /\ \A b \in Blk, p \in AllBits, s \in Size :
       <<b, p, s>> \in live <=> b \in Cut /\ p \in Taken(b) /\ s = second[b]
  /\ \A b \in Cut : /\ Taken(b) \subseteq 0 .. NumSub[second[b]] - 1
                    /\ Taken(b) = {} => NumSub[second[b]] = 1

(* The size sets hold the blocks with a free sub-block, and what is kept.  *)
SetsInv ==
  /\ \A s \in Size : \A b \in Stacked : b \in free_sub_arr[s] => <<s, b>> \in kept
  /\ \A s \in Size : \A b \in Cut :
       b \in free_sub_arr[s] /\ <<s, b>> \notin kept
         <=> s = second[b] /\ Cardinality(Taken(b)) < NumSub[s]

(* What is kept stays kept: while the set of its size has it, no block is  *)
(* cut to that size, and alloc finds it unfit.                             *)
KeptInv ==
  /\ \A s \in Size, b \in Blk : <<s, b>> \in kept =>
       /\ b \in free_sub_arr[s] /\ NumSub[s] = 1
       /\ second[b] = s => b \in Stacked /\ first[b] = {}
  /\ broken => null \/ kept # {}

SubInv == TypeOK /\ StackInv /\ LiveInv /\ SetsInv /\ KeptInv

-----------------------------------------------------------------------------
(* A bitmap and its clear bits.                                            *)
LEMMA Complement ==
  ASSUME NEW F \in SUBSET AllBits
  PROVE  LET T == AllBits \ F
         IN  /\ IsFiniteSet(F) /\ IsFiniteSet(T) /\ T \subseteq AllBits
             /\ Cardinality(F) \in Nat /\ Cardinality(T) \in Nat
             /\ Cardinality(F) + Cardinality(T) = Bits
<1> DEFINE T == AllBits \ F
<1>1. IsFiniteSet(AllBits) /\ Cardinality(AllBits) = Bits
  BY SubPoolAssumption, FS_Interval DEF AllBits
<1>2. IsFiniteSet(F) /\ IsFiniteSet(T)
  BY <1>1, FS_Subset
<1>3. AllBits \cap F = F
  OBVIOUS
<1>4. Cardinality(F) \in Nat /\ Cardinality(T) \in Nat
  BY <1>2, FS_CardinalityType
<1>5. Cardinality(T) = Cardinality(AllBits) - Cardinality(F)
  BY <1>1, <1>3, FS_Difference
<1> HIDE DEF T
<1>6. Cardinality(F) + Cardinality(T) = Bits
  BY <1>1, <1>4, <1>5, SubPoolAssumption
<1> QED BY <1>2, <1>4, <1>6 DEF T

(* What __builtin_ffsl finds.                                              *)
LEMMA LeastBit ==
  ASSUME NEW F \in SUBSET AllBits, F # {}
  PROVE  Min(F) \in F /\ \A p \in F : Min(F) <= p
<1>1. F \subseteq Nat
  BY SubPoolAssumption DEF AllBits
<1>2. PICK m \in F : \A p \in F : <<p, m>> \notin OpToRel(<, Nat)
  BY <1>1, NatLessThanWellFounded, WFMin
<1>3. ASSUME NEW p \in F PROVE m <= p
  <2>1. <<p, m>> \notin {ss \in Nat \X Nat : ss[1] < ss[2]}
    BY <1>2 DEF OpToRel
  <2>2. p \in Nat /\ m \in Nat
    BY <1>1
  <2> QED BY <2>1, <2>2
<1> QED BY <1>3 DEF Min

(* While fewer than n of the first n bits are clear, ffsl finds one.       *)
LEMMA OneFree ==
  ASSUME NEW F \in SUBSET AllBits, NEW n \in 1 .. Bits,
         AllBits \ F \subseteq 0 .. n - 1, Cardinality(AllBits \ F) < n
  PROVE  F # {} /\ Min(F) \in F /\ Min(F) \in 0 .. n - 1
<1>1. IsFiniteSet(0 .. n - 1) /\ Cardinality(0 .. n - 1) = n
  BY SubPoolAssumption, FS_Interval
<1>2. AllBits \ F # 0 .. n - 1
  <2> SUFFICES ASSUME AllBits \ F = 0 .. n - 1 PROVE FALSE
    OBVIOUS
  <2>1. Cardinality(AllBits \ F) = n
    BY <1>1
  <2> QED BY <2>1, SubPoolAssumption
<1>3. PICK p \in 0 .. n - 1 : p \notin AllBits \ F
  BY <1>2
<1>4. p \in F
  BY <1>3, SubPoolAssumption DEF AllBits
<1>5. Min(F) \in F /\ Min(F) <= p
  BY <1>4, LeastBit
<1>6. Min(F) \in Nat
  <2>1. F \subseteq Nat
    BY SubPoolAssumption DEF AllBits
  <2> QED BY <1>5, <2>1
<1> QED BY <1>3, <1>4, <1>5, <1>6, SubPoolAssumption

LEMMA NumSubType ==
  ASSUME NEW s \in Size
  PROVE  NumSub[s] \in 1 .. Bits /\ NumSub[s] \in Nat /\ NumSub[s] # 0 /\ Bits \in Nat
BY SubPoolAssumption

LEMMA FirstBits ==
  ASSUME NEW n \in Nat
  PROVE  IsFiniteSet(0 .. n - 1) /\ Cardinality(0 .. n - 1) = n
BY FS_Interval

LEMMA StackedBlk ==
  ASSUME TypeOK
  PROVE  Stacked \subseteq Blk /\ Cut \subseteq Blk /\ \A c \in Blk : c \in Cut <=> c \notin Stacked
BY DEF TypeOK, Stacked, Cut

LEMMA SubInvInit == Init => SubInv
<1> SUFFICES ASSUME Init PROVE SubInv
  OBVIOUS
<1>1. /\ free_blocks = [i \in 1 .. max_blocks |-> i - 1]
      /\ first \in [Blk -> {{}}] /\ second \in [Blk -> {ZeroSize}]
      /\ free_sub_arr = [s \in Size |-> {}]
      /\ null = FALSE /\ live = {} /\ overlapped = FALSE /\ kept = {} /\ broken = FALSE
  BY DEF Init
<1>2. max_blocks \in Nat \ {0} /\ ZeroSize \in Size
  BY SubPoolAssumption DEF ZeroSize
<1>3. free_blocks \in Seq(Blk) /\ DOMAIN free_blocks = 1 .. max_blocks
  BY <1>1, <1>2 DEF Blk
<1>4. Stacked = Blk
  <2>1. \A b \in Blk : b + 1 \in 1 .. max_blocks /\ free_blocks[b + 1] = b
    BY <1>1, <1>2 DEF Blk
  <2>2. Blk \subseteq Stacked
    BY <1>3, <2>1 DEF Stacked
  <2>3. Stacked \subseteq Blk
    BY <1>1, <1>2, <1>3 DEF Stacked, Blk
  <2> QED BY <2>2, <2>3
<1>5. Cut = {}
  BY <1>4 DEF Cut
<1>6. StackInv
  BY <1>1, <1>2, <1>3 DEF StackInv, OnceEach
<1>7. TypeOK
  BY <1>1, <1>2, <1>3 DEF TypeOK
<1>8. LiveInv /\ SetsInv /\ KeptInv
  BY <1>1, <1>5 DEF LiveInv, SetsInv, KeptInv
<1> QED BY <1>6, <1>7, <1>8 DEF SubInv

-----------------------------------------------------------------------------
(* The stack under a pop and under a push.                                 *)
InSeq(q) == {q[k] : k \in DOMAIN q}

LEMMA Pop ==
  ASSUME NEW q \in Seq(Blk), q # <<>>, OnceEach(q)
  PROVE  LET r == SubSeq(q, 1, Len(q) - 1)
         IN  /\ q[Len(q)] \in InSeq(q)
             /\ r \in Seq(Blk) /\ OnceEach(r) /\ InSeq(r) = InSeq(q) \ {q[Len(q)]}
<1> DEFINE n == Len(q)
           r == SubSeq(q, 1, n - 1)
<1>1. n \in Nat \ {0} /\ DOMAIN q = 1 .. n
  OBVIOUS
<1>2. r \in Seq(Blk) /\ Len(r) = n - 1 /\ \A k \in 1 .. n - 1 : r[k] = q[k]
  BY <1>1
<1> HIDE DEF n, r
<1>3. DOMAIN r = 1 .. n - 1 /\ \A k \in 1 .. n - 1 : k \in 1 .. n /\ k # n
  BY <1>1, <1>2
<1>4. n \in 1 .. n /\ \A k \in 1 .. n : k = n \/ k \in 1 .. n - 1
  BY <1>1
<1>5. OnceEach(r)
  BY <1>1, <1>2, <1>3 DEF OnceEach
<1>6. InSeq(r) \subseteq InSeq(q) \ {q[n]}
  BY <1>1, <1>2, <1>3, <1>4 DEF InSeq, OnceEach
<1>7. InSeq(q) \ {q[n]} \subseteq InSeq(r)
  BY <1>1, <1>2, <1>3, <1>4 DEF InSeq
<1>8. q[n] \in InSeq(q)
  BY <1>1, <1>4 DEF InSeq
<1> QED BY <1>2, <1>5, <1>6, <1>7, <1>8 DEF n, r

LEMMA Push ==
  ASSUME NEW q \in Seq(Blk), OnceEach(q), NEW b \in Blk, b \notin InSeq(q)
  PROVE  LET r == Append(q, b)
         IN  r \in Seq(Blk) /\ OnceEach(r) /\ InSeq(r) = InSeq(q) \cup {b}
<1> DEFINE n == Len(q)
           r == Append(q, b)
<1>1. n \in Nat /\ DOMAIN q = 1 .. n
  OBVIOUS
<1>2. /\ r \in Seq(Blk) /\ Len(r) = n + 1
      /\ r[n + 1] = b /\ \A k \in 1 .. n : r[k] = q[k]
  BY <1>1
<1>3. DOMAIN r = 1 .. n + 1 /\ \A k \in 1 .. n + 1 : k = n + 1 \/ k \in 1 .. n
  BY <1>1, <1>2
<1>4. n + 1 \in 1 .. n + 1 /\ \A k \in 1 .. n : k \in 1 .. n + 1
  BY <1>1
<1> HIDE DEF n, r
<1>5. OnceEach(r)
  BY <1>1, <1>2, <1>3 DEF OnceEach, InSeq
<1>6. InSeq(r) \subseteq InSeq(q) \cup {b}
  BY <1>1, <1>2, <1>3 DEF InSeq
<1>7. InSeq(q) \cup {b} \subseteq InSeq(r)
  BY <1>1, <1>2, <1>3, <1>4 DEF InSeq
<1> QED BY <1>2, <1>5, <1>6, <1>7 DEF r

LEMMA BitFacts ==
  ASSUME TypeOK, NEW b \in Blk
  PROVE  /\ first[b] \in SUBSET AllBits /\ Taken(b) \in SUBSET AllBits
         /\ IsFiniteSet(Taken(b))
         /\ Cardinality(first[b]) \in Nat /\ Cardinality(Taken(b)) \in Nat
         /\ Cardinality(first[b]) + Cardinality(Taken(b)) = Bits
<1>1. first[b] \in SUBSET AllBits
  BY DEF TypeOK
<1> QED BY <1>1, Complement DEF Taken

(* A block is full when its sub-blocks are all live.                       *)
LEMMA FullWhen ==
  ASSUME NEW F \in SUBSET AllBits, NEW s \in Size
  PROVE  Cardinality(F) = FullCount(s) <=> Cardinality(AllBits \ F) = NumSub[s]
<1>1. /\ Cardinality(F) \in Nat /\ Cardinality(AllBits \ F) \in Nat
      /\ Cardinality(F) + Cardinality(AllBits \ F) = Bits
  BY Complement
<1>2. NumSub[s] \in Nat /\ Bits \in Nat
  BY NumSubType
<1> QED BY <1>1, <1>2 DEF FullCount

-----------------------------------------------------------------------------

LEMMA AllocSubKeeps ==
  ASSUME SubInv, NEW s \in Size, AllocSub(s)
  PROVE  SubInv'
<1>1. PICK b \in free_sub_arr[s] :
        LET sub == Min(first[b])
            rest == first[b] \ {sub}
        IN  /\ Sound(s, b)
            /\ first' = [first EXCEPT ![b] = rest]
            /\ free_sub_arr' = IF Cardinality(rest) = FullCount(s)
                               THEN [free_sub_arr EXCEPT ![s] = @ \ {b}] ELSE free_sub_arr
            /\ HandOut(b, sub, s)
            /\ UNCHANGED <<free_blocks, second, null, kept, broken>>
  BY DEF AllocSub
<1> DEFINE sub == Min(first[b])
           rest == first[b] \ {sub}
<1>2. TypeOK /\ b \in Blk /\ NumSub[s] \in 1 .. Bits
  BY NumSubType DEF SubInv, TypeOK
<1>3. s = second[b] /\ <<s, b>> \notin kept
  BY <1>1, <1>2 DEF SubInv, KeptInv, Sound
<1>4. b \in Cut /\ Cardinality(Taken(b)) < NumSub[s]
  BY <1>1, <1>2, <1>3 DEF SubInv, SetsInv, Cut
<1>5. sub \in first[b] /\ sub \in 0 .. NumSub[s] - 1
  <2>1. Taken(b) \subseteq 0 .. NumSub[s] - 1
    BY <1>3, <1>4 DEF SubInv, LiveInv
  <2>2. first[b] \in SUBSET AllBits /\ Cardinality(AllBits \ first[b]) < NumSub[s]
    BY <1>2, <1>4, BitFacts DEF Taken
  <2> QED BY <1>2, <2>1, <2>2, OneFree DEF Taken
<1> HIDE DEF sub
<1>6. /\ first' = [first EXCEPT ![b] = rest] /\ live' = live \cup {<<b, sub, s>>}
      /\ overlapped' \in BOOLEAN
      /\ UNCHANGED <<free_blocks, second, null, kept, broken>>
  BY <1>1 DEF HandOut, sub
<1>7. first \in [Blk -> SUBSET AllBits] /\ sub \in AllBits /\ rest \subseteq AllBits
  BY <1>2, <1>5 DEF TypeOK
<1>8. /\ Taken(b)' = Taken(b) \cup {sub} /\ sub \notin Taken(b) /\ first'[b] = rest
      /\ \A c \in Blk : c # b => first'[c] = first[c] /\ Taken(c)' = Taken(c)
  BY <1>2, <1>5, <1>6, <1>7 DEF Taken
<1>9. Cut' = Cut /\ Stacked' = Stacked
  BY <1>6 DEF Cut, Stacked
<1>10. Cardinality(Taken(b)') = Cardinality(Taken(b)) + 1
  BY <1>2, <1>8, BitFacts, FS_AddElement
<1>11. Cardinality(rest) = FullCount(s) <=> Cardinality(Taken(b)') = NumSub[s]
  <2>1. Taken(b)' = AllBits \ rest
    BY <1>8 DEF Taken
  <2> QED BY <1>7, <2>1, FullWhen
<1>12. /\ free_sub_arr' \in [Size -> SUBSET Blk]
       /\ \A t \in Size, c \in Blk :
            c \in free_sub_arr'[t] <=>
              c \in free_sub_arr[t] /\ ~(t = s /\ c = b /\ Cardinality(Taken(b)') = NumSub[s])
  <2>1. free_sub_arr \in [Size -> SUBSET Blk]
    BY <1>2 DEF TypeOK
  <2>2. free_sub_arr' = IF Cardinality(Taken(b)') = NumSub[s]
                        THEN [free_sub_arr EXCEPT ![s] = @ \ {b}] ELSE free_sub_arr
    BY <1>1, <1>11 DEF sub
  <2> HIDE DEF rest
  <2>3. CASE Cardinality(Taken(b)') = NumSub[s]
    BY <2>1, <2>2, <2>3
  <2>4. CASE Cardinality(Taken(b)') # NumSub[s]
    BY <2>1, <2>2, <2>4
  <2> QED BY <2>3, <2>4
<1> HIDE DEF rest
<1>13. TypeOK'
  BY <1>2, <1>6, <1>7, <1>12 DEF TypeOK
<1>14. StackInv'
  BY <1>6 DEF SubInv, StackInv
<1>15. LiveInv'
  <2>1. ASSUME NEW c \in Blk, NEW p \in AllBits, NEW t \in Size
        PROVE  <<c, p, t>> \in live' <=> c \in Cut /\ p \in Taken(c)' /\ t = second[c]
    <3>1. <<c, p, t>> \in live' <=> <<c, p, t>> \in live \/ (c = b /\ p = sub /\ t = s)
      BY <1>6
    <3>2. <<c, p, t>> \in live <=> c \in Cut /\ p \in Taken(c) /\ t = second[c]
      BY DEF SubInv, LiveInv
    <3> QED BY <1>3, <1>4, <1>8, <3>1, <3>2
  <2>2. ASSUME NEW c \in Cut
        PROVE  /\ Taken(c)' \subseteq 0 .. NumSub[second[c]] - 1
               /\ Taken(c)' = {} => NumSub[second[c]] = 1
    <3>1. c \in Blk /\ Taken(c) \subseteq 0 .. NumSub[second[c]] - 1
          /\ (Taken(c) = {} => NumSub[second[c]] = 1)
      BY <1>2, StackedBlk DEF SubInv, LiveInv
    <3> QED BY <1>3, <1>5, <1>8, <3>1
  <2> QED BY <1>6, <1>9, <2>1, <2>2 DEF LiveInv
<1>16. SetsInv'
  <2>1. ASSUME NEW t \in Size, NEW c \in Stacked, c \in free_sub_arr'[t]
        PROVE  <<t, c>> \in kept
    BY <1>2, <1>12, <2>1, StackedBlk DEF SubInv, SetsInv
  <2>2. ASSUME NEW t \in Size, NEW c \in Cut
        PROVE  c \in free_sub_arr'[t] /\ <<t, c>> \notin kept
                 <=> t = second[c] /\ Cardinality(Taken(c)') < NumSub[t]
    <3>1. c \in Blk /\ (c \in free_sub_arr[t] /\ <<t, c>> \notin kept
                         <=> t = second[c] /\ Cardinality(Taken(c)) < NumSub[t])
      BY <1>2, StackedBlk DEF SubInv, SetsInv
    <3>2. CASE c # b
      BY <1>8, <1>12, <3>1, <3>2
    <3>3. CASE c = b
      <4>1. Cardinality(Taken(b)') < NumSub[s] <=> Cardinality(Taken(b)') # NumSub[s]
        BY <1>2, <1>4, <1>10, BitFacts, NumSubType
      <4> QED BY <1>1, <1>3, <1>4, <1>12, <3>1, <3>3, <4>1
    <3> QED BY <3>2, <3>3
  <2> QED BY <1>6, <1>9, <2>1, <2>2 DEF SetsInv
<1>17. KeptInv'
  <2>1. ASSUME NEW t \in Size, NEW c \in Blk, <<t, c>> \in kept
        PROVE  /\ c \in free_sub_arr'[t] /\ NumSub[t] = 1
               /\ second[c] = t => c \in Stacked /\ first'[c] = {}
    <3>1. /\ c \in free_sub_arr[t] /\ NumSub[t] = 1
          /\ second[c] = t => c \in Stacked /\ first[c] = {}
      BY <2>1 DEF SubInv, KeptInv
    <3>2. CASE c # b
      BY <1>8, <1>12, <3>1, <3>2
    <3>3. CASE c = b
      BY <1>3, <1>12, <2>1, <3>1, <3>3
    <3> QED BY <3>2, <3>3
  <2> QED BY <1>6, <1>9, <2>1 DEF SubInv, KeptInv
<1> QED BY <1>13, <1>14, <1>15, <1>16, <1>17 DEF SubInv

(* A set that gains or loses one block.                                    *)
LEMMA SetsPlus ==
  ASSUME TypeOK, NEW s \in Size, NEW b \in Blk,
         free_sub_arr' = [free_sub_arr EXCEPT ![s] = @ \cup {b}]
  PROVE  /\ free_sub_arr' \in [Size -> SUBSET Blk]
         /\ \A t \in Size, c \in Blk :
              c \in free_sub_arr'[t] <=> c \in free_sub_arr[t] \/ (t = s /\ c = b)
BY DEF TypeOK

LEMMA SetsMinus ==
  ASSUME TypeOK, NEW s \in Size, NEW b \in Blk,
         free_sub_arr' = [free_sub_arr EXCEPT ![s] = @ \ {b}]
  PROVE  /\ free_sub_arr' \in [Size -> SUBSET Blk]
         /\ \A t \in Size, c \in Blk :
              c \in free_sub_arr'[t] <=> c \in free_sub_arr[t] /\ ~(t = s /\ c = b)
BY DEF TypeOK

LEMMA AllocBlockKeeps ==
  ASSUME SubInv, NEW s \in Size, AllocBlock(s)
  PROVE  SubInv'
<1>0. PICK b : b = free_blocks[Len(free_blocks)]
  OBVIOUS
<1>1. /\ free_sub_arr[s] = {} /\ free_blocks # <<>>
      /\ free_blocks' = SubSeq(free_blocks, 1, Len(free_blocks) - 1)
      /\ first' = [first EXCEPT ![b] = AllBits \ {0}]
      /\ second' = [second EXCEPT ![b] = s]
      /\ free_sub_arr' = IF NumSub[s] # 1
                         THEN [free_sub_arr EXCEPT ![s] = @ \cup {b}] ELSE free_sub_arr
      /\ live' = live \cup {<<b, 0, s>>} /\ overlapped' \in BOOLEAN
      /\ UNCHANGED <<null, kept, broken>>
  BY <1>0 DEF AllocBlock, HandOut
<1>2. TypeOK /\ StackInv /\ LiveInv /\ SetsInv /\ KeptInv
  BY DEF SubInv
<1>3. /\ b \in Stacked /\ free_blocks' \in Seq(Blk) /\ OnceEach(free_blocks')
      /\ Stacked' = Stacked \ {b}
  <2>1. free_blocks \in Seq(Blk) /\ OnceEach(free_blocks)
    BY <1>2 DEF TypeOK, StackInv
  <2>2. Stacked = InSeq(free_blocks) /\ Stacked' = InSeq(free_blocks')
    BY DEF Stacked, InSeq
  <2> QED BY <1>0, <1>1, <2>1, <2>2, Pop
<1>4. b \in Blk /\ Cut' = Cut \cup {b} /\ b \notin Cut
  BY <1>2, <1>3, StackedBlk DEF Cut
<1>5. 0 \in AllBits /\ Bits \in Nat /\ NumSub[s] \in Nat /\ NumSub[s] > 0
  BY SubPoolAssumption DEF AllBits
<1>6. /\ Taken(b)' = {0} /\ second'[b] = s
      /\ \A c \in Blk : c # b => /\ first'[c] = first[c] /\ second'[c] = second[c]
                                 /\ Taken(c)' = Taken(c)
  BY <1>1, <1>2, <1>4, <1>5 DEF Taken, TypeOK
<1>7. Cardinality(Taken(b)') < NumSub[s] <=> NumSub[s] # 1
  BY <1>5, <1>6, FS_Singleton
<1>8. /\ free_sub_arr' \in [Size -> SUBSET Blk]
      /\ \A t \in Size, c \in Blk :
           c \in free_sub_arr'[t]
             <=> c \in free_sub_arr[t] \/ (t = s /\ c = b /\ NumSub[s] # 1)
  BY <1>1, <1>2, <1>4, SetsPlus DEF TypeOK
<1>9. \A c \in Blk : <<s, c>> \notin kept
  BY <1>1, <1>2 DEF KeptInv
<1>10. \A t \in Size : b \in free_sub_arr[t] => <<t, b>> \in kept
  BY <1>2, <1>3 DEF SetsInv
<1>11. TypeOK'
  BY <1>1, <1>2, <1>3, <1>4, <1>5, <1>8 DEF TypeOK
<1>12. StackInv'
  BY <1>3 DEF StackInv
<1>13. LiveInv'
  <2>1. ASSUME NEW c \in Blk, NEW p \in AllBits, NEW t \in Size
        PROVE  <<c, p, t>> \in live' <=> c \in Cut' /\ p \in Taken(c)' /\ t = second'[c]
    <3>1. <<c, p, t>> \in live' <=> <<c, p, t>> \in live \/ (c = b /\ p = 0 /\ t = s)
      BY <1>1
    <3>2. <<c, p, t>> \in live <=> c \in Cut /\ p \in Taken(c) /\ t = second[c]
      BY <1>2 DEF LiveInv
    <3> QED BY <1>4, <1>6, <3>1, <3>2
  <2>2. ASSUME NEW c \in Cut'
        PROVE  /\ Taken(c)' \subseteq 0 .. NumSub[second'[c]] - 1
               /\ Taken(c)' = {} => NumSub[second'[c]] = 1
    <3>1. CASE c = b
      BY <1>5, <1>6, <3>1
    <3>2. CASE c # b
      <4>1. c \in Cut /\ c \in Blk
        BY <1>2, <1>4, <3>2, StackedBlk
      <4> QED BY <1>2, <1>6, <3>2, <4>1 DEF LiveInv
    <3> QED BY <3>1, <3>2
  <2> QED BY <2>1, <2>2 DEF LiveInv
<1>14. SetsInv'
  <2>1. ASSUME NEW t \in Size, NEW c \in Stacked', c \in free_sub_arr'[t]
        PROVE  <<t, c>> \in kept
    <3>1. c \in Stacked /\ c # b /\ c \in Blk
      BY <1>2, <1>3, StackedBlk
    <3> QED BY <1>2, <1>8, <2>1, <3>1 DEF SetsInv
  <2>2. ASSUME NEW t \in Size, NEW c \in Cut'
        PROVE  c \in free_sub_arr'[t] /\ <<t, c>> \notin kept
                 <=> t = second'[c] /\ Cardinality(Taken(c)') < NumSub[t]
    <3>1. CASE c = b
      <4>1. second'[c] = s /\ (Cardinality(Taken(c)') < NumSub[s] <=> NumSub[s] # 1)
        BY <1>6, <1>7, <3>1
      <4>2. c \in free_sub_arr'[t] /\ <<t, c>> \notin kept <=> t = s /\ NumSub[s] # 1
        BY <1>4, <1>8, <1>9, <1>10, <3>1
      <4> QED BY <4>1, <4>2
    <3>2. CASE c # b
      <4>1. c \in Cut /\ c \in Blk
        BY <1>2, <1>4, <3>2, StackedBlk
      <4> QED BY <1>2, <1>6, <1>8, <3>2, <4>1 DEF SetsInv
    <3> QED BY <3>1, <3>2
  <2> QED BY <1>1, <2>1, <2>2 DEF SetsInv
<1>15. KeptInv'
  <2>1. ASSUME NEW t \in Size, NEW c \in Blk, <<t, c>> \in kept
        PROVE  /\ c \in free_sub_arr'[t] /\ NumSub[t] = 1
               /\ second'[c] = t => c \in Stacked' /\ first'[c] = {}
    <3>1. /\ c \in free_sub_arr[t] /\ NumSub[t] = 1 /\ t # s
          /\ second[c] = t => c \in Stacked /\ first[c] = {}
      BY <1>2, <1>9, <2>1 DEF KeptInv
    <3> QED BY <1>3, <1>6, <1>8, <3>1
  <2> QED BY <1>1, <1>2, <2>1 DEF KeptInv
<1> QED BY <1>11, <1>12, <1>13, <1>14, <1>15 DEF SubInv

LEMMA DeallocKeeps ==
  ASSUME SubInv, NEW b \in Blk, NEW sub \in AllBits, Dealloc(b, sub)
  PROVE  SubInv'
<1>0. PICK s : s = second[b]
  OBVIOUS
<1>1. /\ <<b, sub, s>> \in live
      /\ first' = [first EXCEPT ![b] = first[b] \cup {sub}]
      /\ live' = live \ {<<b, sub, s>>}
      /\ UNCHANGED <<second, null, overlapped, kept, broken>>
  BY <1>0 DEF Dealloc
<1>2. TypeOK /\ StackInv /\ LiveInv /\ SetsInv /\ KeptInv
  BY DEF SubInv
<1>3. s \in Size /\ b \in Cut /\ sub \in Taken(b) /\ b \notin Stacked
  BY <1>0, <1>1, <1>2 DEF TypeOK, LiveInv, Cut
<1>4. /\ Taken(b)' = Taken(b) \ {sub}
      /\ \A c \in Blk : c # b => first'[c] = first[c] /\ Taken(c)' = Taken(c)
  BY <1>1, <1>2 DEF Taken, TypeOK
<1>5. /\ Cardinality(Taken(b)) \in Nat /\ Cardinality(Taken(b)) > 0
      /\ Cardinality(Taken(b)') = Cardinality(Taken(b)) - 1
  <2>1. IsFiniteSet(Taken(b)) /\ Cardinality(Taken(b)) \in Nat
    BY <1>2, BitFacts
  <2>2. Cardinality(Taken(b)') = Cardinality(Taken(b)) - 1
    BY <1>3, <1>4, <2>1, FS_RemoveElement
  <2>3. Cardinality(Taken(b)) # 0
    BY <1>3, <2>1, FS_EmptySet
  <2> QED BY <2>1, <2>2, <2>3
<1>6. Cardinality(Taken(b)) <= NumSub[s] /\ NumSub[s] \in Nat
  <2>1. Taken(b) \subseteq 0 .. NumSub[s] - 1 /\ NumSub[s] \in Nat
    BY <1>0, <1>2, <1>3, NumSubType DEF LiveInv
  <2>2. IsFiniteSet(0 .. NumSub[s] - 1) /\ Cardinality(0 .. NumSub[s] - 1) = NumSub[s]
    BY <2>1, FirstBits
  <2> QED BY <2>1, <2>2, FS_Subset
<1>7. WasFull(b) <=> Cardinality(Taken(b)) = NumSub[s]
  BY <1>0, <1>2, <1>3, BitFacts, FullWhen DEF WasFull, Taken
<1>8. first[b] \cup {sub} = AllBits <=> Taken(b)' = {}
  BY <1>2, <1>3, <1>4 DEF Taken, TypeOK
<1>9. first' \in [Blk -> SUBSET AllBits] /\ live' \subseteq Blk \X AllBits \X Size
  BY <1>1, <1>2 DEF TypeOK
<1>10. \A t \in Size, c \in Blk : <<t, c>> \in kept =>
         /\ c \in free_sub_arr[t] /\ NumSub[t] = 1
         /\ second[c] = t => c \in Stacked /\ first'[c] = {}
         /\ t = s => c # b
  BY <1>0, <1>2, <1>3, <1>4 DEF KeptInv
<1>11. \A c \in Blk, p \in AllBits, t \in Size :
         <<c, p, t>> \in live' <=> c \in Cut /\ p \in Taken(c)' /\ t = second[c]
  <2> TAKE c \in Blk, p \in AllBits, t \in Size
  <2>1. <<c, p, t>> \in live' <=> <<c, p, t>> \in live /\ ~(c = b /\ p = sub /\ t = s)
    BY <1>1
  <2>2. <<c, p, t>> \in live <=> c \in Cut /\ p \in Taken(c) /\ t = second[c]
    BY <1>2 DEF LiveInv
  <2> QED BY <1>0, <1>4, <2>1, <2>2
<1>12. \A c \in Cut : c # b => /\ Taken(c)' \subseteq 0 .. NumSub[second[c]] - 1
                               /\ Taken(c)' = {} => NumSub[second[c]] = 1
  BY <1>2, <1>4, StackedBlk DEF LiveInv
<1>13. Taken(b)' \subseteq 0 .. NumSub[s] - 1
  BY <1>0, <1>2, <1>3, <1>4 DEF LiveInv
<1>14. CASE Cardinality(Taken(b)) = NumSub[s]
  <2>1. free_sub_arr' = [free_sub_arr EXCEPT ![s] = @ \cup {b}] /\ UNCHANGED free_blocks
    BY <1>0, <1>7, <1>14 DEF Dealloc
  <2>2. /\ free_sub_arr' \in [Size -> SUBSET Blk]
        /\ \A t \in Size, c \in Blk :
             c \in free_sub_arr'[t] <=> c \in free_sub_arr[t] \/ (t = s /\ c = b)
    BY <1>2, <1>3, <2>1, SetsPlus
  <2>3. Stacked' = Stacked /\ Cut' = Cut
    BY <2>1 DEF Stacked, Cut
  <2>4. TypeOK' /\ StackInv'
    BY <1>1, <1>2, <1>9, <2>1, <2>2 DEF TypeOK, StackInv
  <2>5. LiveInv'
    <3>1. Taken(b)' = {} => NumSub[s] = 1
      <4>1. Taken(b)' = {} => Cardinality(Taken(b)') = 0
        BY FS_EmptySet
      <4> QED BY <1>5, <1>14, <4>1
    <3>2. \A c \in Cut : /\ Taken(c)' \subseteq 0 .. NumSub[second[c]] - 1
                         /\ Taken(c)' = {} => NumSub[second[c]] = 1
      BY <1>0, <1>12, <1>13, <3>1
    <3> QED BY <1>1, <1>11, <2>3, <3>2 DEF LiveInv
  <2>6. SetsInv'
    <3>1. \A t \in Size : \A c \in Stacked : c \in free_sub_arr'[t] => <<t, c>> \in kept
      BY <1>2, <1>3, <2>2, StackedBlk DEF SetsInv
    <3>2. ASSUME NEW t \in Size, NEW c \in Cut
          PROVE  c \in free_sub_arr'[t] /\ <<t, c>> \notin kept
                   <=> t = second[c] /\ Cardinality(Taken(c)') < NumSub[t]
      <4>1. c \in Blk /\ (c \in free_sub_arr[t] /\ <<t, c>> \notin kept
                           <=> t = second[c] /\ Cardinality(Taken(c)) < NumSub[t])
        BY <1>2, StackedBlk DEF SetsInv
      <4>2. CASE c # b
        BY <1>4, <2>2, <4>1, <4>2
      <4>3. CASE c = b
        <5>1. Cardinality(Taken(b)') < NumSub[s] /\ <<s, b>> \notin kept
          BY <1>3, <1>5, <1>10, <1>14
        <5> QED BY <1>0, <1>14, <2>2, <4>1, <4>3, <5>1
      <4> QED BY <4>2, <4>3
    <3> QED BY <1>1, <2>3, <3>1, <3>2 DEF SetsInv
  <2>7. KeptInv'
    BY <1>1, <1>2, <1>10, <2>2, <2>3 DEF KeptInv
  <2> QED BY <2>4, <2>5, <2>6, <2>7 DEF SubInv
<1>15. CASE Cardinality(Taken(b)) # NumSub[s] /\ Taken(b)' = {}
  <2>1. /\ free_sub_arr' = [free_sub_arr EXCEPT ![s] = @ \ {b}]
        /\ free_blocks' = Append(free_blocks, b)
    BY <1>0, <1>7, <1>8, <1>15 DEF Dealloc
  <2>2. /\ free_sub_arr' \in [Size -> SUBSET Blk]
        /\ \A t \in Size, c \in Blk :
             c \in free_sub_arr'[t] <=> c \in free_sub_arr[t] /\ ~(t = s /\ c = b)
    BY <1>2, <1>3, <2>1, SetsMinus
  <2>3. /\ Stacked' = Stacked \cup {b} /\ Cut' = Cut \ {b}
        /\ free_blocks' \in Seq(Blk) /\ StackInv'
    <3>1. Stacked = InSeq(free_blocks) /\ Stacked' = InSeq(free_blocks')
      BY DEF Stacked, InSeq
    <3>2. free_blocks \in Seq(Blk) /\ OnceEach(free_blocks)
      BY <1>2 DEF TypeOK, StackInv
    <3>3. free_blocks' \in Seq(Blk) /\ OnceEach(free_blocks') /\ Stacked' = Stacked \cup {b}
      BY <1>3, <2>1, <3>1, <3>2, Push
    <3> QED BY <3>3 DEF Cut, StackInv
  <2>4. TypeOK'
    BY <1>1, <1>2, <1>9, <2>2, <2>3 DEF TypeOK
  <2>5. LiveInv'
    <3>1. \A c \in Blk, p \in AllBits, t \in Size :
            <<c, p, t>> \in live' <=> c \in Cut' /\ p \in Taken(c)' /\ t = second[c]
      BY <1>11, <1>15, <2>3
    <3> QED BY <1>1, <1>12, <2>3, <3>1 DEF LiveInv
  <2>6. SetsInv'
    <3>1. ASSUME NEW t \in Size, NEW c \in Stacked', c \in free_sub_arr'[t]
          PROVE  <<t, c>> \in kept
      <4>1. CASE c \in Stacked
        BY <1>2, <2>2, <3>1, <4>1, StackedBlk DEF SetsInv
      <4>2. CASE c = b
        BY <1>0, <1>2, <1>3, <2>2, <3>1, <4>2 DEF SetsInv
      <4> QED BY <2>3, <4>1, <4>2
    <3>2. ASSUME NEW t \in Size, NEW c \in Cut'
          PROVE  c \in free_sub_arr'[t] /\ <<t, c>> \notin kept
                   <=> t = second[c] /\ Cardinality(Taken(c)') < NumSub[t]
      <4>1. c \in Cut /\ c # b /\ c \in Blk
        BY <1>2, <2>3, StackedBlk
      <4> QED BY <1>2, <1>4, <2>2, <4>1 DEF SetsInv
    <3> QED BY <1>1, <3>1, <3>2 DEF SetsInv
  <2>7. KeptInv'
    BY <1>1, <1>2, <1>10, <2>2, <2>3 DEF KeptInv
  <2> QED BY <2>3, <2>4, <2>5, <2>6, <2>7 DEF SubInv
<1>16. CASE Cardinality(Taken(b)) # NumSub[s] /\ Taken(b)' # {}
  <2>1. UNCHANGED <<free_sub_arr, free_blocks>>
    BY <1>0, <1>7, <1>8, <1>16 DEF Dealloc
  <2>2. Stacked' = Stacked /\ Cut' = Cut
    BY <2>1 DEF Stacked, Cut
  <2>3. TypeOK' /\ StackInv'
    BY <1>1, <1>2, <1>9, <2>1 DEF TypeOK, StackInv
  <2>4. LiveInv'
    <3>1. \A c \in Cut : /\ Taken(c)' \subseteq 0 .. NumSub[second[c]] - 1
                         /\ Taken(c)' = {} => NumSub[second[c]] = 1
      BY <1>0, <1>12, <1>13, <1>16
    <3> QED BY <1>1, <1>11, <2>2, <3>1 DEF LiveInv
  <2>5. SetsInv'
    <3>1. ASSUME NEW t \in Size, NEW c \in Cut
          PROVE  c \in free_sub_arr[t] /\ <<t, c>> \notin kept
                   <=> t = second[c] /\ Cardinality(Taken(c)') < NumSub[t]
      <4>1. c \in Blk /\ (c \in free_sub_arr[t] /\ <<t, c>> \notin kept
                           <=> t = second[c] /\ Cardinality(Taken(c)) < NumSub[t])
        BY <1>2, StackedBlk DEF SetsInv
      <4>2. CASE c # b
        BY <1>4, <4>1, <4>2
      <4>3. CASE c = b
        <5>1. Cardinality(Taken(b)) < NumSub[s] /\ Cardinality(Taken(b)') < NumSub[s]
          BY <1>5, <1>6, <1>16
        <5> QED BY <1>0, <4>1, <4>3, <5>1
      <4> QED BY <4>2, <4>3
    <3> QED BY <1>1, <1>2, <2>1, <2>2, <3>1 DEF SetsInv
  <2>6. KeptInv'
    BY <1>1, <1>2, <1>10, <2>1, <2>2 DEF KeptInv
  <2> QED BY <2>3, <2>4, <2>5, <2>6 DEF SubInv
<1> QED BY <1>14, <1>15, <1>16

(* With nothing handed out, only blocks of one sub-block are off the stack. *)
LEMMA ResizeKeeps ==
  ASSUME SubInv, ~broken, Resize
  PROVE  SubInv'
<1>1. /\ live = {} /\ free_blocks' = [i \in 1 .. max_blocks |-> i - 1]
      /\ first' \in [Blk -> {{}}] /\ second' \in [Blk -> {ZeroSize}]
      /\ null' \in BOOLEAN
      /\ kept' = {e \in Size \X Blk : e[2] \in free_sub_arr[e[1]]}
      /\ UNCHANGED <<free_sub_arr, live, overlapped, broken>>
  BY DEF Resize
<1>2. max_blocks \in Nat \ {0} /\ ZeroSize \in Size
  BY SubPoolAssumption DEF ZeroSize
<1>3. TypeOK /\ LiveInv /\ SetsInv /\ KeptInv
  BY DEF SubInv
<1>4. free_blocks' \in Seq(Blk) /\ DOMAIN free_blocks' = 1 .. max_blocks /\ StackInv'
  BY <1>1, <1>2 DEF Blk, StackInv, OnceEach
<1>5. Stacked' = Blk
  <2>1. \A b \in Blk : b + 1 \in 1 .. max_blocks /\ free_blocks'[b + 1] = b
    BY <1>1, <1>2 DEF Blk
  <2>2. Blk \subseteq Stacked'
    BY <1>4, <2>1 DEF Stacked
  <2>3. Stacked' \subseteq Blk
    BY <1>1, <1>2, <1>4 DEF Stacked, Blk
  <2> QED BY <2>2, <2>3
<1>6. Cut' = {}
  BY <1>5 DEF Cut
<1>7. TypeOK'
  BY <1>1, <1>2, <1>3, <1>4 DEF TypeOK
<1>8. LiveInv'
  BY <1>1, <1>6 DEF LiveInv
<1>9. \A s \in Size, b \in Blk : <<s, b>> \in kept' <=> b \in free_sub_arr[s]
  BY <1>1
<1>10. SetsInv'
  BY <1>1, <1>5, <1>6, <1>9 DEF SetsInv
<1>11. ASSUME NEW s \in Size, NEW b \in Blk, b \in free_sub_arr[s]
       PROVE  NumSub[s] = 1
  <2>1. CASE <<s, b>> \in kept
    BY <1>3, <2>1 DEF KeptInv
  <2>2. CASE <<s, b>> \notin kept
    <3>1. b \in Cut /\ s = second[b]
      BY <1>3, <1>11, <2>2, StackedBlk DEF SetsInv
    <3>2. Taken(b) \subseteq AllBits
      BY DEF Taken
    <3>3. Taken(b) = {}
      BY <1>1, <1>3, <3>1, <3>2 DEF LiveInv
    <3> QED BY <1>3, <3>1, <3>3 DEF LiveInv
  <2> QED BY <2>1, <2>2
<1>12. KeptInv'
  <2>1. \A b \in Blk : first'[b] = {}
    BY <1>1
  <2> QED BY <1>1, <1>5, <1>9, <1>11, <2>1 DEF KeptInv
<1> QED BY <1>4, <1>7, <1>8, <1>10, <1>12 DEF SubInv

LEMMA AllocBreaksKeeps ==
  ASSUME SubInv, NEW s \in Size, AllocBreaks(s)
  PROVE  SubInv'
<1>1. /\ IF free_sub_arr[s] = {} THEN free_blocks # <<>> /\ null
         ELSE \E b \in free_sub_arr[s] : ~Sound(s, b)
      /\ broken' = TRUE /\ UNCHANGED <<pool, free_sub_arr, live, overlapped, kept>>
  BY DEF AllocBreaks
<1>2. ASSUME kept = {}, ~null PROVE FALSE
  <2>1. PICK b \in free_sub_arr[s] : ~Sound(s, b)
    BY <1>1, <1>2
  <2>2. b \in Blk
    BY DEF SubInv, TypeOK
  <2>3. b \in Cut /\ s = second[b] /\ Cardinality(Taken(b)) < NumSub[s]
    BY <1>2, <2>1, <2>2, StackedBlk DEF SubInv, SetsInv
  <2>4. Taken(b) \subseteq 0 .. NumSub[s] - 1
    BY <2>3 DEF SubInv, LiveInv
  <2>5. first[b] # {}
    BY <2>2, <2>3, <2>4, BitFacts, NumSubType, OneFree DEF SubInv, Taken
  <2> QED BY <1>2, <2>1, <2>3, <2>5 DEF Sound
<1>3. TypeOK' /\ StackInv' /\ LiveInv' /\ SetsInv'
  <2>1. TypeOK'
    BY <1>1 DEF SubInv, pool, TypeOK
  <2>2. StackInv' /\ LiveInv' /\ SetsInv'
    BY <1>1 DEF SubInv, pool, StackInv, LiveInv, SetsInv, Cut, Stacked, Taken
  <2> QED BY <2>1, <2>2
<1>4. KeptInv'
  <2>1. null \/ kept # {}
    BY <1>2
  <2>2. null' = null /\ kept' = kept
    BY <1>1 DEF pool
  <2>3. null' \/ kept' # {}
    BY <2>1, <2>2, Zenon
  <2>4. \A t \in Size, c \in Blk : <<t, c>> \in kept' =>
          /\ c \in free_sub_arr'[t] /\ NumSub[t] = 1
          /\ second'[c] = t => c \in Stacked' /\ first'[c] = {}
    BY <1>1 DEF SubInv, pool, KeptInv, Stacked
  <2> QED BY <2>3, <2>4, Zenon DEF KeptInv
<1> QED BY <1>3, <1>4 DEF SubInv

LEMMA SubStep == SubInv /\ [Next]_vars => SubInv'
<1> SUFFICES ASSUME SubInv, [Next]_vars PROVE SubInv'
  OBVIOUS
<1>1. CASE UNCHANGED vars
  <2>1. TypeOK'
    BY <1>1 DEF vars, pool, SubInv, TypeOK
  <2>2. StackInv' /\ LiveInv' /\ SetsInv'
    BY <1>1 DEF vars, pool, SubInv, StackInv, LiveInv, SetsInv, Cut, Stacked, Taken
  <2>3. Stacked' = Stacked
    BY <1>1 DEF vars, pool, Stacked
  <2>4. UNCHANGED <<first, second, free_sub_arr, null, kept, broken>>
    BY <1>1 DEF vars, pool
  <2>5. KeptInv'
    BY <2>3, <2>4, Zenon DEF SubInv, KeptInv
  <2> QED BY <2>1, <2>2, <2>5 DEF SubInv
<1>2. CASE Next
  BY <1>2, AllocSubKeeps, AllocBlockKeeps, AllocBreaksKeeps, ResizeKeeps, DeallocKeeps
  DEF Next
<1> QED BY <1>1, <1>2

-----------------------------------------------------------------------------
(* The properties, from the invariant.                                     *)

LEMMA LiveBlocks ==
  ASSUME SubInv, NEW a \in live
  PROVE  /\ a[1] \in Cut /\ a[2] \in Taken(a[1]) /\ a[3] = second[a[1]]
         /\ a[2] < NumSub[a[3]] /\ a = <<a[1], a[2], a[3]>>
<1>1. /\ a[1] \in Blk /\ a[2] \in AllBits /\ a[3] \in Size
      /\ a = <<a[1], a[2], a[3]>>
  BY DEF SubInv, TypeOK
<1>2. a[1] \in Cut /\ a[2] \in Taken(a[1]) /\ a[3] = second[a[1]]
  BY <1>1 DEF SubInv, LiveInv
<1>3. a[2] \in 0 .. NumSub[a[3]] - 1
  BY <1>2 DEF SubInv, LiveInv
<1>4. NumSub[a[3]] \in Nat
  BY <1>1, NumSubType
<1> QED BY <1>1, <1>2, <1>3, <1>4

(* A sub-block alloc gives out has a clear bit only from then on, and a    *)
(* block it cuts has none live, whatever its size was before.              *)
LEMMA OverlapStep ==
  ASSUME SubInv, ~overlapped, [Next]_vars
  PROVE  ~overlapped'
<1>1. ASSUME NEW s \in Size, AllocSub(s)
      PROVE  ~overlapped'
  <2>1. PICK b \in free_sub_arr[s] : Sound(s, b) /\ HandOut(b, Min(first[b]), s)
    BY <1>1 DEF AllocSub
  <2>2. first[b] \in SUBSET AllBits
    BY <2>1 DEF SubInv, TypeOK
  <2>3. Min(first[b]) \in first[b]
    BY <2>1, <2>2, LeastBit DEF Sound
  <2>4. ASSUME NEW a \in live, a[1] = b PROVE a[2] # Min(first[b]) /\ a[3] = s
    <3>1. a[2] \in Taken(b) /\ a[3] = second[b]
      BY <2>4, LiveBlocks
    <3> QED BY <2>1, <2>3, <3>1 DEF Taken, Sound
  <2> QED BY <2>1, <2>4 DEF HandOut
<1>2. ASSUME NEW s \in Size, AllocBlock(s)
      PROVE  ~overlapped'
  <2>1. PICK b : b = free_blocks[Len(free_blocks)] /\ HandOut(b, 0, s)
    BY <1>2 DEF AllocBlock
  <2>2. free_blocks \in Seq(Blk) /\ free_blocks # <<>>
    BY <1>2 DEF AllocBlock, SubInv, TypeOK
  <2>3. Len(free_blocks) \in DOMAIN free_blocks
    BY <2>2
  <2>4. b \in Stacked
    BY <2>1, <2>3 DEF Stacked
  <2>5. ASSUME NEW a \in live PROVE a[1] # b
    BY <2>4, LiveBlocks DEF Cut
  <2> QED BY <2>1, <2>5 DEF HandOut
<1>3. CASE UNCHANGED vars \/ Resize \/ (\E s \in Size : AllocBreaks(s))
             \/ (\E b \in Blk, sub \in AllBits : Dealloc(b, sub))
  BY <1>3 DEF vars, Resize, AllocBreaks, Dealloc
<1> QED BY <1>1, <1>2, <1>3 DEF Next

LEMMA LiveCount ==
  ASSUME SubInv, NEW b \in Cut
  PROVE  /\ Taken(b) = {a[2] : a \in LiveIn(b)}
         /\ Cardinality(LiveIn(b)) = Cardinality(Taken(b))
<1>1. b \in Blk /\ second[b] \in Size /\ TypeOK
  BY StackedBlk DEF SubInv, TypeOK
<1>2. \A p \in Taken(b) : <<b, p, second[b]>> \in LiveIn(b)
  BY <1>1 DEF SubInv, LiveInv, LiveIn, Taken
<1>3. \A a \in LiveIn(b) : a[2] \in Taken(b) /\ a = <<b, a[2], second[b]>>
  BY LiveBlocks DEF LiveIn
<1>4. Taken(b) = {a[2] : a \in LiveIn(b)}
  BY <1>2, <1>3
<1> DEFINE f == [p \in Taken(b) |-> <<b, p, second[b]>>]
<1>5. f \in Bijection(Taken(b), LiveIn(b))
  <2>1. f \in Surjection(Taken(b), LiveIn(b))
    BY <1>2, <1>3 DEF Surjection
  <2>2. f \in Injection(Taken(b), LiveIn(b))
    BY <1>2 DEF Injection, IsInjective
  <2> QED BY <2>1, <2>2 DEF Bijection
<1>6. IsFiniteSet(Taken(b))
  BY <1>1, BitFacts
<1> HIDE DEF f
<1>7. ExistsBijection(Taken(b), LiveIn(b))
  BY <1>5 DEF ExistsBijection
<1> QED BY <1>4, <1>6, <1>7, FS_Bijection

LEMMA SubAccounting == SubInv => Accounting
<1> SUFFICES ASSUME SubInv PROVE Accounting
  OBVIOUS
<1>1. Cardinality(Stacked) = Len(free_blocks)
  <2> DEFINE n == Len(free_blocks)
  <2>1. n \in Nat /\ DOMAIN free_blocks = 1 .. n /\ free_blocks \in [1 .. n -> Blk]
    BY DEF SubInv, TypeOK
  <2>2. free_blocks \in Surjection(1 .. n, Stacked)
    BY <2>1 DEF Surjection, Stacked
  <2>3. free_blocks \in Injection(1 .. n, Stacked)
    BY <2>1, <2>2 DEF SubInv, StackInv, OnceEach, Injection, IsInjective, Surjection
  <2>4. IsFiniteSet(1 .. n) /\ Cardinality(1 .. n) = n
    BY <2>1, FS_Interval
  <2> QED BY <2>2, <2>3, <2>4, FS_Surjection
<1>2. ASSUME NEW b \in Stacked PROVE LiveIn(b) = {}
  BY LiveBlocks DEF LiveIn, Cut
<1>3. ASSUME NEW b \in Stacked, NEW s \in Size, b \in free_sub_arr[s]
      PROVE  <<s, b>> \in kept
  BY <1>3 DEF SubInv, SetsInv
<1>4. ASSUME NEW b \in Cut
      PROVE  /\ AllBits \ first[b] = {a[2] : a \in LiveIn(b)}
             /\ \A s \in Size : b \in free_sub_arr[s] /\ <<s, b>> \notin kept
                  <=> s = second[b] /\ Cardinality(LiveIn(b)) < NumSub[s]
  <2>1. AllBits \ first[b] = {a[2] : a \in LiveIn(b)}
    BY LiveCount DEF Taken
  <2>2. Cardinality(LiveIn(b)) = Cardinality(Taken(b))
    BY LiveCount
  <2> QED BY <2>1, <2>2 DEF SubInv, SetsInv
<1> QED BY <1>1, <1>2, <1>3, <1>4 DEF Accounting, Cut

(* For any number of blocks, any width of the bitmap and any sizes: alloc  *)
(* never gives out what overlaps a live sub-block, and bitmaps, size sets  *)
(* and stack agree.                                                        *)
THEOREM SubBlocksCorrect == Spec => [](TypeOK /\ NoOverlap /\ Accounting)
<1>1. SubInv /\ ~overlapped => NoOverlap
  BY LiveBlocks DEF NoOverlap
<1>2. SubInv => TypeOK /\ Accounting
  BY SubAccounting DEF SubInv
<1>3. Init => SubInv /\ ~overlapped
  BY SubInvInit DEF Init
<1>4. SubInv /\ ~overlapped /\ [Next]_vars => (SubInv /\ ~overlapped)'
  BY SubStep, OverlapStep
<1> QED BY <1>1, <1>2, <1>3, <1>4, PTL DEF Spec

(* And a resize of a pool with nothing handed out keeps only blocks that   *)
(* were never cut; without them the pool breaks only if memory ran out.    *)
THEOREM KeptAreWhole == Spec => []OnlyWholeBlocksKept
<1>1. SubInv => OnlyWholeBlocksKept
  <2> SUFFICES ASSUME SubInv PROVE OnlyWholeBlocksKept
    OBVIOUS
  <2>1. ASSUME NEW e \in kept PROVE NumSub[e[1]] = 1
    <3>1. e[1] \in Size /\ e[2] \in Blk /\ e = <<e[1], e[2]>>
      BY DEF SubInv, TypeOK
    <3> QED BY <3>1 DEF SubInv, KeptInv
  <2> QED BY <2>1 DEF SubInv, KeptInv, OnlyWholeBlocksKept
<1> QED BY <1>1, SubInvInit, SubStep, PTL DEF Spec
=============================================================================
