--------------------------- MODULE FixedPoolProofs ---------------------------
(***************************************************************************)
(* The Spinlock of MempoolTSFixed, for any number of threads and every     *)
(* size of pool: it excludes, and only an exception of resize loses it.    *)
(***************************************************************************)
EXTENDS FixedPool, FiniteSetTheorems, TLAPS

(* Whoever is inside set the flag, and alone: OneInside is not inductive   *)
(* without the flag, nor LockNotLost without OneInside.                    *)
LockInv ==
  /\ pc \in [Holder -> Critical \cup {"idle", "read"}] /\ m_lock \in BOOLEAN
  /\ kind # "ts" => \A t \in Holder : pc[t] \notin Critical
  /\ (\E t \in Holder : pc[t] \in Critical) => m_lock
  /\ OneInside /\ LockNotLost

(* A thread leaves the section with the flag cleared, or by an exception.  *)
LEMMA LeaveKeeps ==
  ASSUME LockInv, NEW t \in Holder, NEW next \in {"idle", "read"}, kind' = kind,
         kind = "ts" => pc[t] \in Critical,
         \/ UnlockTo(t, next) /\ threw' = threw
         \/ pc' = [pc EXCEPT ![t] = next] /\ m_lock' = m_lock /\ threw' = TRUE
  PROVE  LockInv'
<1> USE DEF LockInv, Critical
<1>1. CASE kind # "ts" /\ pc' = pc /\ m_lock' = m_lock /\ (threw' = threw \/ threw')
  BY <1>1 DEF OneInside, LockNotLost
<1>2. CASE pc' = [pc EXCEPT ![t] = next]
  <2>1. pc'[t] = next /\ pc' \in [Holder -> Critical \cup {"idle", "read"}]
    BY <1>2
  <2>2. \A u \in Holder \ {t} : pc'[u] = pc[u]
    BY <1>2
  <2>3. \A u \in Holder : pc'[u] \notin Critical
    BY <2>1, <2>2 DEF OneInside
  <2> QED BY <1>2, <2>1, <2>3 DEF UnlockTo, OneInside, LockNotLost
<1> QED BY <1>1, <1>2 DEF UnlockTo

LEMMA BodyKeeps ==
  ASSUME LockInv, NEW t \in Holder, Body(t)
  PROVE  LockInv'
<1>1. CASE AllocEmpty(t)
  BY <1>1, LeaveKeeps DEF AllocEmpty, In, Critical
<1>2. CASE AllocPos(t)
  BY <1>2, LeaveKeeps DEF AllocPos, In, Critical
<1>3. CASE AllocRead(t)
  <2>1. /\ pc[t] = "read" /\ pc' = [pc EXCEPT ![t] = "idle"]
        /\ UNCHANGED <<kind, m_lock, threw>>
    BY <1>3 DEF AllocRead
  <2>2. pc' \in [Holder -> Critical \cup {"idle", "read"}]
    BY <2>1 DEF LockInv
  <2>3. \A u \in Holder : pc'[u] \in Critical <=> pc[u] \in Critical
    BY <2>1 DEF LockInv, Critical
  <2> QED BY <2>1, <2>2, <2>3 DEF LockInv, OneInside, LockNotLost
<1>4. CASE Alloc(t)
  BY <1>4 DEF Alloc, LockInv, OneInside, LockNotLost
<1>5. CASE Dealloc(t)
  BY <1>5, LeaveKeeps DEF Dealloc, In, Critical
<1>6. ASSUME NEW n, NEW s, ResizeRefused(t, n, s) \/ ResizeFails(t, n, s) PROVE LockInv'
  BY <1>6, LeaveKeeps DEF ResizeRefused, ResizeFails, Throw, In, Critical
<1>7. ASSUME NEW n, NEW s, Resize(t, n, s) PROVE LockInv'
  BY <1>7, LeaveKeeps DEF Resize, In, Critical
<1> QED BY <1>1, <1>2, <1>3, <1>4, <1>5, <1>6, <1>7 DEF Body

LEMMA LockKeeps ==
  ASSUME LockInv, NEW t \in Holder, NEW op \in Critical, Lock(t, op)
  PROVE  LockInv'
<1>1. \A u \in Holder : pc[u] \notin Critical
  BY DEF Lock, LockInv
<1>2. /\ kind' = kind /\ kind = "ts" /\ m_lock' /\ threw' = threw
      /\ pc' = [pc EXCEPT ![t] = op]
  BY DEF Lock
<1>3. pc' \in [Holder -> Critical \cup {"idle", "read"}] /\ pc'[t] = op
  BY <1>2 DEF LockInv
<1>4. \A u \in Holder \ {t} : pc'[u] \notin Critical
  BY <1>1, <1>2 DEF LockInv
<1> QED BY <1>2, <1>3, <1>4 DEF LockInv, OneInside, LockNotLost

(* Whatever the threads call, and however many spin in lock(), one is      *)
(* inside at a time, and the lock is held only by one that will release    *)
(* it, until an exception of resize leaves it held for ever.               *)
THEOREM LockCorrect == Spec => [](OneInside /\ LockNotLost)
<1>1. Init => LockInv
  BY DEF Init, LockInv, OneInside, LockNotLost, Critical
<1>2. LockInv /\ [Next]_vars => LockInv'
  <2> SUFFICES ASSUME LockInv, [Next]_vars PROVE LockInv'
    OBVIOUS
  <2>1. CASE Next
    BY <2>1, BodyKeeps, LockKeeps DEF Next
  <2>2. CASE UNCHANGED vars
    BY <2>2 DEF vars, LockInv, OneInside, LockNotLost
  <2> QED BY <2>1, <2>2
<1>3. LockInv => OneInside /\ LockNotLost
  BY DEF LockInv
<1> QED BY <1>1, <1>2, <1>3, PTL DEF Spec

-----------------------------------------------------------------------------
(* The arithmetic of addresses and numbers.                                *)

LEMMA HalfType == Half \in Nat /\ Half > 1 /\ None = Half
BY PoolAssumption DEF None

LEMMA SmallMod ==
  ASSUME NEW a \in Nat, NEW m \in Nat, a < m
  PROVE  a % m = a
OBVIOUS

LEMMA SignedType ==
  ASSUME NEW x \in Int
  PROVE  Signed(x) \in Int32
<1>1. (x + Half) % (2 * Half) \in 0 .. 2 * Half - 1
  BY HalfType
<1> QED BY <1>1, HalfType DEF Signed, Int32

LEMMA SignedSmall ==
  ASSUME NEW x \in Nat, x < Half
  PROVE  Signed(x) = x
<1>1. (x + Half) % (2 * Half) = x + Half
  BY SmallMod, HalfType
<1> QED BY <1>1, HalfType DEF Signed

LEMMA DivProduct ==
  ASSUME NEW s \in Nat \ {0}, NEW k \in Nat
  PROVE  (s * k) \div s = k /\ (s * k) % s = 0
OBVIOUS

LEMMA ProductOrder ==
  ASSUME NEW s \in Nat \ {0}, NEW n \in Nat, NEW k \in 0 .. n - 1
  PROVE  s * k \in Nat /\ s * k <= n * s - s
OBVIOUS

LEMMA ProductInjective ==
  ASSUME NEW s \in Nat \ {0}, NEW j \in Nat, NEW k \in Nat, s * j = s * k
  PROVE  j = k
OBVIOUS

LEMMA DivSmall ==
  ASSUME NEW a \in Int, NEW s \in Nat \ {0}
  PROVE  /\ a \div s \in Int
         /\ a >= 0 => 0 <= a \div s /\ a \div s <= a
         /\ a < 0 => a <= a \div s /\ a \div s <= 0
<1> DEFINE q == a \div s
<1>1. q \in Int /\ s * q <= a /\ a < s * q + s
  OBVIOUS
<1>2. ASSUME a >= 0 PROVE 0 <= q /\ q <= a
  <2>1. q >= 0
    <3>1. q < 0 => s * (q + 1) <= 0
      BY <1>1
    <3> QED BY <1>1, <1>2, <3>1
  <2>2. q <= s * q
    BY <1>1, <2>1
  <2> QED BY <1>1, <2>1, <2>2
<1>3. ASSUME a < 0 PROVE a <= q /\ q <= 0
  <2>1. q < 0
    <3>1. q >= 0 => s * q >= 0
      BY <1>1
    <3> QED BY <1>1, <1>3, <3>1
  <2>2. s * (q + 1) <= q + 1
    BY <1>1, <2>1
  <2> QED BY <1>1, <2>1, <2>2
<1> QED BY <1>1, <1>2, <1>3

(* The number of an entry is an int32_t when its address is.               *)
LEMMA EntryType ==
  ASSUME NEW a \in Int32, kind \in {"ts", "fixed", "po2", "pos"},
         block_size \in Nat \ {0}
  PROVE  Entry(a) \in Int32
<1>1. a \in Int /\ -a \in Int
  BY HalfType DEF Int32
<1>2. a \div block_size \in Int32
  BY <1>1, DivSmall, HalfType DEF Int32
<1>3. ASSUME a < 0 PROVE -((-a) \div block_size) \in Int32
  <2>1. -a >= 0 /\ -a \in Int /\ -a <= Half
    BY <1>1, <1>3, HalfType DEF Int32
  <2>2. (-a) \div block_size \in 0 .. Half
    BY <2>1, DivSmall, HalfType
  <2> QED BY <2>2, HalfType DEF Int32
<1> QED BY <1>1, <1>2, <1>3 DEF Entry

LEMMA AddressType ==
  ASSUME NEW e \in Int32, block_size \in Nat
  PROVE  Address(e) \in Int32
<1>1. e * block_size \in Int
  BY HalfType DEF Int32
<1> QED BY <1>1, SignedType DEF Address

-----------------------------------------------------------------------------
(* What each call has in hand, and what the array and its index are worth. *)

Busy == {t \in Holder : temp_pos[t] # None \/ holds[t] # None}

PoolTypes ==
  /\ kind \in Kind /\ args \in Int32 \X Int32 /\ free_block \in Nat
  /\ temp_pos \in [Holder -> 0 .. None] /\ holds \in [Holder -> -Half .. None]
  /\ threw \in BOOLEAN /\ crashed \in BOOLEAN

CallInv ==
  /\ kind # "ts" => \A t \in Holder : pc[t] = "idle"
  /\ \A t \in Holder :
       /\ temp_pos[t] # None <=> pc[t] = "read"
       /\ pc[t] \in {"alloc", "read"} => holds[t] = None
       /\ pc[t] = "dealloc" => holds[t] # None
       /\ pc[t] = "resize" => Unused

(* Without an array nobody has a block, and no thread of MempoolTSFixed    *)
(* can enter alloc, as the exception left the lock held.                   *)
ArrayInv ==
  /\ free_blocks # null =>
       /\ free_blocks \in [0 .. max_blocks - 1 -> Int32]
       /\ max_blocks > 0 /\ block_size > 0
       /\ \A t \in Holder : temp_pos[t] # None => temp_pos[t] < max_blocks
  /\ free_blocks = null =>
       /\ Unused
       /\ kind = "ts" => free_block = 0 \/ (m_lock /\ \A t \in Holder : pc[t] \notin Critical)
  /\ CountConserved

PoolInv == LockInv /\ PoolTypes /\ CallInv /\ ArrayInv

LEMMA PoolInvInit == Init => PoolInv
<1> SUFFICES ASSUME Init PROVE PoolInv
  OBVIOUS
<1>1. LockInv
  BY DEF Init, LockInv, OneInside, LockNotLost, Critical
<1>2. Half \in Nat \ {0, 1} /\ None = Half /\ Int32 = -Half .. Half - 1
  BY HalfType DEF None, Int32
<1>3. PoolTypes
  <2>1. free_block \in Nat /\ args \in Int32 \X Int32
    BY <1>2 DEF Init
  <2>2. temp_pos \in [Holder -> 0 .. None] /\ holds \in [Holder -> -Half .. None]
    BY <1>2 DEF Init
  <2> QED BY <2>1, <2>2 DEF Init, PoolTypes
<1>4. CallInv /\ ArrayInv
  BY DEF Init, CallInv, ArrayInv, CountConserved, Unused, Critical
<1> QED BY <1>1, <1>3, <1>4 DEF PoolInv

(* The holders and calls that have a block, and how many they are.         *)
LEMMA BusyCount ==
  /\ IsFiniteSet(Busy) /\ Cardinality(Busy) \in Nat
  /\ \A t \in Busy : Cardinality(Busy) > 0
  /\ Unused => Cardinality(Busy) = 0
  /\ CountConserved <=> (free_blocks # null => free_block + Cardinality(Busy) = max_blocks)
<1>1. IsFiniteSet(Busy)
  BY FS_Subset, PoolAssumption DEF Busy
<1>2. Cardinality(Busy) \in Nat
  BY <1>1, FS_CardinalityType
<1>3. Cardinality(Busy) = 0 <=> Busy = {}
  BY <1>1, FS_EmptySet
<1>4. Unused => Busy = {}
  BY DEF Unused, Busy
<1>5. CountConserved <=> (free_blocks # null => free_block + Cardinality(Busy) = max_blocks)
  BY DEF CountConserved, Busy
<1> QED BY <1>1, <1>2, <1>3, <1>4, <1>5

(* An array of entries is not the null pointer.                            *)
LEMMA ArrayNotNull ==
  ASSUME NEW n \in Nat \ {0}, NEW f, DOMAIN f = 0 .. n - 1
  PROVE  f # null
<1>1. DOMAIN null = {}
  BY DEF null
<1>2. 0 \in DOMAIN f
  OBVIOUS
<1> QED BY <1>1, <1>2

(* A step that leaves the array and the blocks alone.                      *)
LEMMA ArrayKept ==
  ASSUME PoolInv, UNCHANGED <<kind, free_blocks, free_block, args, temp_pos, holds>>,
         free_blocks = null /\ kind = "ts" =>
           free_block = 0 \/ (m_lock' /\ \A t \in Holder : pc'[t] \notin Critical)
  PROVE  ArrayInv'
BY DEF PoolInv, ArrayInv, CountConserved, Unused, max_blocks, block_size

(* A thread that is inside, or a call of a pool of one thread: no other    *)
(* thread is inside, and without an array there is nothing to take.        *)
LEMMA Inside ==
  ASSUME PoolInv, NEW t \in Holder, NEW op \in Critical, In(t, op)
  PROVE  /\ op = "alloc" => holds[t] = None
         /\ op = "dealloc" => holds[t] # None
         /\ op = "resize" => Unused
         /\ kind = "ts" => pc[t] = op /\ m_lock
         /\ kind = "ts" => \A u \in Holder : u # t => pc[u] \in {"idle", "read"}
         /\ kind = "ts" /\ free_blocks = null => free_block = 0
         /\ op \in {"alloc", "dealloc"} => temp_pos[t] = None
<1> USE DEF PoolInv, CallInv, In
<1>1. kind = "ts" => pc[t] = op /\ pc[t] \in Critical /\ m_lock
  BY DEF LockInv
<1>2. /\ op = "alloc" => holds[t] = None
      /\ op = "dealloc" => holds[t] # None
      /\ op = "resize" => Unused
  BY DEF May, Critical
<1>3. kind = "ts" => \A u \in Holder : u # t => pc[u] \in {"idle", "read"}
  BY <1>1 DEF LockInv, OneInside
<1>4. kind = "ts" /\ free_blocks = null => free_block = 0
  BY <1>1 DEF ArrayInv
<1>5. op \in {"alloc", "dealloc"} => temp_pos[t] = None
  BY <1>1
<1> QED BY <1>1, <1>2, <1>3, <1>4, <1>5

(* What a call leaves of the promises to the threads: of those that are    *)
(* inside only the caller was, and it is not any more.                     *)
LEMMA LeaveCalls ==
  ASSUME PoolInv, NEW t \in Holder, NEW op \in Critical, In(t, op), kind' = kind,
         NEW next \in {"idle", "read"},
         pc' = [pc EXCEPT ![t] = next] \/ (pc' = pc /\ kind # "ts" /\ next = "idle"),
         temp_pos'[t] # None <=> next = "read",
         next = "read" => kind = "ts" /\ holds'[t] = None,
         \A u \in Holder : u # t => holds'[u] = holds[u] /\ temp_pos'[u] = temp_pos[u]
  PROVE  CallInv'
<1> USE DEF CallInv
<1>1. pc \in [Holder -> Critical \cup {"idle", "read"}] /\ CallInv
  BY DEF PoolInv, LockInv
<1>2. pc'[t] = next /\ \A u \in Holder : u # t => pc'[u] = pc[u] /\ pc[u] \in {"idle", "read"}
  BY <1>1, Inside
<1>3. ASSUME NEW u \in Holder
      PROVE  /\ temp_pos'[u] # None <=> pc'[u] = "read"
             /\ pc'[u] \in {"alloc", "read"} => holds'[u] = None
             /\ pc'[u] \notin {"dealloc", "resize"}
             /\ kind # "ts" => pc'[u] = "idle"
  BY <1>1, <1>2
<1> QED BY <1>3

LEMMA RefusedKeeps ==
  ASSUME PoolInv, NEW t \in Holder, NEW n, NEW s,
         AllocEmpty(t) \/ ResizeRefused(t, n, s)
  PROVE  PoolTypes' /\ CallInv' /\ ArrayInv'
<1> USE DEF Critical
<1>1. CASE AllocEmpty(t)
  <2>1. In(t, "alloc") /\ free_block = 0 /\ UnlockTo(t, "idle")
        /\ UNCHANGED <<kind, free_blocks, free_block, args, temp_pos, holds, threw, crashed>>
    BY <1>1 DEF AllocEmpty
  <2>2. CallInv'
    BY <2>1, Inside, LeaveCalls DEF UnlockTo
  <2>3. ArrayInv'
    BY <2>1, ArrayKept
  <2> QED BY <2>1, <2>2, <2>3 DEF PoolInv, PoolTypes
<1>2. CASE ResizeRefused(t, n, s)
  <2>1. /\ In(t, "resize") /\ pc' = [pc EXCEPT ![t] = "idle"] /\ threw' = TRUE
        /\ UNCHANGED <<kind, m_lock, free_blocks, free_block, args, temp_pos, holds, crashed>>
    BY <1>2 DEF ResizeRefused, Throw
  <2>2. temp_pos'[t] = None
    BY <2>1, Inside DEF Unused
  <2>3. CallInv'
    BY <2>1, <2>2, LeaveCalls
  <2>4. ArrayInv'
    BY <2>1, Inside, ArrayKept
  <2> QED BY <2>1, <2>3, <2>4 DEF PoolInv, PoolTypes
<1> QED BY <1>1, <1>2

LEMMA AllocPosKeeps ==
  ASSUME PoolInv, NEW t \in Holder, AllocPos(t)
  PROVE  PoolTypes' /\ CallInv' /\ ArrayInv'
<1> USE DEF Critical
<1>1. /\ kind = "ts" /\ In(t, "alloc") /\ free_block # 0
      /\ free_block' = free_block - 1
      /\ temp_pos' = [temp_pos EXCEPT ![t] = free_block - 1]
      /\ pc' = [pc EXCEPT ![t] = "read"]
      /\ UNCHANGED <<kind, free_blocks, args, holds, threw, crashed>>
  BY DEF AllocPos, UnlockTo
<1>2. /\ free_blocks # null /\ holds[t] = None /\ temp_pos[t] = None
      /\ free_block + Cardinality(Busy) = max_blocks
      /\ free_block \in Nat \ {0} /\ Cardinality(Busy) \in Nat /\ max_blocks \in Int32
  <2>1. free_blocks # null /\ holds[t] = None /\ temp_pos[t] = None
    BY <1>1, Inside
  <2>2. free_block \in Nat /\ max_blocks \in Int32 /\ CountConserved
    BY DEF PoolInv, PoolTypes, ArrayInv, max_blocks
  <2> QED BY <1>1, <2>1, <2>2, BusyCount
<1>3. free_block - 1 \in 0 .. Half - 2 /\ free_block - 1 < max_blocks
  BY <1>2, HalfType DEF Int32
<1>4. free_block - 1 # None /\ free_block - 1 \in 0 .. None /\ free_block - 1 \in Nat
  BY <1>3, HalfType
<1>5. temp_pos \in [Holder -> 0 .. None]
  BY DEF PoolInv, PoolTypes
<1>6. PoolTypes'
  BY <1>1, <1>4 DEF PoolInv, PoolTypes
<1>7. CallInv'
  BY <1>1, <1>2, <1>4, <1>5, LeaveCalls
<1>8. CountConserved'
  <2>1. Busy' = Busy \cup {t} /\ t \notin Busy
    BY <1>1, <1>2, <1>4, <1>5 DEF Busy
  <2>2. Cardinality(Busy') = Cardinality(Busy) + 1
    BY <2>1, BusyCount, FS_AddElement
  <2>3. free_block' + Cardinality(Busy') = max_blocks'
    BY <1>1, <1>2, <2>2 DEF max_blocks
  <2> QED BY <2>3 DEF CountConserved, Busy
<1>9. \A u \in Holder : temp_pos'[u] # None => temp_pos'[u] < max_blocks
  BY <1>1, <1>2, <1>3, <1>5 DEF PoolInv, ArrayInv
<1> QED
  BY <1>1, <1>2, <1>6, <1>7, <1>8, <1>9 DEF PoolInv, ArrayInv, max_blocks, block_size

LEMMA AllocReadKeeps ==
  ASSUME PoolInv, NEW t \in Holder, AllocRead(t)
  PROVE  PoolTypes' /\ CallInv' /\ ArrayInv'
<1>1. /\ pc[t] = "read" /\ holds' = [holds EXCEPT ![t] = free_blocks[temp_pos[t]]]
      /\ temp_pos' = [temp_pos EXCEPT ![t] = None] /\ pc' = [pc EXCEPT ![t] = "idle"]
      /\ UNCHANGED <<kind, m_lock, free_blocks, free_block, args, threw, crashed>>
  BY DEF AllocRead
<1>2. /\ temp_pos \in [Holder -> 0 .. None] /\ holds \in [Holder -> -Half .. None]
      /\ pc \in [Holder -> Critical \cup {"idle", "read"}] /\ max_blocks \in Int32
  BY DEF PoolInv, PoolTypes, LockInv, max_blocks
<1>3. /\ temp_pos[t] # None /\ holds[t] = None /\ kind = "ts" /\ free_blocks # null
      /\ free_blocks \in [0 .. max_blocks - 1 -> Int32] /\ temp_pos[t] < max_blocks
  BY <1>1 DEF PoolInv, CallInv, ArrayInv, Unused
<1>4. temp_pos[t] \in 0 .. max_blocks - 1
  BY <1>2, <1>3, HalfType DEF Int32
<1>5. free_blocks[temp_pos[t]] \in Int32
  BY <1>3, <1>4
<1>6. free_blocks[temp_pos[t]] # None /\ free_blocks[temp_pos[t]] \in -Half .. None
  BY <1>5, HalfType DEF Int32
<1>7. PoolTypes'
  BY <1>1, <1>6, HalfType DEF PoolInv, PoolTypes
<1>8. CallInv'
  <2>1. ~Unused
    BY <1>3 DEF Unused
  <2> QED BY <1>1, <1>2, <1>3, <2>1 DEF PoolInv, CallInv
<1>9. CountConserved'
  <2>1. Busy' = Busy
    BY <1>1, <1>2, <1>3, <1>6 DEF Busy
  <2> QED BY <1>1, <2>1 DEF PoolInv, ArrayInv, CountConserved, Busy, max_blocks
<1>10. \A u \in Holder : temp_pos'[u] # None => temp_pos'[u] < max_blocks
  BY <1>1, <1>2, <1>3 DEF PoolInv, ArrayInv
<1> QED
  BY <1>1, <1>3, <1>7, <1>8, <1>9, <1>10 DEF PoolInv, ArrayInv, max_blocks, block_size

LEMMA LockCalls ==
  ASSUME PoolInv, NEW t \in Holder, NEW op \in Critical, Lock(t, op)
  PROVE  PoolTypes' /\ CallInv' /\ ArrayInv'
<1>1. /\ kind = "ts" /\ May(t, op) /\ ~m_lock /\ pc[t] = "idle"
      /\ pc' = [pc EXCEPT ![t] = op]
      /\ UNCHANGED <<kind, free_blocks, free_block, args, temp_pos, holds, threw, crashed>>
  BY DEF Lock
<1>2. pc \in [Holder -> Critical \cup {"idle", "read"}] /\ op \notin {"read", "idle"}
  BY DEF PoolInv, LockInv, Critical
<1>3. pc'[t] = op /\ \A u \in Holder : u # t => pc'[u] = pc[u]
  BY <1>1, <1>2
<1>4. CallInv'
  <2>1. UNCHANGED Unused
    BY <1>1 DEF Unused
  <2> QED BY <1>1, <1>2, <1>3, <2>1 DEF PoolInv, CallInv, May, Critical
<1>5. ArrayInv'
  BY <1>1, ArrayKept DEF PoolInv, ArrayInv
<1> QED BY <1>1, <1>4, <1>5 DEF PoolInv, PoolTypes

LEMMA AllocKeeps ==
  ASSUME PoolInv, NEW t \in Holder, Alloc(t)
  PROVE  PoolTypes' /\ CallInv' /\ ArrayInv'
<1> USE DEF Critical
<1>1. /\ kind # "ts" /\ In(t, "alloc") /\ free_block # 0 /\ free_block' = free_block - 1
      /\ UNCHANGED <<kind, m_lock, pc, free_blocks, args, temp_pos, threw>>
  BY DEF Alloc
<1>2. /\ holds[t] = None /\ temp_pos[t] = None /\ free_block \in Nat \ {0}
      /\ holds \in [Holder -> -Half .. None] /\ max_blocks \in Int32
  BY <1>1, Inside DEF PoolInv, PoolTypes, max_blocks
<1>3. CallInv'
  <2>1. \A u \in Holder : u # t => holds'[u] = holds[u]
    BY <1>2 DEF Alloc
  <2> QED BY <1>1, <1>2, <2>1, LeaveCalls
<1>4. CASE free_blocks = null
  <2>1. UNCHANGED holds /\ crashed' \in BOOLEAN
    BY <1>4 DEF Alloc
  <2>2. ArrayInv'
    BY <1>1, <1>4, <2>1 DEF PoolInv, ArrayInv, CountConserved, Unused
  <2> QED BY <1>1, <1>2, <1>3, <2>1, <2>2 DEF PoolInv, PoolTypes
<1>5. CASE free_blocks # null
  <2>1. /\ holds' = [holds EXCEPT ![t] = Address(free_blocks[free_block - 1])]
        /\ UNCHANGED crashed
    BY <1>5 DEF Alloc
  <2>2. /\ free_block + Cardinality(Busy) = max_blocks /\ Cardinality(Busy) \in Nat
        /\ free_blocks \in [0 .. max_blocks - 1 -> Int32] /\ block_size \in Nat
    BY <1>5, BusyCount DEF PoolInv, PoolTypes, ArrayInv, block_size, Int32
  <2>3. free_block - 1 \in 0 .. max_blocks - 1
    BY <1>2, <2>2, HalfType DEF Int32
  <2>4. Address(free_blocks[free_block - 1]) \in Int32
    BY <2>2, <2>3, AddressType
  <2>5. holds'[t] \in Int32 /\ holds'[t] # None /\ holds' \in [Holder -> -Half .. None]
    BY <1>2, <2>1, <2>4, HalfType DEF Int32
  <2>6. CountConserved'
    <3>1. Busy' = Busy \cup {t} /\ t \notin Busy
      BY <1>1, <1>2, <2>1, <2>5 DEF Busy
    <3>2. Cardinality(Busy') = Cardinality(Busy) + 1
      BY <3>1, BusyCount, FS_AddElement
    <3>3. free_block' + Cardinality(Busy') = max_blocks'
      BY <1>1, <1>2, <2>2, <3>2, HalfType DEF max_blocks, Int32
    <3> QED BY <3>3 DEF CountConserved, Busy
  <2>7. ArrayInv'
    BY <1>1, <1>5, <2>6 DEF PoolInv, ArrayInv, max_blocks, block_size
  <2> QED BY <1>1, <1>2, <1>3, <2>1, <2>5, <2>7 DEF PoolInv, PoolTypes
<1> QED BY <1>4, <1>5

LEMMA DeallocKeeps ==
  ASSUME PoolInv, NEW t \in Holder, Dealloc(t)
  PROVE  PoolTypes' /\ CallInv' /\ ArrayInv'
<1> USE DEF Critical
<1>1. /\ In(t, "dealloc") /\ free_block' = free_block + 1
      /\ free_blocks' = [free_blocks EXCEPT ![free_block] = Entry(holds[t])]
      /\ holds' = [holds EXCEPT ![t] = None] /\ UnlockTo(t, "idle")
      /\ UNCHANGED <<kind, args, temp_pos, threw, crashed>>
  BY DEF Dealloc
<1>2. /\ holds[t] # None /\ temp_pos[t] = None /\ free_block \in Nat /\ t \in Busy
      /\ holds \in [Holder -> -Half .. None] /\ max_blocks \in Int32
      /\ kind \in {"ts", "fixed", "po2", "pos"}
  BY <1>1, Inside, PoolAssumption DEF PoolInv, PoolTypes, max_blocks, Busy
<1>3. free_blocks # null
  BY <1>2 DEF PoolInv, ArrayInv, Unused
<1>4. /\ free_block + Cardinality(Busy) = max_blocks /\ Cardinality(Busy) \in Nat \ {0}
      /\ free_blocks \in [0 .. max_blocks - 1 -> Int32] /\ block_size \in Nat \ {0}
      /\ max_blocks > 0
  BY <1>2, <1>3, BusyCount DEF PoolInv, PoolTypes, ArrayInv, block_size, Int32
<1>5. free_block \in 0 .. max_blocks - 1
  BY <1>2, <1>4, HalfType DEF Int32
<1>6. Entry(holds[t]) \in Int32
  <2>1. holds[t] \in Int32
    BY <1>2, HalfType DEF Int32
  <2> QED BY <1>2, <1>4, <2>1, EntryType
<1>7. free_blocks' \in [0 .. max_blocks' - 1 -> Int32] /\ free_blocks' # null
  <2>1. max_blocks' = max_blocks /\ max_blocks \in Nat \ {0}
    BY <1>1, <1>2, <1>4, HalfType DEF max_blocks, Int32
  <2>2. free_blocks' \in [0 .. max_blocks - 1 -> Int32]
    BY <1>1, <1>4, <1>5, <1>6
  <2> QED BY <2>1, <2>2, ArrayNotNull
<1>8. PoolTypes'
  BY <1>1, <1>2, HalfType DEF PoolInv, PoolTypes
<1>9. CallInv'
  <2>1. \A u \in Holder : u # t => holds'[u] = holds[u]
    BY <1>1, <1>2
  <2> QED BY <1>1, <1>2, <2>1, LeaveCalls DEF UnlockTo
<1>10. CountConserved'
  <2>1. Busy' = Busy \ {t}
    BY <1>1, <1>2 DEF Busy
  <2>2. Cardinality(Busy') = Cardinality(Busy) - 1
    BY <1>2, <2>1, BusyCount, FS_RemoveElement
  <2>3. free_block' + Cardinality(Busy') = max_blocks'
    BY <1>1, <1>2, <1>4, <2>2, HalfType DEF max_blocks, Int32
  <2> QED BY <2>3 DEF CountConserved, Busy
<1> QED
  BY <1>1, <1>3, <1>4, <1>7, <1>8, <1>9, <1>10
  DEF PoolInv, ArrayInv, max_blocks, block_size

LEMMA ResizeKeeps ==
  ASSUME PoolInv, NEW t \in Holder, NEW a \in Arguments,
         ResizeFails(t, a[1], a[2]) \/ Resize(t, a[1], a[2])
  PROVE  PoolTypes' /\ CallInv' /\ ArrayInv'
<1> USE DEF Critical
<1> DEFINE n == a[1]
           s == a[2]
<1>1. n \in Int32 /\ s \in Int32
  BY PoolAssumption DEF Int32
<1>2. /\ In(t, "resize") /\ n > 0 /\ s > 0 /\ args' = <<n, s>>
      /\ UNCHANGED <<kind, temp_pos, holds, crashed>>
  BY DEF ResizeFails, Resize, Throw, Valid
<1> HIDE DEF n, s
<1>3. Unused /\ Unused' /\ temp_pos'[t] = None /\ CallInv
  BY <1>2, Inside DEF Unused, PoolInv
<1>4. max_blocks' = n /\ block_size' = s /\ n \in Nat \ {0} /\ s \in Nat \ {0}
  BY <1>1, <1>2, HalfType DEF max_blocks, block_size, Int32
<1>5. CASE ResizeFails(t, a[1], a[2])
  <2>1. /\ pc' = [pc EXCEPT ![t] = "idle"] /\ threw' = TRUE /\ free_blocks' = null
        /\ UNCHANGED <<m_lock, free_block>>
    BY <1>5 DEF ResizeFails, Throw
  <2>2. CallInv'
    BY <1>2, <1>3, <2>1, LeaveCalls
  <2>3. kind = "ts" => m_lock' /\ \A u \in Holder : pc'[u] \notin Critical
    <3>1. pc \in [Holder -> Critical \cup {"idle", "read"}]
      BY DEF PoolInv, LockInv
    <3> QED BY <1>2, <2>1, <3>1, Inside
  <2>4. ArrayInv'
    BY <1>2, <1>3, <2>1, <2>3 DEF ArrayInv, CountConserved
  <2>5. PoolTypes'
    BY <1>1, <1>2, <2>1 DEF PoolInv, PoolTypes
  <2> QED BY <2>2, <2>4, <2>5
<1>6. CASE Resize(t, a[1], a[2])
  <2>1. /\ free_block' = n /\ UnlockTo(t, "idle") /\ threw' = threw
        /\ free_blocks' = [i \in 0 .. n - 1 |-> IF kind \in {"ts", "fixed"}
                                                THEN Signed(s * i) ELSE i]
    BY <1>6 DEF Resize, n, s
  <2>2. ASSUME NEW i \in 0 .. n - 1 PROVE i \in Int32 /\ Signed(s * i) \in Int32
    <3>1. i \in Int /\ i < Half /\ i >= 0 /\ s * i \in Int
      BY <1>1, <1>4, HalfType DEF Int32
    <3> QED BY <3>1, SignedType, HalfType DEF Int32
  <2>3. free_blocks' \in [0 .. n - 1 -> Int32] /\ free_blocks' # null
    BY <1>4, <2>1, <2>2, ArrayNotNull
  <2>4. CallInv'
    BY <1>2, <1>3, <2>1, LeaveCalls DEF UnlockTo
  <2>5. CountConserved'
    <3>1. Busy' = Busy /\ Cardinality(Busy) = 0
      BY <1>2, <1>3, BusyCount DEF Busy
    <3>2. free_block' + Cardinality(Busy') = max_blocks'
      BY <1>4, <2>1, <3>1
    <3> QED BY <3>2 DEF CountConserved, Busy
  <2>6. ArrayInv'
    BY <1>3, <1>4, <2>3, <2>5 DEF ArrayInv, Unused
  <2>7. PoolTypes'
    BY <1>1, <1>2, <1>4, <2>1 DEF PoolInv, PoolTypes
  <2> QED BY <2>4, <2>6, <2>7
<1> QED BY <1>5, <1>6

LEMMA PoolStep ==
  ASSUME PoolInv, [Next]_vars
  PROVE  PoolInv'
<1>1. CASE UNCHANGED vars
  <2>1. LockInv' /\ PoolTypes' /\ CallInv'
    BY <1>1
    DEF vars, PoolInv, LockInv, OneInside, LockNotLost, PoolTypes, CallInv, Unused
  <2>2. ArrayInv'
    BY <1>1, ArrayKept DEF vars, PoolInv, ArrayInv
  <2> QED BY <2>1, <2>2 DEF PoolInv
<1>2. ASSUME NEW t \in Holder, Body(t) PROVE PoolInv'
  <2>1. LockInv'
    BY <1>2, BodyKeeps DEF PoolInv
  <2>2. PoolTypes' /\ CallInv' /\ ArrayInv'
    BY <1>2, RefusedKeeps, AllocPosKeeps, AllocReadKeeps, AllocKeeps, DeallocKeeps,
       ResizeKeeps
    DEF Body
  <2> QED BY <2>1, <2>2 DEF PoolInv
<1>3. ASSUME NEW t \in Holder, NEW op \in Critical, Lock(t, op) PROVE PoolInv'
  BY <1>3, LockKeeps, LockCalls DEF PoolInv
<1> QED BY <1>1, <1>2, <1>3 DEF Next

(* Every pool is well typed and counts right for any number of threads and *)
(* holders, any sizes and whatever is refused: free entries, blocks handed *)
(* out and allocs before their late read add up to the pool.               *)
THEOREM PoolCorrect == Spec => [](TypeOK /\ CountConserved)
<1>1. PoolInv /\ [Next]_vars => PoolInv'
  BY PoolStep
<1>2. PoolInv => TypeOK /\ CountConserved
  BY DEF PoolInv, LockInv, PoolTypes, ArrayInv, TypeOK
<1> QED BY <1>1, <1>2, PoolInvInit, PTL DEF Spec

-----------------------------------------------------------------------------
(* The blocks of the pools of one thread.  An address in the pool survives *)
(* its conversion to an entry and back.                                    *)

Mem == {block_size * k : k \in 0 .. max_blocks - 1}
FreeAt == [i \in 0 .. free_block - 1 |-> Address(free_blocks[i])]
Sized == kind # "ts" /\ free_blocks # null /\ max_blocks * block_size < Half

ApartInv ==
  Sized =>
    /\ \A i \in 0 .. free_block - 1 :
         /\ FreeAt[i] \in Mem
         /\ \A j \in 0 .. free_block - 1 : FreeAt[i] = FreeAt[j] => i = j
         /\ \A t \in Holder : holds[t] # FreeAt[i]
    /\ \A t \in Holder : holds[t] # None =>
         /\ holds[t] \in Mem
         /\ \A u \in Holder : holds[t] = holds[u] => t = u

LEMMA MemAddress ==
  ASSUME max_blocks \in Nat \ {0}, block_size \in Nat \ {0}, max_blocks * block_size < Half,
         NEW k \in 0 .. max_blocks - 1
  PROVE  /\ block_size * k \in Nat /\ block_size * k <= max_blocks * block_size - block_size
         /\ block_size * k < Half /\ Signed(block_size * k) = block_size * k
<1>1. block_size * k \in Nat /\ block_size * k <= max_blocks * block_size - block_size
  BY ProductOrder
<1>2. max_blocks * block_size \in Nat
  OBVIOUS
<1>3. block_size * k < Half
  BY <1>1, <1>2, HalfType
<1> QED BY <1>1, <1>2, <1>3, SignedSmall

LEMMA RoundTrip ==
  ASSUME max_blocks \in Nat \ {0}, block_size \in Nat \ {0}, max_blocks * block_size < Half,
         kind \in {"fixed", "po2", "pos"}, NEW a \in Mem
  PROVE  Address(Entry(a)) = a
<1>1. PICK k \in 0 .. max_blocks - 1 : a = block_size * k
  BY DEF Mem
<1>2. a \in Nat /\ Signed(a) = a
  BY <1>1, MemAddress
<1>3. CASE kind = "fixed"
  BY <1>3 DEF Entry, Address
<1>4. CASE kind \in {"po2", "pos"}
  <2>1. a \div block_size = k
    BY <1>1, DivProduct
  <2>2. Entry(a) = k
    BY <1>2, <1>4, <2>1 DEF Entry
  <2>3. Address(k) = Signed(k * block_size)
    BY <1>4 DEF Address
  <2>4. k * block_size = a
    BY <1>1
  <2> QED BY <1>2, <2>2, <2>3, <2>4
<1> QED BY <1>3, <1>4

(* The facts of PoolInv about a pool that has its memory.                  *)
LEMMA SizedFacts ==
  ASSUME PoolInv, Sized
  PROVE  /\ max_blocks \in Nat \ {0} /\ block_size \in Nat \ {0}
         /\ free_blocks \in [0 .. max_blocks - 1 -> Int32]
         /\ free_block \in Nat /\ free_block + Cardinality(Busy) = max_blocks
         /\ Cardinality(Busy) \in Nat
         /\ holds \in [Holder -> -Half .. None]
         /\ kind \in {"fixed", "po2", "pos"}
<1>1. /\ max_blocks \in Int32 /\ block_size \in Int32 /\ free_block \in Nat
      /\ holds \in [Holder -> -Half .. None] /\ kind \in {"fixed", "po2", "pos"}
  BY PoolAssumption DEF PoolInv, PoolTypes, max_blocks, block_size, Sized
<1>2. /\ max_blocks > 0 /\ block_size > 0 /\ CountConserved
      /\ free_blocks \in [0 .. max_blocks - 1 -> Int32]
  BY DEF PoolInv, ArrayInv, Sized
<1>3. max_blocks \in Nat \ {0} /\ block_size \in Nat \ {0}
  BY <1>1, <1>2, HalfType DEF Int32
<1> QED BY <1>1, <1>2, <1>3, BusyCount DEF Sized

LEMMA AllocApart ==
  ASSUME PoolInv, ApartInv, NEW t \in Holder, Alloc(t)
  PROVE  ApartInv'
<1> SUFFICES ASSUME Sized' PROVE ApartInv'
  BY DEF ApartInv
<1>1. /\ free_block # 0 /\ free_block' = free_block - 1
      /\ UNCHANGED <<kind, free_blocks, args>>
  BY DEF Alloc
<1>2. Sized /\ free_blocks # null
  BY <1>1 DEF Sized, max_blocks, block_size
<1> DEFINE top == free_block - 1
<1>3. holds' = [holds EXCEPT ![t] = Address(free_blocks[top])]
  BY <1>2 DEF Alloc
<1>4. top \in 0 .. free_block - 1 /\ \A i \in 0 .. top - 1 : i \in 0 .. free_block - 1 /\ i # top
  BY <1>1, <1>2, SizedFacts
<1>5. Mem' = Mem /\ \A i \in 0 .. top - 1 : FreeAt'[i] = FreeAt[i]
  BY <1>1, <1>4 DEF Mem, FreeAt, Address, max_blocks, block_size
<1>6. holds'[t] = FreeAt[top] /\ \A u \in Holder : u # t => holds'[u] = holds[u]
  <2>1. FreeAt[top] = Address(free_blocks[top])
    BY <1>4 DEF FreeAt
  <2> HIDE DEF top
  <2> QED BY <1>2, <1>3, <2>1, SizedFacts
<1> HIDE DEF top
<1>7. free_block' = top
  BY <1>1 DEF top
<1> QED BY <1>2, <1>4, <1>5, <1>6, <1>7 DEF ApartInv

LEMMA DeallocApart ==
  ASSUME PoolInv, ApartInv, NEW t \in Holder, Dealloc(t)
  PROVE  ApartInv'
<1> SUFFICES ASSUME Sized' PROVE ApartInv'
  BY DEF ApartInv
<1>1. /\ In(t, "dealloc") /\ free_block' = free_block + 1
      /\ free_blocks' = [free_blocks EXCEPT ![free_block] = Entry(holds[t])]
      /\ holds' = [holds EXCEPT ![t] = None] /\ UNCHANGED <<kind, args>>
  BY DEF Dealloc
<1>2. holds[t] # None
  BY <1>1, Inside DEF Critical
<1>3. Sized
  <2>1. free_blocks # null
    BY <1>2 DEF PoolInv, ArrayInv, Unused
  <2> QED BY <1>1, <2>1 DEF Sized, max_blocks, block_size
<1>4. free_block \in 0 .. max_blocks - 1
  <2>1. t \in Busy
    BY <1>2 DEF Busy
  <2> QED BY <1>3, <2>1, SizedFacts, BusyCount
<1>5. Mem' = Mem /\ block_size' = block_size /\ free_block' - 1 = free_block
  BY <1>1, <1>4 DEF Mem, max_blocks, block_size
<1>6. holds[t] \in Mem /\ \A u \in Holder : u # t => holds[u] # holds[t]
  BY <1>2, <1>3 DEF ApartInv
<1>7. Address(Entry(holds[t])) = holds[t]
  BY <1>3, <1>6, SizedFacts, RoundTrip DEF Sized
<1>8. /\ FreeAt'[free_block] = holds[t]
      /\ \A i \in 0 .. free_block - 1 : FreeAt'[i] = FreeAt[i]
  <2>1. free_blocks'[free_block] = Entry(holds[t])
    BY <1>1, <1>3, <1>4, SizedFacts
  <2>2. \A i \in 0 .. free_block - 1 : free_blocks'[i] = free_blocks[i]
    BY <1>1, <1>3, <1>4, SizedFacts
  <2>3. FreeAt' = [i \in 0 .. free_block |-> Address(free_blocks'[i])]
    BY <1>1, <1>5 DEF FreeAt, Address
  <2>4. \A i \in 0 .. free_block - 1 :
          FreeAt[i] = Address(free_blocks[i]) /\ i \in 0 .. free_block
    BY <1>4 DEF FreeAt
  <2>5. free_block \in 0 .. free_block
    BY <1>4
  <2>6. FreeAt'[free_block] = Address(free_blocks'[free_block])
    BY <2>3, <2>5
  <2>7. \A i \in 0 .. free_block - 1 : FreeAt'[i] = Address(free_blocks'[i])
    BY <2>3, <2>4
  <2> QED BY <1>7, <2>1, <2>2, <2>4, <2>6, <2>7
<1>9. \A i \in 0 .. free_block' - 1 : i = free_block \/ i \in 0 .. free_block - 1
  BY <1>1, <1>4
<1>10. holds'[t] = None /\ \A u \in Holder : u # t => holds'[u] = holds[u]
  BY <1>1, <1>3, SizedFacts
<1>11. None \notin Mem
  BY <1>3, SizedFacts, MemAddress, HalfType DEF Mem, Sized
<1>12. \A i \in 0 .. free_block - 1 : FreeAt[i] \in Mem /\ FreeAt[i] # holds[t]
  BY <1>3 DEF ApartInv
<1>13. \A i \in 0 .. free_block' - 1 : FreeAt'[i] \in Mem'
  BY <1>5, <1>6, <1>8, <1>9, <1>12
<1>14. \A i, j \in 0 .. free_block' - 1 : FreeAt'[i] = FreeAt'[j] => i = j
  BY <1>3, <1>8, <1>9, <1>12 DEF ApartInv
<1>15. \A i \in 0 .. free_block' - 1 : \A u \in Holder : holds'[u] # FreeAt'[i]
  BY <1>3, <1>6, <1>8, <1>9, <1>10, <1>11, <1>12 DEF ApartInv
<1>16. \A u \in Holder : holds'[u] # None =>
         holds'[u] \in Mem' /\ \A v \in Holder : holds'[u] = holds'[v] => u = v
  BY <1>3, <1>5, <1>10 DEF ApartInv
<1> QED BY <1>13, <1>14, <1>15, <1>16 DEF ApartInv

LEMMA ResizeApart ==
  ASSUME PoolInv, NEW t \in Holder, NEW a \in Arguments, Resize(t, a[1], a[2])
  PROVE  ApartInv'
<1> DEFINE n == a[1]
           s == a[2]
<1> SUFFICES ASSUME Sized' PROVE ApartInv'
  BY DEF ApartInv
<1>1. n \in Int32 /\ s \in Int32
  BY PoolAssumption DEF Int32
<1>2. /\ In(t, "resize") /\ n > 0 /\ s > 0 /\ args' = <<n, s>> /\ free_block' = n
      /\ free_blocks' = [i \in 0 .. n - 1 |-> IF kind \in {"ts", "fixed"}
                                              THEN Signed(s * i) ELSE i]
      /\ UNCHANGED <<kind, holds>>
  BY DEF Resize, Valid
<1> HIDE DEF n, s
<1>3. /\ max_blocks' = n /\ block_size' = s /\ n \in Nat \ {0} /\ s \in Nat \ {0}
      /\ n * s < Half
  BY <1>1, <1>2, HalfType DEF max_blocks, block_size, Int32, Sized
<1>4. ASSUME NEW i \in 0 .. n - 1 PROVE FreeAt'[i] = s * i
  <2>1. Signed(s * i) = s * i /\ i * s = s * i
    <3>1. s * i \in Nat /\ s * i <= n * s - s /\ n * s \in Nat
      BY <1>3, ProductOrder
    <3> QED BY <1>3, <3>1, SignedSmall, HalfType
  <2>2. free_blocks'[i] = IF kind \in {"ts", "fixed"} THEN s * i ELSE i
    BY <1>2, <2>1
  <2> QED BY <1>2, <1>3, <2>1, <2>2 DEF FreeAt, Address
<1>5. \A i \in 0 .. n - 1 : FreeAt'[i] \in Mem'
  BY <1>3, <1>4 DEF Mem
<1>6. \A i, j \in 0 .. n - 1 : FreeAt'[i] = FreeAt'[j] => i = j
  BY <1>3, <1>4, ProductInjective
<1>7. \A u \in Holder : holds'[u] = None
  BY <1>2, Inside DEF Unused, Critical
<1>8. None \notin Mem'
  <2>1. ASSUME NEW k \in 0 .. n - 1 PROVE s * k # None
    BY <1>3, ProductOrder, HalfType
  <2> QED BY <1>3, <2>1 DEF Mem
<1> QED BY <1>2, <1>5, <1>6, <1>7, <1>8 DEF ApartInv
LEMMA ApartStep ==
  ASSUME PoolInv, ApartInv, [Next]_vars
  PROVE  ApartInv'
<1>1. ASSUME UNCHANGED <<kind, free_blocks, free_block, args, holds>> PROVE ApartInv'
  BY <1>1
  DEF ApartInv, Sized, Mem, FreeAt, Address, max_blocks, block_size
<1>2. CASE UNCHANGED vars
  BY <1>1, <1>2 DEF vars
<1>3. ASSUME kind = "ts", UNCHANGED kind PROVE ApartInv'
  BY <1>3 DEF ApartInv, Sized
<1>4. ASSUME NEW t \in Holder, Body(t) PROVE ApartInv'
  <2>1. CASE AllocEmpty(t)
    BY <1>1, <2>1 DEF AllocEmpty
  <2>2. CASE AllocPos(t)
    BY <1>3, <2>2 DEF AllocPos
  <2>3. CASE AllocRead(t)
    <3>1. kind = "ts" /\ UNCHANGED kind
      BY <2>3 DEF AllocRead, PoolInv, CallInv
    <3> QED BY <1>3, <3>1
  <2>4. CASE Alloc(t)
    BY <2>4, AllocApart
  <2>5. CASE Dealloc(t)
    BY <2>5, DeallocApart
  <2>6. ASSUME NEW a \in Arguments, ResizeRefused(t, a[1], a[2]) PROVE ApartInv'
    BY <1>1, <2>6 DEF ResizeRefused, Throw
  <2>7. ASSUME NEW a \in Arguments, ResizeFails(t, a[1], a[2]) PROVE ApartInv'
    BY <2>7 DEF ResizeFails, ApartInv, Sized
  <2>8. ASSUME NEW a \in Arguments, Resize(t, a[1], a[2]) PROVE ApartInv'
    BY <2>8, ResizeApart
  <2> QED BY <1>4, <2>1, <2>2, <2>3, <2>4, <2>5, <2>6, <2>7, <2>8 DEF Body
<1>5. ASSUME NEW t \in Holder, NEW op \in Critical, Lock(t, op) PROVE ApartInv'
  BY <1>1, <1>5 DEF Lock
<1> QED BY <1>2, <1>4, <1>5 DEF Next

(* What is free is counted by the entries that name it.                    *)
LEMMA FreeCount ==
  ASSUME PoolInv, ApartInv, Sized
  PROVE  LET free == {Address(free_blocks[i]) : i \in 0 .. free_block - 1}
         IN  Cardinality(free) = free_block
<1> DEFINE dom == 0 .. free_block - 1
           free == {Address(free_blocks[i]) : i \in dom}
<1>1. free_block \in Nat
  BY SizedFacts
<1>2. FreeAt \in Surjection(dom, free)
  BY DEF FreeAt, Surjection
<1>3. FreeAt \in Injection(dom, free)
  BY <1>2 DEF ApartInv, Injection, IsInjective, Surjection
<1>4. IsFiniteSet(dom) /\ Cardinality(dom) = free_block
  BY <1>1, FS_Interval
<1> HIDE DEF dom, free
<1>5. Cardinality(free) = Cardinality(dom)
  BY <1>2, <1>3, <1>4, FS_Surjection
<1> QED BY <1>4, <1>5 DEF free, dom

LEMMA ApartProperty == PoolInv /\ ApartInv => BlocksApart
<1> SUFFICES ASSUME PoolInv, ApartInv, Sized PROVE BlocksApart
  BY DEF BlocksApart, Sized
<1> DEFINE free == {Address(free_blocks[i]) : i \in 0 .. free_block - 1}
<1>1. \A a \in free : \E i \in 0 .. free_block - 1 : a = FreeAt[i]
  BY DEF FreeAt
<1>2. ASSUME NEW t \in Holder, holds[t] # None
      PROVE  /\ holds[t] \in 0 .. Signed(max_blocks * block_size) - block_size
             /\ holds[t] % block_size = 0
  <2>1. PICK k \in 0 .. max_blocks - 1 : holds[t] = block_size * k
    BY <1>2 DEF ApartInv, Mem
  <2>2. /\ max_blocks \in Nat \ {0} /\ block_size \in Nat \ {0}
        /\ max_blocks * block_size < Half
    BY SizedFacts DEF Sized
  <2>3. max_blocks * block_size \in Nat
    BY <2>2
  <2>4. Signed(max_blocks * block_size) = max_blocks * block_size
    BY <2>2, <2>3, SignedSmall
  <2>5. /\ block_size * k \in Nat
        /\ block_size * k <= max_blocks * block_size - block_size
    BY <2>2, MemAddress
  <2>6. (block_size * k) % block_size = 0
    BY <2>2, <2>1, DivProduct
  <2> QED BY <2>1, <2>2, <2>3, <2>4, <2>5, <2>6
<1>3. \A t \in Holder : holds[t] # None =>
        holds[t] \notin free /\ \A u \in Holder : holds[t] = holds[u] => t = u
  BY <1>1 DEF ApartInv
<1>4. Cardinality(free) = free_block
  BY FreeCount
<1> HIDE DEF free
<1> QED BY <1>2, <1>3, <1>4 DEF BlocksApart, free

(* For pools of any size and any number of blocks kept, no block is out    *)
(* twice or out and free, and each lies in the pool's own memory, at a     *)
(* multiple of its size, through every conversion of address to number.    *)
THEOREM BlocksCorrect == Spec => []BlocksApart
<1>1. Init => ApartInv
  BY DEF Init, ApartInv, Sized
<1>2. PoolInv /\ ApartInv /\ [Next]_vars => PoolInv' /\ ApartInv'
  BY PoolStep, ApartStep
<1> QED BY <1>1, <1>2, ApartProperty, PoolInvInit, PTL DEF Spec
=============================================================================
