------------------------------ MODULE FixedPool ------------------------------
(***************************************************************************)
(* The four pools of blocks of one size in ntb_mempool.h.  Each is a stack *)
(* of the free blocks; they differ in what the stack holds, the addresses  *)
(* of the blocks or their numbers, and MempoolTSFixed ("ts") adds a        *)
(* Spinlock.  Its alloc moves the top of the stack under the lock and      *)
(* reads the block at the old top after it has released it.                *)
(***************************************************************************)
EXTENDS Integers, FiniteSets

CONSTANTS
  Holder,   (* threads that keep one block each; of the other three classes *)
            (* the one thread, where it keeps each block                    *)
  Kind,     (* classes: "ts", "fixed", "po2", "pos"                         *)
  Half,     (* 2^31: an int32_t is in -Half .. Half - 1                     *)
  Arguments (* what callers pass to resize                                  *)

ASSUME PoolAssumption ==
  /\ IsFiniteSet(Holder)
  /\ Kind \subseteq {"ts", "fixed", "po2", "pos"}
  /\ Half \in Nat \ {0, 1}
  /\ Arguments \subseteq (-Half .. Half - 1) \X (-Half .. Half - 1)

Int32 == -Half .. Half - 1

(* Definitions named Bad... are mistakes this code could contain; nothing  *)
(* uses them but the tests of the properties.  The product has more bits.  *)
BadSigned(x) == x

(* The conversion of a result to 32 bits.                                  *)
Signed(x) == ((x + Half) % (2 * Half)) - Half
None == Half   \* no address, no index

VARIABLES
  kind,
  m_lock,       (* the flag of the Spinlock                                 *)
  pc,           (* per thread: "idle", which it also is while it spins in   *)
                (* lock(), or what it does next                             *)
  free_blocks,  (* the array, a function on 0 .. max_blocks - 1; null       *)
  free_block,   (* the number of its entries in use                         *)
  args,         (* the arguments of the last resize that passed its checks  *)
  temp_pos,     (* per thread in alloc: the entry it has still to read      *)
  holds,        (* the address alloc gave each holder                       *)
  threw,        (* history: an exception left resize                        *)
  crashed       (* a null free_blocks was indexed                           *)

vars == <<kind, m_lock, pc, free_blocks, free_block, args, temp_pos, holds, threw, crashed>>

null == <<>>
Critical == {"alloc", "dealloc", "resize"}
max_blocks == args[1]
block_size == args[2]

(* Only MempoolTSFixed initialises free_block.                             *)
Init ==
  /\ kind \in Kind
  /\ m_lock = FALSE /\ pc = [t \in Holder |-> "idle"]
  /\ free_blocks = null /\ free_block \in IF kind = "ts" THEN {0} ELSE {0, 1}
  /\ args = <<0, 1>>
  /\ temp_pos = [t \in Holder |-> None] /\ holds = [t \in Holder |-> None]
  /\ threw = FALSE /\ crashed = FALSE

-----------------------------------------------------------------------------
(* Nothing handed out, and no alloc before its late read: callers do not   *)
(* resize a pool in use.                                                   *)
Unused == \A t \in Holder : temp_pos[t] = None /\ holds[t] = None

May(t, op) ==
  CASE op = "alloc"   -> holds[t] = None
    [] op = "dealloc" -> holds[t] # None
    [] op = "resize"  -> Unused

(* The flag is set without a look at it.                                   *)
BadLock(t, op) ==
  /\ kind = "ts" /\ pc[t] = "idle" /\ May(t, op)
  /\ m_lock' = TRUE
  /\ pc' = [pc EXCEPT ![t] = op]
  /\ UNCHANGED <<kind, free_blocks, free_block, args, temp_pos, holds, threw, crashed>>

(* The test_and_set that finds the flag clear and ends the loop of lock(). *)
Lock(t, op) ==
  /\ kind = "ts" /\ pc[t] = "idle" /\ May(t, op)
  /\ ~m_lock /\ m_lock' = TRUE
  /\ pc' = [pc EXCEPT ![t] = op]
  /\ UNCHANGED <<kind, free_blocks, free_block, args, temp_pos, holds, threw, crashed>>

(* The body of op: without a Spinlock it may begin at once.                *)
In(t, op) == IF kind = "ts" THEN pc[t] = op ELSE May(t, op)

UnlockTo(t, next) ==
  IF kind = "ts" THEN m_lock' = FALSE /\ pc' = [pc EXCEPT ![t] = next]
  ELSE UNCHANGED <<m_lock, pc>>

(* The entry of the array for the block at an address, and back: the third *)
(* class divides, the second shifts.                                       *)
Entry(a) ==
  CASE kind \in {"ts", "fixed"} -> a
    [] kind = "po2" -> a \div block_size
    [] kind = "pos" -> IF a >= 0 THEN a \div block_size ELSE -((-a) \div block_size)

Address(e) == IF kind \in {"ts", "fixed"} THEN e ELSE Signed(e * block_size)

(* The lock stays, or the index does.                                      *)
BadAllocEmpty(t) ==
  /\ In(t, "alloc") /\ free_block = 0
  /\ pc' = [pc EXCEPT ![t] = "idle"]
  /\ UNCHANGED <<kind, m_lock, free_blocks, free_block, args, temp_pos, holds, threw, crashed>>

BadAllocPos(t) ==
  /\ kind = "ts" /\ In(t, "alloc") /\ free_block # 0
  /\ temp_pos' = [temp_pos EXCEPT ![t] = free_block - 1]
  /\ UnlockTo(t, "read")
  /\ UNCHANGED <<kind, free_blocks, free_block, args, holds, threw, crashed>>

AllocEmpty(t) ==
  /\ In(t, "alloc") /\ free_block = 0
  /\ UnlockTo(t, "idle")
  /\ UNCHANGED <<kind, free_blocks, free_block, args, temp_pos, holds, threw, crashed>>

(* alloc of MempoolTSFixed: under the lock, then after it.                 *)
AllocPos(t) ==
  /\ kind = "ts" /\ In(t, "alloc") /\ free_block # 0
  /\ free_block' = free_block - 1
  /\ temp_pos' = [temp_pos EXCEPT ![t] = free_block - 1]
  /\ UnlockTo(t, "read")
  /\ UNCHANGED <<kind, free_blocks, args, holds, threw, crashed>>

AllocRead(t) ==
  /\ pc[t] = "read"
  /\ holds' = [holds EXCEPT ![t] = free_blocks[temp_pos[t]]]
  /\ temp_pos' = [temp_pos EXCEPT ![t] = None]
  /\ pc' = [pc EXCEPT ![t] = "idle"]
  /\ UNCHANGED <<kind, m_lock, free_blocks, free_block, args, threw, crashed>>

(* alloc of the other classes.                                             *)
Alloc(t) ==
  /\ kind # "ts" /\ In(t, "alloc") /\ free_block # 0
  /\ free_block' = free_block - 1
  /\ IF free_blocks = null THEN crashed' = TRUE /\ UNCHANGED holds
     ELSE /\ holds' = [holds EXCEPT ![t] = Address(free_blocks[free_block - 1])]
          /\ UNCHANGED crashed
  /\ UNCHANGED <<kind, m_lock, pc, free_blocks, args, temp_pos, threw>>

Dealloc(t) ==
  /\ In(t, "dealloc")
  /\ free_blocks' = [free_blocks EXCEPT ![free_block] = Entry(holds[t])]
  /\ free_block' = free_block + 1
  /\ holds' = [holds EXCEPT ![t] = None]
  /\ UnlockTo(t, "idle")
  /\ UNCHANGED <<kind, args, temp_pos, threw, crashed>>

(* An exception leaves the Spinlock locked.                                *)
Throw(t) ==
  /\ pc' = [pc EXCEPT ![t] = "idle"]
  /\ threw' = TRUE
  /\ UNCHANGED <<kind, m_lock, temp_pos, holds, crashed>>

Valid(n, s) ==
  n > 0 /\ s > 0 /\ (kind = "po2" => \E k \in 0 .. 30 : s = 2 ^ k)

ResizeRefused(t, n, s) ==
  /\ In(t, "resize") /\ ~Valid(n, s)
  /\ Throw(t)
  /\ UNCHANGED <<free_blocks, free_block, args>>

(* cleanup() was done, and free_block stays.  A negative product becomes a *)
(* size no new can give; any other may be refused too.                     *)
ResizeFails(t, n, s) ==
  /\ In(t, "resize") /\ Valid(n, s)
  /\ free_blocks' = null
  /\ args' = <<n, s>>
  /\ Throw(t)
  /\ UNCHANGED free_block

(* The array is one entry short of the last block.                         *)
BadResize(t, n, s) ==
  /\ In(t, "resize") /\ Valid(n, s) /\ Signed(n * s) >= 0
  /\ free_blocks' = [i \in 0 .. n - 1 |-> Entry(Signed(s * (i + 1)))]
  /\ free_block' = n
  /\ args' = <<n, s>>
  /\ UnlockTo(t, "idle")
  /\ UNCHANGED <<kind, temp_pos, holds, threw, crashed>>

Resize(t, n, s) ==
  /\ In(t, "resize") /\ Valid(n, s) /\ Signed(n * s) >= 0
  /\ free_blocks' = [i \in 0 .. n - 1 |-> IF kind \in {"ts", "fixed"}
                                          THEN Signed(s * i) ELSE i]
  /\ free_block' = n
  /\ args' = <<n, s>>
  /\ UnlockTo(t, "idle")
  /\ UNCHANGED <<kind, temp_pos, holds, threw, crashed>>

-----------------------------------------------------------------------------

Body(t) ==
  \/ AllocEmpty(t) \/ AllocPos(t) \/ AllocRead(t) \/ Alloc(t) \/ Dealloc(t)
  \/ \E a \in Arguments :
       ResizeRefused(t, a[1], a[2]) \/ ResizeFails(t, a[1], a[2]) \/ Resize(t, a[1], a[2])

Next ==
  /\ ~crashed
  /\ \E t \in Holder : Body(t) \/ \E op \in Critical : Lock(t, op)

(* A thread that has the lock, or has just released it, goes on.           *)
Fairness == \A t \in Holder : WF_vars(kind = "ts" /\ Body(t))

Spec == Init /\ [][Next]_vars /\ Fairness

-----------------------------------------------------------------------------

TypeOK ==
  /\ kind \in Kind
  /\ m_lock \in BOOLEAN /\ pc \in [Holder -> Critical \cup {"idle", "read"}]
  /\ free_blocks = null \/ free_blocks \in [0 .. max_blocks - 1 -> Int32]
  /\ free_block \in Nat
  /\ args \in Int32 \X Int32
  /\ temp_pos \in [Holder -> 0 .. None] /\ holds \in [Holder -> -Half .. None]
  /\ threw \in BOOLEAN /\ crashed \in BOOLEAN

(* Two threads are never inside the sections the Spinlock guards.          *)
OneInside ==
  \A t, u \in Holder : pc[t] \in Critical /\ pc[u] \in Critical => t = u

(* The lock is held only by a thread that will release it, on each path of *)
(* alloc and dealloc, until an exception of resize leaves it held for ever *)
(* ("in case of exception in resize()", the destructor).                   *)
LockNotLost == m_lock => threw \/ \E t \in Holder : pc[t] \in Critical

(* And it does release it.                                                 *)
LockReturned == m_lock ~> ~m_lock \/ threw

(* The entries in use, the blocks handed out and the calls between the two *)
(* steps of alloc add up to the pool, so that callers that give back what  *)
(* they got keep the index in the array whatever the interleaving, the     *)
(* late read of alloc included.                                            *)
CountConserved ==
  free_blocks # null =>
    free_block + Cardinality({t \in Holder : temp_pos[t] # None \/ holds[t] # None})
      = max_blocks

(* In the pools of one thread no block is out twice or out and free, and   *)
(* each lies in the memory allocated for them, through every conversion of *)
(* addresses to numbers and back.  The product of resize is of 32 bits: if *)
(* it wraps, the memory is smaller than the blocks and this is all off.    *)
BlocksApart ==
  kind # "ts" /\ free_blocks # null /\ max_blocks * block_size < Half =>
    LET out == {t \in Holder : holds[t] # None}
        free == {Address(free_blocks[i]) : i \in 0 .. free_block - 1}
    IN  /\ \A t \in out : /\ holds[t] \in 0 .. Signed(max_blocks * block_size) - block_size
                          /\ holds[t] % block_size = 0 /\ holds[t] \notin free
                          /\ \A u \in out : holds[t] = holds[u] => t = u
        /\ Cardinality(free) = free_block

(* "thread safe" (the comment on MempoolTSFixed): a block that alloc       *)
(* returned has one owner until dealloc.                                   *)
OneOwner ==
  \A t, u \in Holder : t # u /\ holds[t] # None => holds[t] # holds[u]
=============================================================================
