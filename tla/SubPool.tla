------------------------------- MODULE SubPool -------------------------------
(***************************************************************************)
(* class Mempool of ntb_mempool.h: blocks of one size, each cut into       *)
(* sub-blocks of the size first asked of it, with a bitmap per block whose *)
(* set bits are free sub-blocks.  A bitmap is the set of its set bits; the *)
(* bits above the number of sub-blocks stay set for ever.  One thread.     *)
(***************************************************************************)
EXTENDS Naturals, Sequences, FiniteSets, FiniteSetsExt

CONSTANTS
  max_blocks,  (* the first argument of resize                              *)
  Bits,        (* the width of MaxSubBlocks                                 *)
  NumSub       (* max_block_size / blk_sizes[s], for the sizes callers ask  *)

Blk == 0 .. max_blocks - 1
Size == DOMAIN NumSub

(* 1<<sub is an int shift, and max_sub_blocks must not be negative.        *)
ASSUME SubPoolAssumption ==
  /\ max_blocks \in Nat \ {0} /\ Bits \in 1 .. 31 /\ Size # {}
  /\ \A s \in Size : NumSub[s] \in 1 .. Bits

VARIABLES
  free_blocks,  (* the stack of whole free blocks                           *)
  first,        (* sub_blocks[b].first                                      *)
  second,       (* sub_blocks[b].second                                     *)
  free_sub_arr, (* per size, the blocks to take sub-blocks from             *)
  null,         (* a resize failed: the three arrays are null               *)
  live,         (* history: the sub-blocks callers have                     *)
  overlapped,   (* history: alloc gave out what overlaps one of these       *)
  kept,         (* history: entries of free_sub_arr older than its blocks   *)
  broken        (* alloc used a null array, or the bitmap of a block that   *)
                (* is not cut into sub-blocks of its size                   *)

pool == <<free_blocks, first, second, null>>
vars == <<pool, free_sub_arr, live, overlapped, kept, broken>>

AllBits == 0 .. Bits - 1
FullCount(s) == Bits - NumSub[s]     \* max_sub_blocks[s]

(* A value-initialized second is 0, a size like any other.                 *)
ZeroSize == CHOOSE s \in Size : TRUE

(* Definitions named Bad... are mistakes this code could contain; nothing  *)
(* uses them but the tests of the properties.                              *)
BadInit ==
  /\ free_blocks = [i \in 1 .. max_blocks |-> i]
  /\ first \in [Blk -> {{}}] /\ second \in [Blk -> {ZeroSize}]
  /\ free_sub_arr = [s \in Size |-> {}]
  /\ null = FALSE /\ live = {} /\ overlapped = FALSE /\ kept = {} /\ broken = FALSE

(* resize on a new pool.  The pairs of sub_blocks are value-initialized.   *)
Init ==
  /\ free_blocks = [i \in 1 .. max_blocks |-> i - 1]
  /\ first \in [Blk -> {{}}] /\ second \in [Blk -> {ZeroSize}]
  /\ free_sub_arr = [s \in Size |-> {}]
  /\ null = FALSE /\ live = {} /\ overlapped = FALSE /\ kept = {} /\ broken = FALSE

(* resize again, of a pool with nothing handed out: free_sub_arr stays.    *)
(* When a new throws the index is set, and the array it indexes is null.   *)
Resize ==
  /\ live = {}
  /\ free_blocks' = [i \in 1 .. max_blocks |-> i - 1]
  /\ first' \in [Blk -> {{}}] /\ second' \in [Blk -> {ZeroSize}]
  /\ null' \in BOOLEAN
  /\ kept' = {e \in Size \X Blk : e[2] \in free_sub_arr[e[1]]}
  /\ UNCHANGED <<free_sub_arr, live, overlapped, broken>>

(* The address alloc returns: sub-blocks of one block overlap when they    *)
(* have one position, or sizes of their own.                               *)
HandOut(b, sub, s) ==
  /\ live' = live \cup {<<b, sub, s>>}
  /\ overlapped' = (overlapped \/ \E a \in live : a[1] = b /\ (a[2] = sub \/ a[3] # s))

Sound(s, b) == ~null /\ first[b] # {} /\ second[b] = s

AllocBreaks(s) ==
  /\ IF free_sub_arr[s] = {} THEN free_blocks # <<>> /\ null
     ELSE \E b \in free_sub_arr[s] : ~Sound(s, b)
  /\ broken' = TRUE
  /\ UNCHANGED <<pool, free_sub_arr, live, overlapped, kept>>

(* A full block stays in the set of its size.                              *)
BadAllocSub(s) ==
  \E b \in {c \in free_sub_arr[s] : Sound(s, c)} :
    LET sub == Min(first[b])
    IN  /\ first' = [first EXCEPT ![b] = @ \ {sub}]
        /\ HandOut(b, sub, s)
        /\ UNCHANGED <<free_blocks, second, null, free_sub_arr, kept, broken>>

(* The bit of the sub-block stays set, first ^= forgotten.                 *)
BadAllocSame(s) ==
  \E b \in {c \in free_sub_arr[s] : Sound(s, c)} :
    /\ HandOut(b, Min(first[b]), s)
    /\ UNCHANGED <<pool, free_sub_arr, kept, broken>>

(* A block from the set of its size; begin() of a hash set is any of them. *)
AllocSub(s) ==
  \E b \in {c \in free_sub_arr[s] : Sound(s, c)} :
    LET sub == Min(first[b])
        rest == first[b] \ {sub}
    IN  /\ first' = [first EXCEPT ![b] = rest]
        /\ free_sub_arr' = IF Cardinality(rest) = FullCount(s)
                           THEN [free_sub_arr EXCEPT ![s] = @ \ {b}] ELSE free_sub_arr
        /\ HandOut(b, sub, s)
        /\ UNCHANGED <<free_blocks, second, null, kept, broken>>

AllocBlock(s) ==
  /\ free_sub_arr[s] = {} /\ free_blocks # <<>> /\ ~null
  /\ LET b == free_blocks[Len(free_blocks)]
     IN  /\ free_blocks' = SubSeq(free_blocks, 1, Len(free_blocks) - 1)
         /\ first' = [first EXCEPT ![b] = AllBits \ {0}]
         /\ second' = [second EXCEPT ![b] = s]
         /\ free_sub_arr' = IF NumSub[s] # 1
                            THEN [free_sub_arr EXCEPT ![s] = @ \cup {b}] ELSE free_sub_arr
         /\ HandOut(b, 0, s)
         /\ UNCHANGED <<null, kept, broken>>

WasFull(b) == Cardinality(first[b]) = FullCount(second[b])

(* An empty block stays in the set of its size.                            *)
BadDeallocKeeps(b, sub) ==
  LET s == second[b]
      bits == first[b] \cup {sub}
  IN  /\ <<b, sub, s>> \in live
      /\ first' = [first EXCEPT ![b] = bits]
      /\ free_blocks' = IF bits = AllBits THEN Append(free_blocks, b) ELSE free_blocks
      /\ live' = live \ {<<b, sub, s>>}
      /\ UNCHANGED <<second, null, free_sub_arr, overlapped, kept, broken>>

Dealloc(b, sub) ==
  LET s == second[b]
      bits == first[b] \cup {sub}
  IN  /\ <<b, sub, s>> \in live
      /\ first' = [first EXCEPT ![b] = bits]
      /\ IF WasFull(b)
         THEN /\ free_sub_arr' = [free_sub_arr EXCEPT ![s] = @ \cup {b}]
              /\ UNCHANGED free_blocks
         ELSE IF bits = AllBits
         THEN /\ free_blocks' = Append(free_blocks, b)
              /\ free_sub_arr' = [free_sub_arr EXCEPT ![s] = @ \ {b}]
         ELSE UNCHANGED <<free_blocks, free_sub_arr>>
      /\ live' = live \ {<<b, sub, s>>}
      /\ UNCHANGED <<second, null, overlapped, kept, broken>>

Next ==
  /\ ~broken
  /\ \/ \E s \in Size : AllocSub(s) \/ AllocBlock(s) \/ AllocBreaks(s)
     \/ Resize
     \/ \E b \in Blk, sub \in AllBits : Dealloc(b, sub)

Spec == Init /\ [][Next]_vars

-----------------------------------------------------------------------------

TypeOK ==
  /\ free_blocks \in Seq(Blk)
  /\ first \in [Blk -> SUBSET AllBits] /\ second \in [Blk -> Size]
  /\ free_sub_arr \in [Size -> SUBSET Blk]
  /\ live \subseteq Blk \X AllBits \X Size
  /\ kept \subseteq Size \X Blk
  /\ null \in BOOLEAN /\ overlapped \in BOOLEAN /\ broken \in BOOLEAN

LiveIn(b) == {a \in live : a[1] = b}
Stacked == {free_blocks[k] : k \in DOMAIN free_blocks}

(* alloc never gives out a sub-block that overlaps one a caller has: not   *)
(* the same again, nor one of a block cut to another size, after any order *)
(* of frees and resizes; and all lie inside their block as it is cut now.  *)
NoOverlap ==
  /\ ~overlapped
  /\ \A a \in live : a[3] = second[a[1]] /\ a[2] < NumSub[a[3]]

(* The bitmap, the size sets and the stack agree on each block: one in the *)
(* stack has nothing live and is there once; in any other the clear bits   *)
(* are the live sub-blocks, and its size set has it if one of them is free.*)
(* Entries of an earlier pool are the only others in the size sets.        *)
Accounting ==
  /\ Cardinality(Stacked) = Len(free_blocks)
  /\ \A b \in Stacked : LiveIn(b) = {} /\ \A s \in Size : b \in free_sub_arr[s] => <<s, b>> \in kept
  /\ \A b \in Blk \ Stacked :
       /\ AllBits \ first[b] = {a[2] : a \in LiveIn(b)}
       /\ \A s \in Size : b \in free_sub_arr[s] /\ <<s, b>> \notin kept
            <=> s = second[b] /\ Cardinality(LiveIn(b)) < NumSub[s]

(* A resize of a pool with nothing handed out leaves entries of the old    *)
(* blocks in the set of the largest size only: a pool asked for smaller    *)
(* sub-blocks can be resized, and breaks only if no memory was left.       *)
OnlyWholeBlocksKept ==
  /\ \A e \in kept : NumSub[e[1]] = 1
  /\ broken => null \/ kept # {}
=============================================================================
