------------------------------- MODULE PdlList -------------------------------
(***************************************************************************)
(* class List of ntb_pdllist.h, pointer by pointer: a preallocated doubly  *)
(* linked list whose unused nodes form a singly linked free list through   *)
(* the same next pointers.  Each member function holds the list's Spinlock *)
(* from its first access to its last, so each is one step, whatever thread *)
(* calls it.                                                               *)
(***************************************************************************)
EXTENDS Naturals, Sequences, FiniteSets

CONSTANTS
  Length,   (* the constructor's argument                                   *)
  Width,    (* 2^32: size is a uint                                         *)
  Unlinks,  (* what callers pass to nodeUnlink beside linked nodes: "held", *)
            (* as reqMsgAdd may, or "free" ones                             *)
  EvfdFails,(* whether the eventfd_write of nodeAdd2 may fail               *)
  MaxAfter  (* bound: calls from the first that breaks the contract on      *)

(* The constructor counts to length-1 in unsigned arithmetic.              *)
ASSUME ListAssumption ==
  /\ Length \in Nat \ {0}
  /\ Width \in Nat /\ Width > Length
  /\ Unlinks \subseteq {"held", "free"}
  /\ EvfdFails \in BOOLEAN
  /\ MaxAfter \in Nat \ {0}

Node == 1 .. Length
Null == 0
Pointer == Node \cup {Null}

VARIABLES
  beg, end, free_list,   (* pointers to nodes                               *)
  next, prev,            (* the pointers of each node                       *)
  size,
  held,                  (* nodes a caller got from nodeAlloc and still has *)
  crashed,               (* a null pointer was dereferenced                 *)
  after                  (* history: calls since the contract was broken    *)

listVars == <<beg, end, free_list, next, prev, size, crashed>>
vars == <<listVars, held, after>>

Init ==
  /\ beg = Null /\ end = Null /\ free_list = 1 /\ size = 0
  /\ next = [n \in Node |-> IF n < Length THEN n + 1 ELSE Null]
  /\ prev = [n \in Node |-> Null]
  /\ held = {} /\ crashed = FALSE /\ after = 0

-----------------------------------------------------------------------------
(* Definitions named Bad... are mistakes this code could contain; nothing  *)
(* uses them but the tests of the properties.                              *)
BadAtEnd(n) ==
  /\ next' = IF beg # Null THEN [next EXCEPT ![end] = n] ELSE next
  /\ end' = n
  /\ beg' = IF beg = Null THEN n ELSE beg
  /\ UNCHANGED prev

(* n becomes the last node: the pointers nodeAdd, nodeAdd2 and             *)
(* nodeLinkBack set.                                                       *)
AtEnd(n) ==
  /\ next' = IF beg # Null THEN [next EXCEPT ![end] = n] ELSE next
  /\ prev' = IF beg # Null THEN [prev EXCEPT ![n] = end] ELSE prev
  /\ end' = n
  /\ beg' = IF beg = Null THEN n ELSE beg

(* The queue has a first node but no last: only a list damaged by a misuse *)
(* gets there.                                                             *)
NoEnd == beg # Null /\ end = Null

(* free_list->next is read after end->next is written: they are the same   *)
(* field when a misuse left the first free node as the end of the queue.   *)
NodeAdd ==
  /\ free_list # Null /\ ~NoEnd
  /\ AtEnd(free_list)
  /\ free_list' = next'[free_list]
  /\ size' = (size + 1) % Width
  /\ UNCHANGED <<held, crashed>>

(* nodeAdd2 is nodeAdd, but the eventfd is written when the queue is empty;*)
(* when that fails, the node, which is free_list itself, gets free_list as *)
(* its next.                                                               *)
NodeAdd2Fails ==
  /\ EvfdFails /\ free_list # Null /\ beg = Null
  /\ next' = [next EXCEPT ![free_list] = free_list]
  /\ end' = Null
  /\ UNCHANGED <<beg, free_list, prev, size, held, crashed>>

(* prev = the node itself marks a node that is allocated.                  *)
NodeAlloc ==
  /\ free_list # Null
  /\ free_list' = next[free_list]
  /\ prev' = [prev EXCEPT ![free_list] = free_list]
  /\ held' = held \cup {free_list}
  /\ UNCHANGED <<beg, end, next, size, crashed>>

NodeLinkBack(n) ==
  /\ n \in held /\ ~NoEnd
  /\ AtEnd(n)
  /\ size' = (size + 1) % Width
  /\ held' = held \ {n}
  /\ UNCHANGED <<free_list, crashed>>

(* end->next with a null end.                                              *)
CrashAtEnd ==
  /\ NoEnd /\ (free_list # Null \/ held # {})
  /\ crashed' = TRUE
  /\ UNCHANGED <<beg, end, free_list, next, prev, size, held>>

(* The counter is one past its width.                                      *)
BadToFree(n, nexts) ==
  /\ next' = [nexts EXCEPT ![n] = free_list]
  /\ free_list' = n
  /\ size' = IF size = 0 THEN Width ELSE size - 1
  /\ held' = held \ {n}

(* The end of nodeUnlink: n goes to the free list.                         *)
ToFree(n, nexts) ==
  /\ next' = [nexts EXCEPT ![n] = free_list]
  /\ free_list' = n
  /\ size' = (size + Width - 1) % Width
  /\ held' = held \ {n}

UnlinkFirst(n) ==
  /\ beg = n
  /\ IF beg # end
     THEN beg' = next[n] /\ prev' = [prev EXCEPT ![n] = Null] /\ UNCHANGED end
     ELSE beg' = Null /\ end' = Null /\ UNCHANGED prev
  /\ ToFree(n, next)
  /\ UNCHANGED crashed

UnlinkLast(n) ==
  /\ beg # n /\ end = n
  /\ end' = prev[n]
  /\ prev' = [prev EXCEPT ![n] = Null]
  /\ ToFree(n, next)
  /\ UNCHANGED <<beg, crashed>>

(* The next node keeps its prev.                                           *)
BadUnlinkMiddle(n) ==
  /\ n \notin {beg, end} /\ prev[n] # Null
  /\ prev' = [prev EXCEPT ![n] = Null]
  /\ ToFree(n, [next EXCEPT ![prev[n]] = next[n]])
  /\ UNCHANGED <<beg, end, crashed>>

(* Neither beg nor end: prev is null if the node is not in the list, or so *)
(* the code takes it.                                                      *)
UnlinkMiddle(n) ==
  /\ n \notin {beg, end} /\ prev[n] # Null
  /\ IF next[n] = Null
     THEN crashed' = TRUE /\ UNCHANGED <<beg, end, free_list, next, prev, size, held>>
     ELSE /\ prev' = [prev EXCEPT ![next[n]] = prev[n], ![n] = Null]
          /\ ToFree(n, [next EXCEPT ![prev[n]] = next[n]])
          /\ UNCHANGED <<beg, end, crashed>>

(* The existence check fails: nodeUnlink returns false.                    *)
UnlinkAbsent(n) ==
  /\ n \notin {beg, end} /\ prev[n] = Null
  /\ UNCHANGED <<listVars, held>>

NodeUnlink(n) == UnlinkFirst(n) \/ UnlinkLast(n) \/ UnlinkMiddle(n) \/ UnlinkAbsent(n)

-----------------------------------------------------------------------------
(* The nodes from beg to end, then nulls; and what callers do.             *)
Walk ==
  LET at[k \in Node] == IF k = 1 THEN beg
                        ELSE LET n == at[k - 1]
                             IN  IF n \in {end, Null} THEN Null ELSE next[n]
  IN  at

Reached == SubSeq(Walk, 1, Cardinality({k \in Node : Walk[k] # Null}))

Linked == {Walk[k] : k \in Node} \cap Node

State(n) == IF n \in held THEN "held" ELSE "free"   \* of a node not linked

(* The contract: only linked nodes are unlinked, and the eventfd works.    *)
(* It is broken once.                                                      *)
Call(contract) ==
  IF contract THEN after' = (IF after = 0 THEN 0 ELSE after + 1) /\ after' <= MaxAfter
  ELSE after = 0 /\ after' = 1

Next ==
  /\ ~crashed
  /\ \/ (NodeAdd \/ NodeAlloc \/ CrashAtEnd) /\ Call(TRUE)
     \/ NodeAdd2Fails /\ Call(FALSE)
     \/ \E n \in Node : NodeLinkBack(n) /\ Call(TRUE)
     \/ LET linked == Linked
        IN  \E n \in linked \cup {m \in Node : State(m) \in Unlinks} :
               NodeUnlink(n) /\ Call(n \in linked)

Spec == Init /\ [][Next]_vars

-----------------------------------------------------------------------------

TypeOK ==
  /\ {beg, end, free_list} \subseteq Pointer
  /\ next \in [Node -> Pointer] /\ prev \in [Node -> Pointer]
  /\ size \in 0 .. Width - 1
  /\ held \subseteq Node
  /\ crashed \in BOOLEAN /\ after \in 0 .. MaxAfter

Path == UNION {[1 .. k -> Node] : k \in 0 .. Length}
Nodes(p) == {p[k] : k \in DOMAIN p}
Injective(p) == \A j, k \in DOMAIN p : p[j] = p[k] => j = k

(* q is the queue: beg and end are its ends, next and prev link it.        *)
IsQueue(q) ==
  /\ Len(q) = size /\ Injective(q)
  /\ IF q = <<>> THEN beg = Null /\ end = Null
     ELSE beg = q[1] /\ end = q[Len(q)]
  /\ \A k \in 1 .. Len(q) - 1 : next[q[k]] = q[k + 1] /\ prev[q[k + 1]] = q[k]

(* s is the free list: it starts at free_list and ends at a null next.     *)
IsFreeList(s) ==
  /\ IF s = <<>> THEN free_list = Null
     ELSE free_list = s[1] /\ next[s[Len(s)]] = Null
  /\ Injective(s)
  /\ \A k \in 1 .. Len(s) - 1 : next[s[k]] = s[k + 1]

Partition(A, B, C) ==
  A \cup B \cup C = Node /\ A \cap B = {} /\ A \cap C = {} /\ B \cap C = {}

(* The pointers are those of a queue of size nodes and of a free list, and *)
(* each node is in the queue, in the free list or with a caller: whatever  *)
(* the order of allocations, links and removals from any position, no node *)
(* is lost, shared or on a cycle, no null pointer is followed, and stale   *)
(* pointers left in removed and allocated nodes never matter.              *)
IsWellFormed ==
  /\ ~crashed
  /\ \E q \in Path : /\ IsQueue(q)
                     /\ \E s \in Path : /\ IsFreeList(s)
                                        /\ Partition(Nodes(q), Nodes(s), held)

WellFormed == after = 0 => IsWellFormed

(* The list implements the queue of AbsList.                               *)
Abs == INSTANCE AbsList WITH order <- Reached, kept <- (after = 0)
ImplementsQueue == Abs!Spec

(* "to be able to unlink allocated but not linked" (nodeAlloc): unlinking  *)
(* an allocated node frees it and leaves a well-formed list.               *)
AllocatedCanBeUnlinked ==
  [][\A n \in held : NodeUnlink(n) => IsWellFormed']_vars
=============================================================================
