-------------------------- MODULE ResultStoreProofs --------------------------
(***************************************************************************)
(* The static msg_p of resMsgAdd, for any number of clients and requests.  *)
(***************************************************************************)
EXTENDS ResultStore, TLAPS

(* What a client in resMsgAdd may rely on: its entry is there, and not yet *)
(* published; until another client overlaps with it, msg_p is its own and  *)
(* the fields it wrote are in its entry.                                   *)
CallOk(c) ==
  Active(c) =>
    /\ call[c] \in {c} \X Id
    /\ res_umap[call[c]] # Absent /\ call[c] \notin res_set
    /\ call[c] \notin mixed =>
         /\ msg_p = call[c]
         /\ \A k \in 1 .. 3 : k < step[c] => res_umap[call[c]][k] = call[c]

(* Two clients in it at a time have both been marked, and so has whichever *)
(* has taken msg_p from another.                                           *)
MarkedInv ==
  \A c \in Client : Active(c) =>
    /\ msg_p = call[c] \/ msg_p \in mixed
    /\ \A d \in Client \ {c} : Active(d) => call[c] \in mixed

IInv == TypeOK /\ MarkedInv /\ OnlyOverlappingMix /\ \A c \in Client : CallOk(c)

LEMMA EntryNotAbsent ==
  ASSUME NEW f \in [1 .. 3 -> Request \cup {None}]
  PROVE  f # Absent
<1>1. 1 \in DOMAIN f /\ DOMAIN Absent = {}
  BY DEF Absent
<1> QED BY <1>1

LEMMA Initially == Init => IInv
<1> SUFFICES ASSUME Init PROVE IInv
  OBVIOUS
<1>1. Empty \in [1 .. 3 -> Request \cup {None}]
  BY DEF Empty
<1>2. TypeOK
  BY <1>1 DEF Init, TypeOK, Active
<1>3. \A c \in Client : ~Active(c)
  BY DEF Init, Active
<1> QED BY <1>2, <1>3 DEF Init, IInv, MarkedInv, CallOk, OnlyOverlappingMix

LEMMA LookupStep ==
  ASSUME IInv, NEW c \in Client, NEW id \in Id, Lookup(c, id)
  PROVE  IInv'
<1> DEFINE r == <<c, id>>
<1>1. r \in Request
  BY DEF Request
<1> DEFINE others == {call[d] : d \in {e \in Client \ {c} : Active(e)}}
<1> USE DEF Lookup, IInv
<1>a. others \subseteq Request
  BY DEF CallOk, Request
<1>b. mixed' = mixed \cup others \cup (IF others = {} THEN {} ELSE {r})
  BY DEF Overlap
<1>2. TypeOK'
  <2>1. mixed' \subseteq Request
    BY <1>1, <1>a, <1>b DEF TypeOK
  <2> HIDE DEF others
  <2>2. msg_p' = r /\ r # None
    BY <1>1, StoreAssumption
  <2>3. step' \in [Client -> 0 .. 4] /\ call' \in [Client -> Request \cup {None}]
    BY <1>1 DEF TypeOK
  <2>4. res_umap' \in [Request -> {Absent} \cup [1 .. 3 -> Request \cup {None}]]
    BY DEF TypeOK
  <2>5. res_set' \subseteq Request /\ freed' \subseteq Request
    BY DEF TypeOK
  <2> HIDE DEF Lookup, IInv, r
  <2> QED BY <1>1, <2>1, <2>2, <2>3, <2>4, <2>5 DEF TypeOK
<1>c. \A d \in Client \ {c} : Active(d) => call[d] \in others
  OBVIOUS
<1>3. /\ mixed \subseteq mixed'
      /\ ~Active(c) /\ Active(c)' /\ call'[c] = r /\ msg_p' = r
      /\ \A d \in Client \ {c} : (Active(d)' <=> Active(d)) /\ call'[d] = call[d] /\ step'[d] = step[d]
      /\ \A d \in Client \ {c} : Active(d) => call[d] \in mixed' /\ r \in mixed'
  <2> HIDE DEF others
  <2> QED BY <1>b, <1>c DEF TypeOK, Active
<1> HIDE DEF others
<1>4. MarkedInv'
  BY <1>3 DEF MarkedInv
<1>5. OnlyOverlappingMix'
  BY <1>3 DEF OnlyOverlappingMix
<1>6. ASSUME NEW d \in Client PROVE CallOk(d)'
  <2>1. CASE d = c
    BY <1>3, <2>1 DEF CallOk, TypeOK
  <2>2. CASE d # c
    BY <1>3, <2>2 DEF CallOk
  <2> QED BY <2>1, <2>2
<1> QED BY <1>2, <1>4, <1>5, <1>6

LEMMA WriteStep ==
  ASSUME IInv, NEW c \in Client, Write(c)
  PROVE  IInv'
<1> USE DEF IInv
<1>1. /\ Active(c) /\ step[c] \in 1 .. 3 /\ step' = [step EXCEPT ![c] = @ + 1]
      /\ UNCHANGED <<msg_p, call, res_set, mixed>>
      /\ call[c] \in {c} \X Id /\ call[c] \in Request
  BY DEF Write, Active, CallOk, Request
<1>2. PICK r \in {msg_p, call[c]} :
        IF res_umap[r] = Absent
        THEN freed' = freed \cup {call[c]} /\ UNCHANGED res_umap
        ELSE res_umap' = [res_umap EXCEPT ![r][step[c]] = call[c]] /\ UNCHANGED freed
  BY DEF Write
<1>3. r \in Request /\ (call[c] \notin mixed => r = call[c])
  BY <1>1 DEF CallOk, TypeOK
<1>4. \A d \in Client : (Active(d)' <=> Active(d)) /\ (d # c => step'[d] = step[d])
  BY <1>1 DEF Active, TypeOK
<1>5. CASE res_umap[r] = Absent
  <2>1. call[c] \in mixed
    BY <1>1, <1>3, <1>5 DEF CallOk
  <2>2. UNCHANGED res_umap /\ freed' = freed \cup {call[c]}
    BY <1>2, <1>5
  <2>3. TypeOK'
    BY <1>1, <1>4, <2>2 DEF TypeOK
  <2>4. MarkedInv' /\ OnlyOverlappingMix'
    BY <1>1, <1>4, <2>1, <2>2 DEF MarkedInv, OnlyOverlappingMix
  <2>5. ASSUME NEW d \in Client PROVE CallOk(d)'
    BY <1>1, <1>4, <2>1, <2>2 DEF CallOk
  <2> QED BY <2>3, <2>4, <2>5
<1>6. CASE res_umap[r] # Absent
  <2>1. res_umap' = [res_umap EXCEPT ![r][step[c]] = call[c]] /\ UNCHANGED freed
    BY <1>2, <1>6
  <2>2. res_umap[r] \in [1 .. 3 -> Request \cup {None}]
    BY <1>3, <1>6 DEF TypeOK
  <2>3. /\ res_umap'[r] \in [1 .. 3 -> Request \cup {None}]
        /\ res_umap'[r][step[c]] = call[c]
        /\ \A k \in 1 .. 3 : k # step[c] => res_umap'[r][k] = res_umap[r][k]
        /\ \A s \in Request \ {r} : res_umap'[s] = res_umap[s]
    BY <1>1, <1>3, <2>1, <2>2 DEF TypeOK
  <2>4. TypeOK'
    BY <1>1, <1>3, <1>4, <2>1, <2>3 DEF TypeOK
  <2>5. MarkedInv'
    BY <1>1, <1>4 DEF MarkedInv
  <2>6. r \in mixed \/ r = call[c]
    BY <1>1, <1>2 DEF MarkedInv
  <2>7. OnlyOverlappingMix'
    BY <1>1, <2>1, <2>3, <2>6 DEF OnlyOverlappingMix, CallOk
  <2>8. ASSUME NEW d \in Client PROVE CallOk(d)'
    <3> SUFFICES ASSUME Active(d) PROVE CallOk(d)'
      BY <1>4 DEF CallOk
    <3>1. /\ call[d] \in {d} \X Id /\ call[d] \in Request
          /\ res_umap[call[d]] # Absent /\ call[d] \notin res_set
      BY DEF CallOk, Request
    <3>2. res_umap'[call[d]] # Absent
      BY <2>3, <3>1, EntryNotAbsent
    <3>3. CASE d # c
      <4>1. call[d] \in mixed
        BY <1>1, <3>3 DEF MarkedInv
      <4> QED BY <1>1, <3>1, <3>2, <4>1 DEF CallOk
    <3>4. CASE d = c /\ call[c] \notin mixed
      <4>1. r = call[c] /\ msg_p = call[c] /\ step'[c] = step[c] + 1
        BY <1>1, <1>3, <3>4 DEF CallOk, TypeOK
      <4>2. \A k \in 1 .. 3 : k < step'[c] => k = step[c] \/ k < step[c]
        BY <1>1, <4>1
      <4>3. \A k \in 1 .. 3 : k < step'[c] => res_umap'[call[c]][k] = call[c]
        BY <1>1, <2>3, <3>4, <4>1, <4>2 DEF CallOk
      <4> QED BY <1>1, <3>1, <3>2, <3>4, <4>1, <4>3 DEF CallOk
    <3>5. CASE d = c /\ call[c] \in mixed
      BY <1>1, <3>1, <3>2, <3>5 DEF CallOk
    <3> QED BY <3>3, <3>4, <3>5
  <2> QED BY <2>1, <2>4, <2>5, <2>7, <2>8
<1> QED BY <1>5, <1>6

LEMMA PublishStep ==
  ASSUME IInv, NEW c \in Client, Publish(c)
  PROVE  IInv'
<1> USE DEF IInv, Publish
<1>1. /\ Active(c) /\ ~Active(c)' /\ res_set' = res_set \cup {call[c]}
      /\ UNCHANGED <<msg_p, call, res_umap, mixed, freed>>
      /\ \A d \in Client \ {c} : (Active(d)' <=> Active(d)) /\ step'[d] = step[d]
  BY DEF Active, TypeOK
<1>2. call[c] \in {c} \X Id /\ call[c] \in Request
  BY <1>1 DEF CallOk, Request
<1>3. TypeOK'
  BY <1>1, <1>2 DEF TypeOK
<1>4. MarkedInv'
  BY <1>1 DEF MarkedInv
<1>5. call[c] \notin mixed => \A k \in 1 .. 3 : res_umap[call[c]][k] = call[c]
  BY <1>1 DEF CallOk
<1>6. OnlyOverlappingMix'
  BY <1>1, <1>5 DEF OnlyOverlappingMix
<1>7. ASSUME NEW d \in Client PROVE CallOk(d)'
  <2>1. CASE d = c
    BY <1>1, <2>1 DEF CallOk
  <2>2. CASE d # c
    BY <1>1, <1>2, <2>2 DEF CallOk
  <2> QED BY <2>1, <2>2
<1> QED BY <1>3, <1>4, <1>6, <1>7

LEMMA ConsumeStep ==
  ASSUME IInv, NEW r \in Request, Consume(r)
  PROVE  IInv'
<1> USE DEF IInv
<1>1. /\ r \in res_set /\ res_set' = res_set \ {r}
      /\ UNCHANGED <<msg_p, step, call, mixed, freed>>
      /\ \A s \in Request \ {r} : res_umap'[s] = res_umap[s]
      /\ \A d \in Client : Active(d)' <=> Active(d)
  BY DEF Consume, TypeOK, Active
<1>2. TypeOK'
  BY DEF Consume, TypeOK, Active
<1>3. MarkedInv'
  BY <1>1 DEF MarkedInv
<1>4. OnlyOverlappingMix'
  <2>1. res_set \subseteq Request
    BY DEF TypeOK
  <2> QED BY <1>1, <2>1 DEF OnlyOverlappingMix
<1>5. ASSUME NEW d \in Client PROVE CallOk(d)'
  <2> SUFFICES ASSUME Active(d) PROVE CallOk(d)'
    BY <1>1 DEF CallOk
  <2>1. call[d] \in Request /\ call[d] # r
    BY <1>1 DEF CallOk, Request
  <2> QED BY <1>1, <2>1 DEF CallOk
<1> QED BY <1>2, <1>3, <1>4, <1>5

(* A result mixed with another one, or written to freed memory, is one of  *)
(* a call during which another client was in resMsgAdd, for any number of  *)
(* clients and requests and whichever value of msg_p each access reads.    *)
THEOREM MixingNeedsOverlap == Spec => [](TypeOK /\ OnlyOverlappingMix)
<1>1. IInv /\ [Next]_vars => IInv'
  <2> SUFFICES ASSUME IInv, [Next]_vars PROVE IInv'
    OBVIOUS
  <2>1. CASE Next
    BY <2>1, LookupStep, WriteStep, PublishStep, ConsumeStep DEF Next
  <2>2. CASE UNCHANGED vars
    BY <2>2 DEF vars, IInv, TypeOK, MarkedInv, OnlyOverlappingMix, CallOk, Active
  <2> QED BY <2>1, <2>2
<1>2. IInv => TypeOK /\ OnlyOverlappingMix
  BY DEF IInv
<1> QED BY Initially, <1>1, <1>2, PTL DEF Spec
=============================================================================
