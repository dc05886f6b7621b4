----------------------------- MODULE ResultStore -----------------------------
(***************************************************************************)
(* resMsgAdd of several SSClient objects in one process, each with a loop  *)
(* thread and a consumer of its own.  Their result stores are apart, but   *)
(* msg_p, the pointer to the result being filled in, is one static         *)
(* variable: the accesses to it race.  A request is a client and an        *)
(* identifier; the value of a field is the request whose resMsgAdd call    *)
(* wrote it.                                                               *)
(***************************************************************************)
EXTENDS Naturals, Sequences

CONSTANTS
  Client,
  Id,
  None       (* a field nobody wrote, and the initial msg_p                 *)

Request == Client \X Id

ASSUME StoreAssumption == None \notin Request

VARIABLES
  msg_p,
  step,      (* per client: 0 outside resMsgAdd, 1 to 3 before a write of   *)
             (* rescode, payload or method, 4 before the publication        *)
  call,      (* per client: the request of its last call                    *)
  res_umap,  (* per request: the fields of its entry, or none               *)
  res_set,   (* requests whose result is published                          *)
  mixed,     (* history: requests with a call during one of another client  *)
  freed      (* history: requests whose call wrote to an erased entry       *)

vars == <<msg_p, step, call, res_umap, res_set, mixed, freed>>

Absent == <<>>
Empty == [k \in 1 .. 3 |-> None]

(* reqMsgAdd has made entries for some requests.                           *)
Init ==
  /\ msg_p = None
  /\ step = [c \in Client |-> 0] /\ call \in [Client -> {None}]
  /\ res_umap \in [Request -> {Absent, Empty}] /\ res_set = {}
  /\ mixed = {} /\ freed = {}

Active(c) == step[c] # 0

Overlap(c, r) ==
  LET others == {call[d] : d \in {e \in Client \ {c} : Active(e)}}
  IN  mixed \cup others \cup (IF others = {} THEN {} ELSE {r})

(* Definitions named Bad... are mistakes this code could contain; nothing  *)
(* uses them but the tests of the properties.  The catch clause does not   *)
(* return.                                                                 *)
BadLookup(c, id) ==
  /\ ~Active(c) /\ <<c, id>> \notin res_set
  /\ msg_p' = IF res_umap[<<c, id>>] = Absent THEN msg_p ELSE <<c, id>>
  /\ step' = IF msg_p' = None THEN step ELSE [step EXCEPT ![c] = 1]
  /\ call' = [call EXCEPT ![c] = <<c, id>>]
  /\ mixed' = Overlap(c, <<c, id>>)
  /\ UNCHANGED <<res_umap, res_set, freed>>

(* msg_p is not assigned.                                                  *)
BadLookupNull(c, id) ==
  /\ ~Active(c) /\ <<c, id>> \notin res_set /\ res_umap[<<c, id>>] # Absent
  /\ step' = [step EXCEPT ![c] = 1]
  /\ call' = [call EXCEPT ![c] = <<c, id>>]
  /\ mixed' = Overlap(c, <<c, id>>)
  /\ UNCHANGED <<msg_p, res_umap, res_set, freed>>

(* A result that nobody waits for leaves everything as it is.  No request  *)
(* gets a second result while the consumer has not taken the first, as     *)
(* AnswersCorrect of SSClientProofs shows for one client.                  *)
Lookup(c, id) ==
  /\ ~Active(c) /\ <<c, id>> \notin res_set /\ res_umap[<<c, id>>] # Absent
  /\ msg_p' = <<c, id>>
  /\ step' = [step EXCEPT ![c] = 1]
  /\ call' = [call EXCEPT ![c] = <<c, id>>]
  /\ mixed' = Overlap(c, <<c, id>>)
  /\ UNCHANGED <<res_umap, res_set, freed>>

(* Each write may read msg_p again, or use the value the thread gave it.   *)
Write(c) ==
  /\ step[c] \in 1 .. 3
  /\ \E r \in {msg_p, call[c]} :
       IF res_umap[r] = Absent
       THEN freed' = freed \cup {call[c]} /\ UNCHANGED res_umap
       ELSE res_umap' = [res_umap EXCEPT ![r][step[c]] = call[c]] /\ UNCHANGED freed
  /\ step' = [step EXCEPT ![c] = @ + 1]
  /\ UNCHANGED <<msg_p, call, res_set, mixed>>

Publish(c) ==
  /\ step[c] = 4
  /\ res_set' = res_set \cup {call[c]}
  /\ step' = [step EXCEPT ![c] = 0]
  /\ UNCHANGED <<msg_p, call, res_umap, mixed, freed>>

(* The consumer of a client takes a result and erases the entry.           *)
Consume(r) ==
  /\ r \in res_set
  /\ res_set' = res_set \ {r}
  /\ res_umap' = [res_umap EXCEPT ![r] = Absent]
  /\ UNCHANGED <<msg_p, step, call, mixed, freed>>

Next ==
  \/ \E c \in Client : (\E id \in Id : Lookup(c, id)) \/ Write(c) \/ Publish(c)
  \/ \E r \in Request : Consume(r)

Spec == Init /\ [][Next]_vars

-----------------------------------------------------------------------------

TypeOK ==
  /\ msg_p \in Request \cup {None} /\ (msg_p = None => \A c \in Client : ~Active(c))
  /\ step \in [Client -> 0 .. 4] /\ call \in [Client -> Request \cup {None}]
  /\ res_umap \in [Request -> {Absent} \cup [1 .. 3 -> Request \cup {None}]]
  /\ {res_set, mixed, freed} \subseteq SUBSET Request

(* The race on msg_p can mix results, or write to freed memory, only       *)
(* between clients that are in resMsgAdd at the same time: any other       *)
(* published result is the one of its own call, whatever the pointer held  *)
(* before.                                                                 *)
OnlyOverlappingMix ==
  /\ freed \subseteq mixed
  /\ \A r \in res_set \ mixed : \A k \in 1 .. 3 : res_umap[r][k] = r
=============================================================================
