------------------------------ MODULE AbsClient ------------------------------
(***************************************************************************)
(* What an SSClient promises about requests while none can be sent:        *)
(* identifiers in sequence, one answer to each in the order of the         *)
(* identifiers, and each answer taken by the consumer at most once.  The   *)
(* answers and what was taken are sequences that only grow, so that a      *)
(* second answer or a second taking of one request would show.             *)
(***************************************************************************)
EXTENDS Naturals, Sequences

CONSTANT MaxReq   (* bound: requests ever submitted                         *)

VARIABLES
  submitted,  (* identifiers given out are 1 .. submitted                   *)
  answers,    (* requests whose result was published, in that order         *)
  taken       (* requests whose result the consumer took, in that order     *)

Init == submitted = 0 /\ answers = <<>> /\ taken = <<>>

Submit ==
  /\ submitted < MaxReq
  /\ submitted' = submitted + 1
  /\ UNCHANGED <<answers, taken>>

Answer ==
  /\ Len(answers) < submitted
  /\ answers' = Append(answers, Len(answers) + 1)
  /\ UNCHANGED <<submitted, taken>>

Deliver(id) ==
  /\ \E k \in DOMAIN answers : answers[k] = id
  /\ \A k \in DOMAIN taken : taken[k] # id
  /\ taken' = Append(taken, id)
  /\ UNCHANGED <<submitted, answers>>

Next == Submit \/ Answer \/ \E id \in 1 .. MaxReq : Deliver(id)

Spec == Init /\ [][Next]_<<submitted, answers, taken>>
=============================================================================
