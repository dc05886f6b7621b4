------------------------------- MODULE NodeInit -------------------------------
(***************************************************************************)
(* SSClient::nodeInit, run by processes of one machine: each takes the     *)
(* time in milliseconds as its service_id while it holds the named         *)
(* semaphore of that time, which the kernel keeps until it is unlinked.    *)
(***************************************************************************)
EXTENDS Integers

CONSTANTS
  Process,
  NamePeriod,  (* substr(4) keeps nine digits: 10^9                         *)
  MaxTime      (* bound: milliseconds                                       *)

ASSUME NodeAssumption == NamePeriod \in Nat \ {0} /\ MaxTime \in Nat

VARIABLES
  now,         (* system_clock, in milliseconds                             *)
  stepped,     (* history: the clock was set back                           *)
  names,       (* the semaphores that exist                                 *)
  pc,          (* per process, what it does next                            *)
  service_id,
  late         (* history: processes whose sem_open came in a later         *)
               (* millisecond than the time they opened                     *)

vars == <<now, stepped, names, pc, service_id, late>>

Init ==
  /\ now = 0 /\ stepped = FALSE /\ names = {} /\ late = {}
  /\ pc = [p \in Process |-> "read"] /\ service_id = [p \in Process |-> 0]

(* The process has the semaphore of its time, and is not dead.             *)
Inside(p) == pc[p] \in {"sleep", "unlink"}

(* Definitions named Bad... are mistakes this code could contain; nothing  *)
(* uses them but the tests of the properties.                              *)
BadName(p) == service_id[p]
Name(p) == service_id[p] % NamePeriod

ReadTime(p) ==
  /\ pc[p] = "read"
  /\ service_id' = [service_id EXCEPT ![p] = now]
  /\ pc' = [pc EXCEPT ![p] = "open"]
  /\ UNCHANGED <<now, stepped, names, late>>

(* No O_EXCL; no usleep.                                                   *)
BadOpen(p) ==
  /\ pc[p] = "open"
  /\ names' = names \cup {Name(p)}
  /\ late' = IF now > service_id[p] THEN late \cup {p} ELSE late
  /\ pc' = [pc EXCEPT ![p] = "sleep"]
  /\ UNCHANGED <<now, stepped, service_id>>

BadOpenNoSleep(p) ==
  /\ pc[p] = "open" /\ Name(p) \notin names
  /\ names' = names \cup {Name(p)}
  /\ late' = IF now > service_id[p] THEN late \cup {p} ELSE late
  /\ pc' = [pc EXCEPT ![p] = "unlink"]
  /\ UNCHANGED <<now, stepped, service_id>>

Open(p) ==
  /\ pc[p] = "open" /\ Name(p) \notin names
  /\ names' = names \cup {Name(p)}
  /\ late' = IF now > service_id[p] THEN late \cup {p} ELSE late
  /\ pc' = [pc EXCEPT ![p] = "sleep"]
  /\ UNCHANGED <<now, stepped, service_id>>

(* EEXIST; any other error of sem_open has the same effect.                *)
OpenFails(p) ==
  /\ pc[p] = "open"
  /\ pc' = [pc EXCEPT ![p] = "backoff"]
  /\ UNCHANGED <<now, stepped, names, service_id, late>>

Unlink(p) ==
  /\ pc[p] = "unlink"
  /\ names' = names \ {Name(p)}
  /\ pc' = [pc EXCEPT ![p] = "done"]
  /\ UNCHANGED <<now, stepped, service_id, late>>

(* The process ends before the call does; the kernel keeps its semaphore.  *)
Die(p) ==
  /\ pc[p] \notin {"done", "dead", "abandoned"}
  /\ pc' = [pc EXCEPT ![p] = IF Inside(p) THEN "abandoned" ELSE "dead"]
  /\ UNCHANGED <<now, stepped, names, service_id, late>>

(* A millisecond passes: whoever was in a usleep(1000) may go on.          *)
Tick ==
  /\ now < MaxTime
  /\ now' = now + 1
  /\ pc' = [p \in Process |-> CASE pc[p] = "sleep" -> "unlink"
                              [] pc[p] = "backoff" -> "read"
                              [] OTHER -> pc[p]]
  /\ UNCHANGED <<stepped, names, service_id, late>>

SetBack ==
  /\ now' \in 0 .. now - 1
  /\ stepped' = TRUE
  /\ UNCHANGED <<names, pc, service_id, late>>

Next ==
  \/ \E p \in Process : ReadTime(p) \/ Open(p) \/ OpenFails(p) \/ Unlink(p) \/ Die(p)
  \/ Tick \/ SetBack

Spec == Init /\ [][Next]_vars

-----------------------------------------------------------------------------

TypeOK ==
  /\ now \in 0 .. MaxTime /\ stepped \in BOOLEAN
  /\ names \subseteq 0 .. NamePeriod - 1
  /\ pc \in [Process -> {"read", "open", "backoff", "sleep", "unlink", "done",
                         "dead", "abandoned"}]
  /\ service_id \in [Process -> 0 .. MaxTime]
  /\ late \subseteq Process

(* The semaphores that exist are those of the processes between sem_open   *)
(* and sem_unlink, one each, and of processes that died there: nobody      *)
(* unlinks a name that another process holds.                              *)
Holds(p) == Inside(p) \/ pc[p] = "abandoned"
NamesAreHeld ==
  /\ names = {Name(p) : p \in {q \in Process : Holds(q)}}
  /\ \A p, q \in Process : Holds(p) /\ Holds(q) /\ Name(p) = Name(q) => p = q

(* "need for new time" (the usleep before sem_unlink): as long as the clock *)
(* is not set back, two processes get the same service_id only if one of   *)
(* them was delayed between the clock and sem_open until the millisecond   *)
(* was over, and the name free again.                                      *)
HasId(p) == Inside(p) \/ pc[p] = "done"
IdsDistinct ==
  \A p, q \in Process :
    HasId(p) /\ HasId(q) /\ service_id[p] = service_id[q]
      => p = q \/ {p, q} \cap late # {} \/ stepped
=============================================================================
