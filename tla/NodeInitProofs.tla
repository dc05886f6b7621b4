---------------------------- MODULE NodeInitProofs ----------------------------
(***************************************************************************)
(* nodeInit for any number of processes, any period of the names and any   *)
(* number of milliseconds.                                                 *)
(***************************************************************************)
EXTENDS NodeInit, TLAPS

(* A time read is not in the future, and is over once the process has      *)
(* unlinked, unless its sem_open was late or the clock was set back.       *)
TimeOk(p) ==
  /\ service_id[p] <= now
  /\ pc[p] \in {"unlink", "done"} /\ p \notin late => service_id[p] < now

TimesInv == ~stepped => \A p \in Process : TimeOk(p)

IInv == TypeOK /\ NamesAreHeld /\ TimesInv /\ IdsDistinct

(* The types, and the steps that change no name.                           *)
LEMMA TypeStep == TypeOK /\ [Next]_vars => TypeOK'
<1> SUFFICES ASSUME TypeOK, [Next]_vars PROVE TypeOK'
  OBVIOUS
<1> USE NodeAssumption DEF TypeOK
<1>1. ASSUME NEW p \in Process, ReadTime(p) PROVE TypeOK'
  BY <1>1 DEF ReadTime
<1>2. ASSUME NEW p \in Process, Open(p) PROVE TypeOK'
  <2>1. Name(p) \in 0 .. NamePeriod - 1
    BY DEF Name
  <2> QED BY <1>2, <2>1 DEF Open
<1>3. ASSUME NEW p \in Process, OpenFails(p) PROVE TypeOK'
  BY <1>3 DEF OpenFails
<1>4. ASSUME NEW p \in Process, Unlink(p) PROVE TypeOK'
  BY <1>4 DEF Unlink
<1>5. ASSUME NEW p \in Process, Die(p) PROVE TypeOK'
  BY <1>5 DEF Die
<1>6. CASE Tick
  BY <1>6 DEF Tick
<1>7. CASE SetBack
  BY <1>7 DEF SetBack
<1>8. CASE UNCHANGED vars
  BY <1>8 DEF vars
<1> QED BY <1>1, <1>2, <1>3, <1>4, <1>5, <1>6, <1>7, <1>8 DEF Next

LEMMA TimesStep == TypeOK /\ TimesInv /\ [Next]_vars => TimesInv'
<1> SUFFICES ASSUME TypeOK, TimesInv, [Next]_vars, ~stepped', NEW q \in Process
             PROVE  TimeOk(q)'
  BY DEF TimesInv
<1> USE NodeAssumption DEF TypeOK
<1>0. ~stepped
  BY DEF Next, ReadTime, Open, OpenFails, Unlink, Die, Tick, SetBack, vars
<1>1. TimeOk(q)
  BY <1>0 DEF TimesInv
<1>2. now \in Nat /\ service_id[q] \in Nat
  OBVIOUS
<1> USE DEF TimeOk
<1>3. ASSUME NEW p \in Process, ReadTime(p) PROVE TimeOk(q)'
  BY <1>1, <1>2, <1>3 DEF ReadTime
<1>4. ASSUME NEW p \in Process, Open(p) PROVE TimeOk(q)'
  BY <1>1, <1>2, <1>4 DEF Open
<1>5. ASSUME NEW p \in Process, OpenFails(p) PROVE TimeOk(q)'
  BY <1>1, <1>2, <1>5 DEF OpenFails
<1>6. ASSUME NEW p \in Process, Unlink(p) PROVE TimeOk(q)'
  BY <1>1, <1>2, <1>6 DEF Unlink
<1>7. ASSUME NEW p \in Process, Die(p) PROVE TimeOk(q)'
  BY <1>1, <1>2, <1>7 DEF Die
<1>8. CASE Tick
  BY <1>1, <1>2, <1>8 DEF Tick
<1>9. CASE SetBack
  BY <1>9 DEF SetBack
<1>10. CASE UNCHANGED vars
  BY <1>1, <1>10 DEF vars
<1> QED BY <1>3, <1>4, <1>5, <1>6, <1>7, <1>8, <1>9, <1>10 DEF Next

(* Names: only Open and Unlink change them, and each by the name of the    *)
(* process, which no other holds.                                          *)
LEMMA NamesStep == TypeOK /\ NamesAreHeld /\ [Next]_vars => NamesAreHeld'
<1> SUFFICES ASSUME TypeOK, NamesAreHeld, [Next]_vars PROVE NamesAreHeld'
  OBVIOUS
<1> USE DEF TypeOK, NamesAreHeld, Holds, Inside, Name
<1>1. ASSUME NEW p \in Process, ReadTime(p) PROVE NamesAreHeld'
  <2>1. /\ ~Holds(p) /\ ~Holds(p)'
        /\ \A q \in Process \ {p} : (Holds(q)' <=> Holds(q)) /\ Name(q)' = Name(q)
    BY <1>1 DEF ReadTime
  <2> QED BY <1>1, <2>1 DEF ReadTime
<1>2. ASSUME NEW p \in Process, Open(p) PROVE NamesAreHeld'
  <2>1. /\ ~Holds(p) /\ Holds(p)' /\ Name(p) \notin names
        /\ names' = names \cup {Name(p)}
        /\ \A q \in Process : Name(q)' = Name(q)
        /\ \A q \in Process \ {p} : Holds(q)' <=> Holds(q)
    BY <1>2 DEF Open
  <2> HIDE DEF Holds, Name
  <2> QED BY <2>1
<1>3. ASSUME NEW p \in Process, Unlink(p) PROVE NamesAreHeld'
  <2>1. /\ Holds(p) /\ ~Holds(p)'
        /\ names' = names \ {Name(p)}
        /\ \A q \in Process : Name(q)' = Name(q)
        /\ \A q \in Process \ {p} : Holds(q)' <=> Holds(q)
    BY <1>3 DEF Unlink
  <2> HIDE DEF Holds, Name
  <2> QED BY <2>1
<1>4. ASSUME names' = names, \A q \in Process : Name(q)' = Name(q),
             \A q \in Process : Holds(q)' <=> Holds(q)
      PROVE  NamesAreHeld'
  <2> HIDE DEF Holds, Name
  <2> QED BY <1>4
<1>5. ASSUME NEW p \in Process, OpenFails(p) \/ Die(p) PROVE NamesAreHeld'
  BY <1>4, <1>5 DEF OpenFails, Die
<1>6. CASE Tick \/ SetBack \/ UNCHANGED vars
  BY <1>4, <1>6 DEF Tick, SetBack, vars
<1> QED BY <1>1, <1>2, <1>3, <1>5, <1>6 DEF Next

(* A sem_open in time finds no process with the same id: one that still    *)
(* has its name keeps it out, and of one that is done the time is over.    *)
LEMMA OpenFresh ==
  ASSUME IInv, ~stepped, NEW r \in Process, NEW s \in Process, Open(r), s # r,
         HasId(s), service_id[s] = service_id[r], r \notin late', s \notin late
  PROVE  FALSE
<1> USE DEF IInv, TypeOK
<1>1. now \in Nat /\ service_id[r] \in Nat /\ service_id[r] <= now
  BY NodeAssumption DEF TimesInv, TimeOk
<1>2. service_id[r] = now
  BY <1>1 DEF Open
<1>3. CASE Inside(s)
  <2>1. Name(s) \in names
    BY <1>3 DEF NamesAreHeld, Holds
  <2> QED BY <2>1 DEF Open, Name
<1>4. CASE pc[s] = "done"
  BY <1>1, <1>2, <1>4 DEF TimesInv, TimeOk
<1> QED BY <1>3, <1>4 DEF HasId

LEMMA IdsStep == IInv /\ [Next]_vars => IdsDistinct'
<1> SUFFICES ASSUME IInv, [Next]_vars, ~stepped', NEW p \in Process, NEW q \in Process,
                    HasId(p)', HasId(q)', service_id'[p] = service_id'[q],
                    p \notin late', q \notin late', p # q
             PROVE  FALSE
  BY DEF IdsDistinct, HasId, Inside
<1> USE DEF IInv, TypeOK, HasId, Inside
<1>1. ~stepped /\ p \notin late /\ q \notin late
  BY DEF Next, ReadTime, Open, OpenFails, Unlink, Die, Tick, SetBack, vars
<1>2. ~(HasId(p) /\ HasId(q) /\ service_id[p] = service_id[q])
  BY <1>1 DEF IdsDistinct
<1>3. ASSUME NEW r \in Process, Open(r) PROVE FALSE
  <2>1. service_id' = service_id /\ \A s \in Process \ {r} : HasId(s)' <=> HasId(s)
    BY <1>3 DEF Open
  <2>2. CASE r = p
    BY <1>1, <1>3, <2>1, <2>2, OpenFresh
  <2>3. CASE r = q
    BY <1>1, <1>3, <2>1, <2>3, OpenFresh
  <2> QED BY <1>2, <2>1, <2>2, <2>3
<1>4. ASSUME NEW r \in Process, ReadTime(r) \/ OpenFails(r) \/ Unlink(r) \/ Die(r) PROVE FALSE
  BY <1>2, <1>4 DEF ReadTime, OpenFails, Unlink, Die
<1>5. CASE Tick \/ SetBack \/ UNCHANGED vars
  BY <1>2, <1>5 DEF Tick, SetBack, vars
<1> QED BY <1>3, <1>4, <1>5 DEF Next

LEMMA Initially == Init => IInv
<1> SUFFICES ASSUME Init PROVE IInv
  OBVIOUS
<1>1. TypeOK
  <2>1. now \in 0 .. MaxTime /\ names \subseteq 0 .. NamePeriod - 1 /\ late \subseteq Process
    BY NodeAssumption DEF Init
  <2>2. service_id \in [Process -> 0 .. MaxTime]
    BY NodeAssumption DEF Init
  <2>3. stepped \in BOOLEAN
    BY DEF Init
  <2>4. pc \in [Process -> {"read"}]
    BY DEF Init
  <2> QED BY <2>1, <2>2, <2>3, <2>4 DEF TypeOK
<1>2. NamesAreHeld /\ IdsDistinct
  BY DEF Init, NamesAreHeld, IdsDistinct, Holds, HasId, Inside
<1>3. TimesInv
  <2>1. ASSUME NEW p \in Process PROVE TimeOk(p)
    <3>1. now = 0 /\ service_id[p] = 0 /\ pc[p] = "read"
      BY DEF Init
    <3> QED BY <3>1 DEF TimeOk
  <2> QED BY <2>1 DEF TimesInv
<1> QED BY <1>1, <1>2, <1>3 DEF IInv

(* Semaphores are only those of live or dead holders, one each, and two    *)
(* processes share a service_id only after a delay or a clock set back,    *)
(* for every number of processes and whatever period the names have.       *)
THEOREM IdentifiersCorrect == Spec => [](TypeOK /\ NamesAreHeld /\ IdsDistinct)
<1>1. IInv /\ [Next]_vars => IInv'
  BY TypeStep, TimesStep, NamesStep, IdsStep DEF IInv
<1>2. IInv => TypeOK /\ NamesAreHeld /\ IdsDistinct
  BY DEF IInv
<1> QED BY Initially, <1>1, <1>2, PTL DEF Spec
=============================================================================
