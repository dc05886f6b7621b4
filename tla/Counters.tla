------------------------------- MODULE Counters -------------------------------
(***************************************************************************)
(* Counter and CounterCircular of ntb_util.h: collections of samples with  *)
(* their Stats.  A Counter updates the Stats with each sample, a           *)
(* CounterCircular keeps the last samples in an array until updateStats.   *)
(* A sample is the time since `start`; the clock may be set back and       *)
(* reset() moves start, so it is any number.                               *)
(***************************************************************************)
EXTENDS Integers, Sequences, Functions, FiniteSetsExt

CONSTANTS
  Kind,        (* subset of {"plain", "circular"}                           *)
  Sample,
  MaxSamples,  (* values of max_samples                                     *)
  INTMAX_MAX,
  MaxColl,     (* bound: collections                                        *)
  MaxAdded     (* bound: samples of a collection since its last reset       *)

ASSUME CountersAssumption ==
  /\ Kind \subseteq {"plain", "circular"}
  /\ INTMAX_MAX \in Nat /\ Sample \subseteq -INTMAX_MAX .. INTMAX_MAX
  /\ MaxSamples \subseteq Nat \ {0} /\ MaxColl \in Nat /\ MaxAdded \in Nat

VARIABLES
  kind,
  collections_vec,  (* the Stats, and for a CounterCircular `first`, its    *)
                    (* array, current_pos and full_flag                     *)
  counted,          (* history: per collection the samples that its Stats   *)
                    (* took since their last reset                          *)
  added             (* history: the samples added since the last updateStats*)

vars == <<kind, collections_vec, counted, added>>

NewStats == [min |-> INTMAX_MAX, max |-> 0, average |-> 0, samples_count |-> 0]

Init ==
  /\ kind \in Kind
  /\ collections_vec = <<>> /\ counted = <<>> /\ added = <<>>

(* Integer division of C++.                                                *)
Quotient(a, b) == IF a >= 0 THEN a \div b ELSE -((-a) \div b)

(* Definitions named Bad... are mistakes this code could contain; nothing  *)
(* uses them but the tests of the properties.                              *)
BadTake(s, t) ==
  [min |-> IF t < s.min THEN t ELSE s.min, max |-> IF t > s.max THEN t ELSE s.max,
   average |-> s.average + Quotient(t, s.samples_count + 1),
   samples_count |-> s.samples_count + 1]

(* What one sample does to Stats.                                          *)
Take(s, t) ==
  [min |-> IF t < s.min THEN t ELSE s.min, max |-> IF t > s.max THEN t ELSE s.max,
   average |-> s.average + Quotient(t - s.average, s.samples_count + 1),
   samples_count |-> s.samples_count + 1]

(* What the loops of updateStats do: one sample after the other.           *)
TakeAll(s, q) ==
  LET taken[k \in 0 .. Len(q)] == IF k = 0 THEN s ELSE Take(taken[k - 1], q[k])
  IN  taken[Len(q)]

AddCollection(m) ==
  /\ Len(collections_vec) < MaxColl
  /\ collections_vec' = Append(collections_vec,
       [stats |-> NewStats, first |-> [i \in 1 .. m |-> 0], current_pos |-> 0, full_flag |-> FALSE])
  /\ counted' = Append(counted, <<>>) /\ added' = Append(added, <<>>)
  /\ UNCHANGED kind

(* The bound on samples.                                                   *)
Room(n) == Len(counted[n]) + Len(added[n]) < MaxAdded

AddSample(n, t) ==
  /\ kind = "plain" /\ Room(n)
  /\ collections_vec' = [collections_vec EXCEPT ![n].stats = Take(@, t)]
  /\ counted' = [counted EXCEPT ![n] = Append(@, t)]
  /\ UNCHANGED <<kind, added>>

(* An off-by-one in the wrap.                                              *)
BadStore(c, t) ==
  LET wrap == c.current_pos > Len(c.first)
      pos == IF wrap THEN 0 ELSE c.current_pos
  IN  [c EXCEPT !.first[pos + 1] = t, !.current_pos = pos + 1,
                !.full_flag = @ \/ wrap]

(* The wrap comes before the write that needs it, one sample after the     *)
(* array is full.                                                          *)
Store(c, t) ==
  LET wrap == c.current_pos = Len(c.first)
      pos == IF wrap THEN 0 ELSE c.current_pos
  IN  [c EXCEPT !.first[pos + 1] = t, !.current_pos = pos + 1,
                !.full_flag = @ \/ wrap]

AddSampleCircular(n, t) ==
  /\ kind = "circular" /\ Room(n)
  /\ collections_vec' = [collections_vec EXCEPT ![n] = Store(@, t)]
  /\ added' = [added EXCEPT ![n] = Append(@, t)]
  /\ UNCHANGED <<kind, counted>>

(* The samples updateStats goes through.                                   *)
Kept(c) == IF c.full_flag THEN c.first ELSE SubSeq(c.first, 1, c.current_pos)

(* Reference: the samples it should go through, in the order they came.    *)
Newest(s, m) == SubSeq(s, IF Len(s) > m THEN Len(s) - m + 1 ELSE 1, Len(s))

(* The array is read again by the next update.                             *)
BadUpdateStats(n) ==
  /\ kind = "circular"
  /\ LET c == collections_vec[n]
     IN  /\ collections_vec' = [collections_vec EXCEPT ![n].stats = TakeAll(@, Kept(c)),
                                                      ![n].current_pos = 0]
         /\ counted' = [counted EXCEPT ![n] = @ \o Newest(added[n], Len(c.first))]
  /\ added' = [added EXCEPT ![n] = <<>>]
  /\ UNCHANGED kind

UpdateStats(n) ==
  /\ kind = "circular"
  /\ LET c == collections_vec[n]
     IN  /\ collections_vec' = [collections_vec EXCEPT ![n] =
              [c EXCEPT !.stats = TakeAll(@, Kept(c)),
                        !.full_flag = FALSE, !.current_pos = 0]]
         /\ counted' = [counted EXCEPT ![n] = @ \o Newest(added[n], Len(c.first))]
  /\ added' = [added EXCEPT ![n] = <<>>]
  /\ UNCHANGED kind

(* resetStats, and resetAllStats for all of them.                          *)
Reset(S) ==
  /\ S # {}
  /\ collections_vec' = [n \in DOMAIN collections_vec |->
       IF n \in S THEN [collections_vec[n] EXCEPT !.stats = NewStats] ELSE collections_vec[n]]
  /\ counted' = [n \in DOMAIN counted |-> IF n \in S THEN <<>> ELSE counted[n]]
  /\ UNCHANGED <<kind, added>>

Next ==
  \/ \E m \in MaxSamples : AddCollection(m)
  \/ \E n \in DOMAIN collections_vec :
       \/ \E t \in Sample : AddSample(n, t) \/ AddSampleCircular(n, t)
       \/ UpdateStats(n) \/ Reset({n})
  \/ Reset(DOMAIN collections_vec)

Spec == Init /\ [][Next]_vars

-----------------------------------------------------------------------------

TypeOK ==
  /\ kind \in Kind
  /\ \A n \in DOMAIN collections_vec :
       LET c == collections_vec[n]
       IN  /\ Len(c.first) \in MaxSamples /\ Range(c.first) \subseteq Sample \cup {0}
           /\ c.current_pos \in 0 .. Len(c.first) /\ c.full_flag \in BOOLEAN
           /\ {c.stats.min, c.stats.max, c.stats.average} \subseteq -INTMAX_MAX .. INTMAX_MAX
           /\ c.stats.samples_count \in Nat

(* Between updates the array holds the newest samples, up to its size,     *)
(* from the oldest at current_pos round to the newest before it: the late  *)
(* wrap, the flag and the two resets of updateStats lose none and repeat   *)
(* none.                                                                   *)
RingKeepsNewest ==
  \A n \in DOMAIN collections_vec :
    LET c == collections_vec[n]
        older == IF c.full_flag THEN SubSeq(c.first, c.current_pos + 1, Len(c.first)) ELSE <<>>
    IN  kind = "circular" =>
          older \o SubSeq(c.first, 1, c.current_pos) = Newest(added[n], Len(c.first))

(* The Stats of both classes describe the samples they took, although they *)
(* keep none: how many, the least, the greatest (not below the 0 that max  *)
(* starts from), and an average that the truncated steps leave between the *)
(* least and the greatest.                                                 *)
StatsDescribeSamples ==
  \A n \in DOMAIN collections_vec :
    LET s == collections_vec[n].stats
        took == Range(counted[n])
    IN  /\ s.samples_count = Len(counted[n])
        /\ s.min = Min(took \cup {INTMAX_MAX}) /\ s.max = Max(took \cup {0})
        /\ took # {} => s.average \in Min(took) .. Max(took)
=============================================================================
