------------------------------ MODULE MCSSClient ------------------------------
(* Instances of SSClient for TLC: what the server may send, and symmetry.  *)
EXTENDS SSClient, TLC

Reg(r, t) == [reg |-> TRUE, res |-> r, id |-> 0, term |-> t]
Other(r, i) == [reg |-> FALSE, res |-> r, id |-> i, term |-> FALSE]

RegOk == [c \in Channel |-> {Reg("ok", FALSE)}]

(* As the code stands no request is sent: the server answers registrations *)
(* and sends results of requests of an earlier process, if any.  Nothing   *)
(* reads what it sends on "out".                                           *)
AnswersReg ==
  [RegOk EXCEPT !["in"] = {Reg(r, t) : r \in {"ok", "err"}, t \in BOOLEAN}
                            \cup {Other("ok", i) : i \in {0, MaxReq + 1}}]

(* On "out" messages of every kind outEpollin tells apart, asked for or    *)
(* not.                                                                    *)
AnyAnswer ==
  [RegOk EXCEPT !["out"] = {Reg(r, FALSE) : r \in {"ok", "not_ready", "err"}}
                             \cup {Other(r, 0) : r \in {"ok", "err", "busy"}}]

FdSymmetry == Permutations(Fd)
=============================================================================
