-------------------------- MODULE MCMeasuringSlave --------------------------
(* The model-checking instance of MeasuringSlave: eight registers (0-3 the  *)
(* measurement, 4 the version, 5 the reset, 6 and 7 the update), and every  *)
(* request with fields that matter, in full length, cut short or too long.  *)
EXTENDS MeasuringSlave

MCRaw == {[high |-> 3, low |-> 5, diodes |-> 0], [high |-> 6, low |-> 1, diodes |-> 4]}

Pairs(fn) == {<<fn, <<reg, n>>>> : reg \in Word, n \in Word}

Multiples ==
  {<<"writeMultiple", <<reg, n, count>> \o words>> :
     reg \in Word, n \in 0 .. 3, count \in {2, 4, 6},
     words \in UNION {[1 .. k -> {0, 1}] : k \in 0 .. 3}}

Short == {<<fn, fields>> : fn \in {"read", "write", "writeMultiple"}, fields \in {<<>>, <<5>>}}

Other == {<<fn, <<>>>> : fn \in {"other", "missing"}}

MCRequest ==
  {[mine |-> TRUE, fn |-> f[1], fields |-> f[2], rest |-> rest] :
     f \in Pairs("read") \cup Pairs("write") \cup Multiples \cup Short \cup Other
           \cup {<<"writeMultiple", <<5, 1>>>>},
     rest \in BOOLEAN}
  \cup {[mine |-> FALSE, fn |-> "write", fields |-> <<5, 1>>, rest |-> FALSE]}
=============================================================================
