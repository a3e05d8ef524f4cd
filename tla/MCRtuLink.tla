----------------------------- MODULE MCRtuLink -----------------------------
(* The model-checking instance of RtuLink: one-bit bytes, a short buffer   *)
(* and a two-bit checksum that keeps the position of the payload bits.     *)
EXTENDS RtuLink

CONSTANT MaxRun   \* bound on the bytes of one run

MCCrc(s) ==
  LET count(p) == Len(SelectSeq([i \in 1 .. Len(s) |-> <<i % 2, s[i]>>],
                                LAMBDA x : x = <<p, 1>>))
  IN  <<count(1) % 2, (count(0) + Len(s)) % 2>>

MCResponse == {<<0>>, <<1, 0>>}

Bounded == Len(run') <= MaxRun

MCSpec == Init /\ [][Next /\ Bounded]_vars
=============================================================================
