---------------------------- MODULE MCSensorNode ----------------------------
(* The model-checking instance of SensorNode: one-bit bytes, frames of at   *)
(* most four of them and a checksum of their number and their first bit.    *)
EXTENDS SensorNode

MCCrc(s) == <<IF s = <<>> THEN 0 ELSE s[1], Len(s) % 2>>

MCResponse == {<<0>>, <<1, 0>>}
=============================================================================
