----------------------------- MODULE MCFwUpdate -----------------------------
(* The model-checking instance of FwUpdate: two pages of two words and      *)
(* images of three words, so that the second page needs padding.            *)
EXTENDS FwUpdate

CONSTANTS a, b, MaxWords   \* bound on the words sent between two resets

MCWord == {a, b, Erased}
MCFactory == <<a, b, a>>
MCImage == {MCFactory, <<b, a, b>>}

Bounded == offset' + Len(buffer') <= MaxWords

MCSpec == Init /\ [][Next /\ Bounded]_vars
=============================================================================
