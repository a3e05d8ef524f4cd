--------------------------- MODULE MCUpdateSession ---------------------------
(* The model-checking instance of UpdateSession: images of five and six     *)
(* words for a slot of three pages of two words, in requests of three: one  *)
(* fills the slot, the other leaves its last page to be padded, and both    *)
(* have a request that crosses a page.                                      *)
EXTENDS UpdateSession

MCRaw == {[high |-> 0, low |-> 0, diodes |-> 0]}

MCFactory == <<4, 5, 6>>
MCImage == {MCFactory, <<1, 2, 3, 1, 2>>, <<2, 1, 7, 1, 2, 7>>}
MCVersionOf == [im \in MCImage |-> Len(im)]
=============================================================================
