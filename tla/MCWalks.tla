------------------------------ MODULE MCWalks ------------------------------
(* Walks over lists of up to five rows, two to a page, that may change twice. *)
EXTENDS Walks
MCStartLists == {{}, {2, 4}, {1, 2, 4, 5}, {1, 2, 3, 4, 5}}
============================================================================
