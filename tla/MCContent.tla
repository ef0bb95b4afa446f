------------------------------ MODULE MCContent ------------------------------
(* An instance of Content for TLC: values for its constants.  d1 has one    *)
(* panel; d2 has a panel, or none, or is a client that leaves out a number. *)
EXTENDS Content, TLC

CONSTANTS d1, d2

MCHints == d1 :> {<<2, 1>>} @@ d2 :> {<<0, 0>>, <<2, 1>>, <<2, 0>>}
MCDoc(e, w) == <<[id |-> e, url |-> TRUE, size |-> <<1, 1>>],
                 [id |-> d2, url |-> TRUE, size |-> <<3, 3>>],
                 [id |-> d1, url |-> TRUE, size |-> <<w, 1>>]>>
MCDocs  == {<<>>, MCDoc(d1, 2), MCDoc(Empty, 2), MCDoc(d1, 0)}
==============================================================================
