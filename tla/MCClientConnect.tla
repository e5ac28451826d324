--------------------------- MODULE MCClientConnect ---------------------------
(* ClientConnect on a small instance.                                      *)
EXTENDS ClientConnect

CONSTANTS old, new, a, b

TwoCAs == {old, new}
TwoCandidates == {a, b}

Word(pad, name, clean) == [pad |-> pad, name |-> name, clean |-> clean]

(* An id, one with an accent, nothing, an id and a candidate, a candidate  *)
(* alone or glued to an id, and three words; an entry holds 20 characters. *)
TypedIds ==
  {<<>>, <<Word(3, NoName, TRUE)>>, <<Word(20, NoName, TRUE)>>,
   <<Word(3, NoName, FALSE)>>, <<Word(0, a, TRUE)>>, <<Word(3, a, TRUE)>>,
   <<Word(3, NoName, TRUE), Word(0, a, TRUE)>>,
   <<Word(3, NoName, TRUE), Word(3, NoName, TRUE), Word(3, NoName, TRUE)>>}
=============================================================================
