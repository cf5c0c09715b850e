---------------------------- MODULE MCLayoutFile ----------------------------
(* A panel and an object that share no name; files that are valid, in either  *)
(* order, not valid, and not valid in the last group, whose groups also have  *)
(* no id.  All files that are refused are alike: one of them is enough.       *)
EXTENDS LayoutFile

CONSTANTS top, clock

Toplevel(name) == [kind |-> "toplevel", name |-> name, on |-> NoName, valid |-> TRUE]
Object(name, on, valid) == [kind |-> "object", name |-> name, on |-> on, valid |-> valid]

MCFiles ==
  {<<Toplevel(top), Object(clock, top, TRUE)>>,
   <<Object(clock, top, TRUE), Toplevel(top)>>,
   <<Toplevel(top), Object(clock, top, FALSE)>>,
   <<Toplevel(NoName), Object(NoName, Invalid, TRUE)>>}
MCDisplays == {1, 2}
=============================================================================
