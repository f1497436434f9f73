----------------------------- MODULE MCNotices -----------------------------
(* Notices with small values, for TLC. *)
EXTENDS Notices, TLC

CONSTANTS c1, c2

\* Two sections of a class; a notice to one of them and the staff that comes later,
\* and one to the class that ends.
OneClass == c1 :> "class1" @@ c2 :> "class1"
TwoNotices == {[for |-> {<<"SECTION", c1>>, <<"STAFF">>}, from |-> 1, until |-> 0],
               [for |-> {<<"CLASS", "class1">>}, from |-> 0, until |-> 1]}
=============================================================================
