----------------------------- MODULE MCPermHub -----------------------------
(* Two misses of an agent: the second path lies below the first one. *)
EXTENDS PermHub
CONSTANTS r1, r2, dir, file, ui

MCSubject == r1 :> file @@ r2 :> dir
MCWant == r1 :> 1 @@ r2 :> 2
MCCovers == {<<dir, dir>>, <<file, file>>, <<dir, file>>}
MCDecisions ==
    {Deny, [access |-> 1, scope |-> "once"], [access |-> 2, scope |-> "ttl"]}
\* A permanent grant stored by an earlier server, under the first id it gave out.
MCKept == {{[id |-> 1, subject |-> file, access |-> 2, scope |-> "permanent",
             expires |-> FALSE, live |-> TRUE]}}
=============================================================================
