---------------------------- MODULE SortedTotals ----------------------------
(***************************************************************************)
(* What groupby_save promises to its callers: the totals of the groups,    *)
(* written one by one in increasing order of id, all of them in the end.   *)
(***************************************************************************)
EXTENDS Integers, Sequences

VARIABLES
  totals,    (* the groups: a function from ids to weights                 *)
  out        (* the groups written                                         *)

Left == DOMAIN totals \ {out[a].id : a \in DOMAIN out}

Init == out = <<>>

Emit ==
  /\ \E g \in Left :
       /\ \A h \in Left : g <= h
       /\ out' = Append(out, [id |-> g, weight |-> totals[g]])
  /\ UNCHANGED totals

Safety == Init /\ [][Emit]_<<totals, out>>

Spec == Safety /\ WF_<<totals, out>>(Emit)

=============================================================================
