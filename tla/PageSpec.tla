------------------------------ MODULE PageSpec ------------------------------
(***************************************************************************)
(* What spec.md section 4.1 promises of a page, abstractly: a partial map  *)
(* from slot ids to the values stored under them.  add_value stores a      *)
(* value under the smallest unused slot id (or refuses, changing nothing); *)
(* delete_value forgets one id.  get_value(s) is records[s] while s is     *)
(* live, so every value reads back as written until it is deleted.         *)
(***************************************************************************)
EXTENDS Naturals, FiniteSets

CONSTANT Payloads

VARIABLE records

Live == DOMAIN records

(* Among 0..|Live| at least one id is unused; take the least. *)
SmallestUnused ==
  CHOOSE i \in 0..Cardinality(Live) : i \notin Live /\ \A j \in 0..(i - 1) : j \in Live

Init == records = [s \in {} |-> CHOOSE p \in Payloads : TRUE]

Add(p) ==
  records' = [s \in Live \cup {SmallestUnused} |->
                IF s = SmallestUnused THEN p ELSE records[s]]

Delete(s) ==
  /\ s \in Live
  /\ records' = [t \in Live \ {s} |-> records[t]]

Next == (\E p \in Payloads : Add(p)) \/ (\E s \in Live : Delete(s))

Spec == Init /\ [][Next]_records

=============================================================================
