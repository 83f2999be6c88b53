------------------------------- MODULE MCPage -------------------------------
(***************************************************************************)
(* Model-checking instance of Page: a 48-byte page, so that the fixed      *)
(* 4-byte header and 6-byte slot entries weigh as they do in a 4 KiB page  *)
(* filled with small records, and three payloads: two short ones that let  *)
(* five or more records share the page (holes, reuse of ids, the charge    *)
(* underflow) and a long one that can leave an emptied page unable to take *)
(* it again and can fall below the lowest record.                          *)
(***************************************************************************)
EXTENDS Page, TLC

CONSTANTS a, b, c, Garbled

MCPayloads == {a, b, c}
MCValueLen == a :> 2 @@ b :> 3 @@ c :> 30

(* Refinement mapping to the abstract page: each live slot id maps to the  *)
(* payload its bytes spell, or Garbled when they spell none.               *)
Decode(bytes) ==
  IF \E p \in Payloads : bytes = Bytes(p)
  THEN CHOOSE p \in Payloads : bytes = Bytes(p)
  ELSE Garbled

AbsRecords == [s \in SlotIds |-> Decode(GetValue(s))]

Abs == INSTANCE PageSpec WITH records <- AbsRecords

(* Spec 8.1/S1/S2: the page implements the abstract page -- get_value(s)   *)
(* returns what the add_value that produced s stored, until delete_value(s) *)
(* and new ids are the smallest unused ones.                               *)
PageRefinesSpec == Abs!Spec

=============================================================================
