------------------------------ MODULE PageStore ------------------------------
(***************************************************************************)
(* What a heap file promises its callers: write_page(P) followed by        *)
(* read_page(P.id) returns P (spec 5.3 and S4, the test hs_hf_insert).  A  *)
(* page id never written reads as the empty page, as read_page_from_file   *)
(* does; the out-of-range error spec 4.2 asks for is not part of this      *)
(* abstraction.                                                            *)
(*                                                                         *)
(*   store -- page id -> the page image stored under it                    *)
(*   req   -- per thread, the page id of its read in progress              *)
(*   res   -- per thread, the page its last read returned                  *)
(***************************************************************************)
CONSTANTS Threads, PageIds, Images, ZeroImage

VARIABLES store, req, res

Init ==
  /\ store = [i \in PageIds |-> ZeroImage]
  /\ req = [t \in Threads |-> 0]
  /\ res = [t \in Threads |-> ZeroImage]

(* write_page_to_file(page): the page is stored under its own id. *)
Write(p) ==
  /\ store' = [store EXCEPT ![p.pid] = p]
  /\ UNCHANGED <<req, res>>

(* read_page_from_file(pid) is called ... *)
ReadCall(t, i) ==
  /\ req' = [req EXCEPT ![t] = i]
  /\ UNCHANGED <<store, res>>

(* ... and returns the page stored under pid. *)
ReadReturn(t) ==
  /\ res' = [res EXCEPT ![t] = store[req[t]]]
  /\ UNCHANGED <<store, req>>

Next ==
  \/ \E p \in Images : Write(p)
  \/ \E t \in Threads, i \in PageIds : ReadCall(t, i)
  \/ \E t \in Threads : ReadReturn(t)

Spec == Init /\ [][Next]_<<store, req, res>>

=============================================================================
