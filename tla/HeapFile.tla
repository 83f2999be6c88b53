------------------------------ MODULE HeapFile ------------------------------
(***************************************************************************)
(* A heap file of the heap store (heapstore/src/heapfile.rs) shared by     *)
(* handler threads through an Arc<HeapFile>, with the HeapFileIterator of  *)
(* heapfileiter.rs.                                                        *)
(*                                                                         *)
(*   file   -- the bytes of the file, one page image per PAGE_SIZE block   *)
(*   cursor -- the offset of the one File (in pages): every thread seeks   *)
(*             and reads or writes through the same OS file cursor, since  *)
(*             all of them go through &File under a read guard             *)
(*   pc, retpc, rq, res, wp -- per thread: the step of its call, where a   *)
(*             read returns to, the page id it reads, the page the read    *)
(*             returned, the page it writes                                *)
(*   it     -- per thread, its HeapFileIterator, with the history fields   *)
(*             start, touched and seen that the property IterYieldsAll     *)
(*             reads                                                       *)
(*                                                                         *)
(* A page image is its header's page id and its records, abstracted to one *)
(* body (a model value) or NoBody for a page with no records.  All seeks   *)
(* are to multiples of PAGE_SIZE and every read and write moves a whole    *)
(* page, so the file length and the cursor stay page-aligned.  The RwLock  *)
(* around the File is only ever read-locked, so taking it never blocks and *)
(* is not a step.                                                          *)
(***************************************************************************)
EXTENDS Naturals, Sequences

CONSTANTS
  Threads,    \* threads holding the Arc<HeapFile>
  MAX_PAGES,  \* callers write pages with ids 0..MAX_PAGES-1
  Bodies,     \* the record contents a page can hold, as model values
  NoBody      \* a page with no records

ASSUME HeapFileAssumption ==
  /\ MAX_PAGES \in Nat \ {0}
  /\ NoBody \notin Bodies

PageIds == 0..(MAX_PAGES - 1)
(* read_page_from_file is also called one and two pages past the end by   *)
(* the iterator.                                                           *)
ReadIds == 0..(MAX_PAGES + 1)
Images == [pid : ReadIds, body : Bodies \cup {NoBody}]
(* The pages callers hand to write_page_to_file. *)
PageImages == [pid : PageIds, body : Bodies \cup {NoBody}]
(* Page::from_bytes of PAGE_SIZE zero bytes: page id 0, no slots. *)
ZeroImage == [pid |-> 0, body |-> NoBody]

IterState == [on : BOOLEAN, pid : 0..(MAX_PAGES + 2), pend : Bodies \cup {NoBody},
              cnt : 0..(MAX_PAGES + 2), ended : BOOLEAN,
              start : SUBSET ReadIds, touched : SUBSET ReadIds, seen : SUBSET ReadIds]

VARIABLES file, cursor, pc, retpc, rq, res, wp, it

vars == <<file, cursor, pc, retpc, rq, res, wp, it>>

(* The page at page offset i, or the zero buffer read_exact leaves for a   *)
(* read at or past the end of the file.                                    *)
FileAt(i) == IF i < Len(file) THEN file[i + 1] ELSE ZeroImage

(* num_pages: the file length over PAGE_SIZE. *)
NumPages == Len(file)

(* A write at page offset i: a write past the end leaves a hole that reads *)
(* as zeros.                                                               *)
WriteAt(i, p) ==
  [k \in 1..(IF i < Len(file) THEN Len(file) ELSE i + 1) |->
     IF k = i + 1 THEN p ELSE FileAt(k - 1)]

-----------------------------------------------------------------------------
(* HeapFile::new on a fresh path: an empty file; no iterators yet. *)
Init ==
  /\ file = <<>>
  /\ cursor = 0
  /\ pc = [t \in Threads |-> "idle"]
  /\ retpc = [t \in Threads |-> "idle"]
  /\ rq = [t \in Threads |-> 0]
  /\ res = [t \in Threads |-> ZeroImage]
  /\ wp = [t \in Threads |-> ZeroImage]
  /\ it = [t \in Threads |-> [on |-> FALSE, pid |-> 0, pend |-> NoBody, cnt |-> 0,
                               ended |-> FALSE, start |-> {}, touched |-> {},
                               seen |-> {}]]

(* write_page_to_file(page): file.seek(page_id * PAGE_SIZE). *)
WriteSeek(t, p) ==
  /\ pc[t] = "idle"
  /\ cursor' = p.pid
  /\ wp' = [wp EXCEPT ![t] = p]
  /\ pc' = [pc EXCEPT ![t] = "w_flush"]
  /\ UNCHANGED <<file, retpc, rq, res, it>>

(* ... then the page's get_bytes go through a BufWriter, and flush() puts  *)
(* them at the cursor -- wherever the cursor is by then -- and moves it    *)
(* one page on.                                                            *)
WriteFlush(t) ==
  /\ pc[t] = "w_flush"
  /\ file' = WriteAt(cursor, wp[t])
  /\ cursor' = cursor + 1
  /\ it' = [u \in Threads |-> [it[u] EXCEPT !.touched = @ \cup {cursor}]]
  /\ pc' = [pc EXCEPT ![t] = "idle"]
  /\ UNCHANGED <<retpc, rq, res, wp>>

(* Mutant of ReadSeek: the offset of page pid + 1. *)
ReadSeekOffByOne(t, i, ret) ==
  /\ cursor' = i + 1
  /\ rq' = [rq EXCEPT ![t] = i]
  /\ retpc' = [retpc EXCEPT ![t] = ret]
  /\ pc' = [pc EXCEPT ![t] = "r_exact"]

(* read_page_from_file(pid): file.seek(PAGE_SIZE * pid); the caller        *)
(* continues at ret when the read returns.                                 *)
ReadSeek(t, i, ret) ==
  /\ cursor' = i
  /\ rq' = [rq EXCEPT ![t] = i]
  /\ retpc' = [retpc EXCEPT ![t] = ret]
  /\ pc' = [pc EXCEPT ![t] = "r_exact"]

(* Mutant of ReadExact: the cursor moves a page on even when read_exact    *)
(* reads nothing.                                                          *)
ReadExactAlwaysAdvances(t) ==
  /\ pc[t] = "r_exact"
  /\ res' = [res EXCEPT ![t] = FileAt(cursor)]
  /\ cursor' = cursor + 1
  /\ pc' = [pc EXCEPT ![t] = retpc[t]]
  /\ UNCHANGED <<file, retpc, rq, wp, it>>

(* ... read_exact into a zeroed buffer, its error ignored: a whole page at *)
(* the cursor, which moves one page on, or (at the end of the file) no     *)
(* bytes and the cursor stays; then Page::from_bytes.                      *)
ReadExact(t) ==
  /\ pc[t] = "r_exact"
  /\ res' = [res EXCEPT ![t] = FileAt(cursor)]
  /\ cursor' = IF cursor < Len(file) THEN cursor + 1 ELSE cursor
  /\ pc' = [pc EXCEPT ![t] = retpc[t]]
  /\ UNCHANGED <<file, retpc, rq, wp, it>>

(* A caller such as StorageManager::get_page reads page i. *)
ReadPage(t, i) ==
  /\ pc[t] = "idle"
  /\ ReadSeek(t, i, "idle")
  /\ UNCHANGED <<file, res, wp, it>>

(* HeapFileIterator::new reads page 0 ... *)
IterNew(t) ==
  /\ pc[t] = "idle"
  /\ ReadSeek(t, 0, "it_new")
  /\ it' = [it EXCEPT ![t] = [on |-> TRUE, pid |-> 0, pend |-> NoBody, cnt |-> 0,
              ended |-> FALSE, touched |-> {}, seen |-> {},
              start |-> {i \in ReadIds : FileAt(i).body # NoBody}]]
  /\ UNCHANGED <<file, res, wp>>

(* Mutant of IterNewDone: the iterator of page 0 is dropped. *)
IterNewSkipsFirst(t) ==
  /\ pc[t] = "it_new"
  /\ pc' = [pc EXCEPT ![t] = "idle"]
  /\ UNCHANGED <<file, cursor, retpc, rq, res, wp, it>>

(* ... and starts at curr_pid 0 with page 0's PageIter. *)
IterNewDone(t) ==
  /\ pc[t] = "it_new"
  /\ it' = [it EXCEPT ![t].pend = res[t].body]
  /\ pc' = [pc EXCEPT ![t] = "idle"]
  /\ UNCHANGED <<file, cursor, retpc, rq, res, wp>>

(* next(): pageCnt = num_pages(), the file length in whole pages. *)
IterNextCall(t) ==
  /\ pc[t] = "idle"
  /\ it[t].on
  /\ it' = [it EXCEPT ![t].cnt = NumPages]
  /\ pc' = [pc EXCEPT ![t] = "it_loop"]
  /\ UNCHANGED <<file, cursor, retpc, rq, res, wp>>

(* while curr_pid <= pageCnt: the current PageIter yields a value ... *)
IterYield(t) ==
  /\ pc[t] = "it_loop"
  /\ it[t].pid <= it[t].cnt
  /\ it[t].pend # NoBody
  /\ it' = [it EXCEPT ![t].pend = NoBody, ![t].seen = @ \cup {it[t].pid}]
  /\ pc' = [pc EXCEPT ![t] = "idle"]
  /\ UNCHANGED <<file, cursor, retpc, rq, res, wp>>

(* Mutant of IterAdvance: curr_pid += 1 is missing, so the same page is   *)
(* read again.                                                             *)
IterAdvanceNoIncrement(t) ==
  /\ pc[t] = "it_loop"
  /\ it[t].pid <= it[t].cnt
  /\ it[t].pend = NoBody
  /\ ReadSeek(t, it[t].pid, "it_got")
  /\ UNCHANGED <<file, res, wp, it>>

(* ... or is exhausted: curr_pid += 1 and the next page is read ... *)
IterAdvance(t) ==
  /\ pc[t] = "it_loop"
  /\ it[t].pid <= it[t].cnt
  /\ it[t].pend = NoBody
  /\ it' = [it EXCEPT ![t].pid = @ + 1]
  /\ ReadSeek(t, it[t].pid + 1, "it_got")
  /\ UNCHANGED <<file, res, wp>>

(* ... and becomes the current PageIter. *)
IterGot(t) ==
  /\ pc[t] = "it_got"
  /\ it' = [it EXCEPT ![t].pend = res[t].body]
  /\ pc' = [pc EXCEPT ![t] = "it_loop"]
  /\ UNCHANGED <<file, cursor, retpc, rq, res, wp>>

(* curr_pid > pageCnt: next() returns None. *)
IterEnd(t) ==
  /\ pc[t] = "it_loop"
  /\ it[t].pid > it[t].cnt
  /\ it' = [it EXCEPT ![t].ended = TRUE]
  /\ pc' = [pc EXCEPT ![t] = "idle"]
  /\ UNCHANGED <<file, cursor, retpc, rq, res, wp>>

Next ==
  \E t \in Threads :
    \/ \E p \in PageImages : WriteSeek(t, p)
    \/ WriteFlush(t)
    \/ \E i \in PageIds : ReadPage(t, i)
    \/ ReadExact(t)
    \/ IterNew(t) \/ IterNewDone(t)
    \/ IterNextCall(t) \/ IterYield(t) \/ IterAdvance(t) \/ IterGot(t) \/ IterEnd(t)

Spec == Init /\ [][Next]_vars

(* The steps a thread takes inside a call it has begun.  None of them      *)
(* waits: the RwLock around the File is only read-locked, and file I/O     *)
(* returns.  Starting a call is the caller's choice and is not fair.       *)
Step(t) ==
  \/ WriteFlush(t) \/ ReadExact(t) \/ IterNewDone(t)
  \/ IterYield(t) \/ IterAdvance(t) \/ IterGot(t) \/ IterEnd(t)

(* Every thread runs on: a call it has begun is not left half done.        *)
FairSpec == Spec /\ \A t \in Threads : WF_vars(Step(t))

-----------------------------------------------------------------------------
(* Properties.                                                             *)

(* Type invariant; the file never grows past the pages callers write. *)
TypeOK ==
  /\ file \in Seq(Images) /\ Len(file) <= MAX_PAGES
  /\ cursor \in 0..(MAX_PAGES + 1)
  /\ rq \in [Threads -> ReadIds] /\ res \in [Threads -> Images]
  /\ wp \in [Threads -> PageImages]
  /\ it \in [Threads -> IterState]

(* An iterator that has returned None has yielded every page that held     *)
(* records when it was made and has not been rewritten since               *)
(* (HeapFileIterator::new and next, with num_pages re-read on every call   *)
(* and the reads past the end).                                            *)
IterYieldsAll ==
  \A t \in Threads : it[t].ended => it[t].start \ it[t].touched \subseteq it[t].seen

(* Every call of HeapFileIterator::next returns: the loop                 *)
(* while curr_pid <= pageCnt ends, since pageCnt is read once per call and *)
(* every exhausted page moves curr_pid on, however the file changes.       *)
NextReturns ==
  \A t \in Threads : pc[t] = "it_loop" ~> pc[t] = "idle"

(* The heap file implements PageStore: every read returns the page last    *)
(* written under the page id it asks for (write_page_to_file and           *)
(* read_page_from_file through the shared cursor).                         *)
Abs == INSTANCE PageStore WITH PageIds <- ReadIds, Images <- Images,
         store <- [i \in ReadIds |-> FileAt(i)], req <- rq
PageStoreSpec == Abs!Spec

=============================================================================
