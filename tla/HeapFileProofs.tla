--------------------------- MODULE HeapFileProofs ---------------------------
(***************************************************************************)
(* Proofs about HeapFile for any number of pages and record bodies, when   *)
(* one thread uses the file: its type invariant, and that it implements    *)
(* PageStore.  (With two threads both fail; see the run on the shared      *)
(* cursor.)                                                                *)
(***************************************************************************)
EXTENDS HeapFile, SequenceTheorems, TLAPS

(* The labels a thread's pc and a read's return address take. *)
PCs == {"idle", "w_flush", "r_exact", "it_new", "it_loop", "it_got"}
RetPCs == {"idle", "it_new", "it_got"}

(* The inductive invariant for the one thread u: TypeOK, the iterator's    *)
(* bounds, and that the shared cursor is where the thread's own seek put   *)
(* it while its write or read is pending.                                  *)
IInv(u) ==
  /\ TypeOK
  /\ pc \in [Threads -> PCs]
  /\ retpc \in [Threads -> RetPCs]
  /\ it[u].cnt <= Len(file)
  /\ it[u].pid <= it[u].cnt + 1
  /\ pc[u] = "w_flush" => cursor = wp[u].pid
  /\ pc[u] = "r_exact" => cursor = rq[u]

(* The thread u is loading a page into its iterator: HeapFileIterator::new *)
(* or next() has called read_page_from_file and not yet made the PageIter. *)
Loading(u) ==
  \/ pc[u] \in {"it_new", "it_got"}
  \/ pc[u] = "r_exact" /\ retpc[u] \in {"it_new", "it_got"}

(* The thread u is inside a next() call, past its num_pages. *)
InNext(u) ==
  \/ pc[u] \in {"it_loop", "it_got"}
  \/ pc[u] = "r_exact" /\ retpc[u] = "it_got"

(* The pages the iterator of u must yield: held records at its creation   *)
(* and not rewritten since.                                                *)
Due(u) == it[u].start \ it[u].touched

(* The strengthening of IterYieldsAll for the one thread u, in parts.      *)
(* A page the iterator must yield still holds records: *)
DueHasRecords(u) == \A i \in Due(u) : FileAt(i).body # NoBody
(* every such page below curr_pid was yielded: *)
DueBelowSeen(u) == \A i \in Due(u) : i < it[u].pid => i \in it[u].seen
(* the current one was yielded, or its PageIter still holds its record: *)
CurrentPending(u) ==
  ~Loading(u) /\ it[u].pid \in Due(u) /\ it[u].pid \notin it[u].seen
    => it[u].pend # NoBody
(* a page being loaded is page curr_pid: *)
LoadingCurrent(u) ==
  /\ Loading(u) /\ pc[u] = "r_exact" => rq[u] = it[u].pid
  /\ pc[u] \in {"it_new", "it_got"} => res[u] = FileAt(it[u].pid)
(* and inside next() pageCnt is the file length, since the one thread     *)
(* writes nothing meanwhile.                                               *)
CntIsLen(u) == InNext(u) => it[u].cnt = Len(file)
(* An ended iterator has yielded what it must (IterYieldsAll for u): *)
EndedSeen(u) == it[u].ended => Due(u) \subseteq it[u].seen

IterInv(u) ==
  /\ EndedSeen(u) /\ DueHasRecords(u) /\ DueBelowSeen(u)
  /\ CurrentPending(u) /\ LoadingCurrent(u) /\ CntIsLen(u)

-----------------------------------------------------------------------------
(* What a write at page offset i leaves in the file. *)
LEMMA WriteAtProps ==
  ASSUME file \in Seq(Images), NEW i \in Nat, NEW p \in Images
  PROVE  LET f == WriteAt(i, p) IN
         /\ f \in Seq(Images)
         /\ Len(f) = IF i < Len(file) THEN Len(file) ELSE i + 1
         /\ \A k \in Nat : (IF k < Len(f) THEN f[k + 1] ELSE ZeroImage)
                           = IF k = i THEN p ELSE FileAt(k)
<1> DEFINE n == IF i < Len(file) THEN Len(file) ELSE i + 1
<1>1. Len(file) \in Nat /\ DOMAIN file = 1..Len(file)
  BY LenProperties
<1>2. ZeroImage \in Images
  BY HeapFileAssumption DEF ZeroImage, Images, ReadIds
<1>3. \A k \in 1..Len(file) : file[k] \in Images
  BY ElementOfSeq
<1>4. WriteAt(i, p) \in [1..n -> Images]
  BY <1>1, <1>2, <1>3 DEF WriteAt, FileAt
<1>5. n \in Nat
  BY <1>1
<1>6. WriteAt(i, p) \in Seq(Images)
  BY <1>4, <1>5, SeqDef
<1>7. Len(WriteAt(i, p)) = n
  BY <1>4, <1>5, <1>6, LenProperties
<1>8. \A k \in Nat : (IF k < n THEN WriteAt(i, p)[k + 1] ELSE ZeroImage)
                     = IF k = i THEN p ELSE FileAt(k)
  BY <1>1 DEF WriteAt, FileAt
<1> QED
  BY <1>6, <1>7, <1>8

(* Some facts about the constants the steps below use. *)
LEMMA ConstFacts ==
  /\ MAX_PAGES \in Nat \ {0}
  /\ ZeroImage \in Images
  /\ PageImages \subseteq Images
  /\ PageIds \subseteq ReadIds
  BY HeapFileAssumption DEF ZeroImage, Images, PageImages, PageIds, ReadIds

LEMMA InitIInv ==
  ASSUME NEW u \in Threads, Init PROVE IInv(u)
<1>1. ZeroImage \in PageImages
  BY HeapFileAssumption DEF ZeroImage, PageImages, PageIds
<1>2. <<>> \in Seq(Images) /\ Len(<<>>) = 0
  BY EmptySeq
<1> QED
  BY <1>1, <1>2, ConstFacts DEF Init, IInv, TypeOK, IterState, PCs, RetPCs, ReadIds

(* A page read from the file is a page image. *)
LEMMA FileAtType ==
  ASSUME file \in Seq(Images), NEW i \in Nat PROVE FileAt(i) \in Images
BY ConstFacts, ElementOfSeq, LenProperties DEF FileAt

-----------------------------------------------------------------------------
(* The updates the actions make to one iterator keep it an IterState and  *)
(* leave the bounds fields they do not name alone.                        *)
LEMMA IterTouch ==
  ASSUME NEW r \in IterState, NEW x \in ReadIds
  PROVE  LET q == [r EXCEPT !.touched = @ \cup {x}]
         IN  /\ q \in IterState /\ q.cnt = r.cnt /\ q.pid = r.pid
             /\ q.start = r.start /\ q.touched = r.touched \cup {x}
             /\ q.seen = r.seen /\ q.ended = r.ended /\ q.pend = r.pend
BY Zenon DEF IterState

LEMMA IterSetPend ==
  ASSUME NEW r \in IterState, NEW b \in Bodies \cup {NoBody}
  PROVE  LET q == [r EXCEPT !.pend = b]
         IN  /\ q \in IterState /\ q.cnt = r.cnt /\ q.pid = r.pid
             /\ q.start = r.start /\ q.touched = r.touched
             /\ q.seen = r.seen /\ q.ended = r.ended /\ q.pend = b
BY Zenon DEF IterState

LEMMA IterSetCnt ==
  ASSUME NEW r \in IterState, NEW n \in 0..(MAX_PAGES + 2)
  PROVE  LET q == [r EXCEPT !.cnt = n]
         IN  /\ q \in IterState /\ q.cnt = n /\ q.pid = r.pid
             /\ q.start = r.start /\ q.touched = r.touched
             /\ q.seen = r.seen /\ q.ended = r.ended /\ q.pend = r.pend
BY Zenon DEF IterState

LEMMA IterSee ==
  ASSUME NEW r \in IterState, r.pid \in ReadIds
  PROVE  LET q == [r EXCEPT !.pend = NoBody, !.seen = @ \cup {r.pid}]
         IN  /\ q \in IterState /\ q.cnt = r.cnt /\ q.pid = r.pid
             /\ q.start = r.start /\ q.touched = r.touched
             /\ q.seen = r.seen \cup {r.pid} /\ q.ended = r.ended /\ q.pend = NoBody
<1>1. r.seen \cup {r.pid} \in SUBSET ReadIds
  BY DEF IterState
<1> QED
  BY <1>1, Zenon DEF IterState

LEMMA IterIncPid ==
  ASSUME NEW r \in IterState, r.pid + 1 \in 0..(MAX_PAGES + 2)
  PROVE  LET q == [r EXCEPT !.pid = @ + 1]
         IN  /\ q \in IterState /\ q.cnt = r.cnt /\ q.pid = r.pid + 1
             /\ q.start = r.start /\ q.touched = r.touched
             /\ q.seen = r.seen /\ q.ended = r.ended /\ q.pend = r.pend
BY Zenon DEF IterState

LEMMA IterSetEnded ==
  ASSUME NEW r \in IterState
  PROVE  LET q == [r EXCEPT !.ended = TRUE]
         IN  /\ q \in IterState /\ q.cnt = r.cnt /\ q.pid = r.pid
             /\ q.start = r.start /\ q.touched = r.touched
             /\ q.seen = r.seen /\ q.ended = TRUE /\ q.pend = r.pend
BY Zenon DEF IterState

-----------------------------------------------------------------------------
(* Every step of the one thread u keeps IInv(u): one step per action.      *)
LEMMA NextIInv ==
  ASSUME NEW u, Threads = {u}, IInv(u), [Next]_vars
  PROVE  IInv(u)'
<1> USE ConstFacts
<1>0. /\ file \in Seq(Images) /\ Len(file) \in Nat /\ Len(file) <= MAX_PAGES
      /\ it[u] \in IterState
  BY LenProperties DEF IInv, TypeOK
<1>1. ASSUME NEW p \in PageImages, WriteSeek(u, p) PROVE IInv(u)'
  BY <1>1 DEF WriteSeek, IInv, TypeOK, PCs, PageImages, PageIds, ReadIds
<1>2. ASSUME WriteFlush(u) PROVE IInv(u)'
  <2>1. cursor \in PageIds /\ wp[u] \in Images
    BY <1>2 DEF WriteFlush, IInv, TypeOK, PageImages
  <2>2. /\ file' \in Seq(Images)
        /\ Len(file') = IF cursor < Len(file) THEN Len(file) ELSE cursor + 1
    BY <1>0, <1>2, <2>1, WriteAtProps DEF WriteFlush, PageIds
  <2>3. Len(file') <= MAX_PAGES /\ Len(file) <= Len(file')
    BY <1>0, <2>1, <2>2 DEF PageIds
  <2>4. /\ it' \in [Threads -> IterState]
        /\ it'[u].cnt = it[u].cnt /\ it'[u].pid = it[u].pid
    <3>1. it' = [v \in Threads |-> [it[v] EXCEPT !.touched = @ \cup {cursor}]]
      BY <1>2, Zenon DEF WriteFlush
    <3>2. cursor \in ReadIds
      BY <2>1 DEF PageIds, ReadIds
    <3>3. it \in [Threads -> IterState]
      BY DEF IInv, TypeOK
    <3> QED
      BY <1>0, <3>1, <3>2, <3>3, IterTouch, Zenon
  <2>5. cursor' = cursor + 1 /\ pc' = [pc EXCEPT ![u] = "idle"]
        /\ UNCHANGED <<retpc, rq, res, wp>>
    BY <1>2, Zenon DEF WriteFlush
  <2>6. TypeOK'
    BY <2>1, <2>2, <2>3, <2>4, <2>5 DEF IInv, TypeOK, PageIds
  <2>7. it'[u].cnt <= Len(file') /\ it'[u].pid <= it'[u].cnt + 1
    BY <1>0, <2>3, <2>4 DEF IInv, IterState
  <2>8. pc' \in [Threads -> PCs] /\ pc'[u] = "idle"
    BY <2>5 DEF IInv, PCs
  <2> QED
    BY <2>5, <2>6, <2>7, <2>8 DEF IInv
<1>3. ASSUME NEW i \in PageIds, ReadPage(u, i) PROVE IInv(u)'
  BY <1>3 DEF ReadPage, ReadSeek, IInv, TypeOK, PCs, RetPCs, PageIds, ReadIds
<1>4. ASSUME ReadExact(u) PROVE IInv(u)'
  <2>1. cursor \in Nat
    BY DEF IInv, TypeOK
  <2>2. FileAt(cursor) \in Images
    BY <1>0, <2>1, FileAtType
  <2>3. cursor' \in 0..(MAX_PAGES + 1)
    BY <1>0, <1>4, <2>1 DEF ReadExact, IInv, TypeOK
  <2>4. retpc[u] \in RetPCs
    BY DEF IInv
  <2> QED
    BY <1>4, <2>2, <2>3, <2>4 DEF ReadExact, IInv, TypeOK, PCs, RetPCs
<1>5. ASSUME IterNew(u) PROVE IInv(u)'
  BY <1>0, <1>5 DEF IterNew, ReadSeek, IInv, TypeOK, IterState, PCs, RetPCs, ReadIds
<1>6. ASSUME IterNewDone(u) PROVE IInv(u)'
  <2>1. /\ it' \in [Threads -> IterState]
        /\ it'[u].cnt = it[u].cnt /\ it'[u].pid = it[u].pid
    <3>1. it' = [it EXCEPT ![u] = [it[u] EXCEPT !.pend = res[u].body]]
      BY <1>6, Zenon DEF IterNewDone
    <3>2. it \in [Threads -> IterState]
      BY DEF IInv, TypeOK
    <3>3. res[u].body \in Bodies \cup {NoBody}
      BY DEF IInv, TypeOK, Images
    <3> QED
      BY <1>0, <3>1, <3>2, <3>3, IterSetPend, Zenon
  <2>2. pc' = [pc EXCEPT ![u] = "idle"] /\ UNCHANGED <<file, cursor, retpc, rq, res, wp>>
    BY <1>6, Zenon DEF IterNewDone
  <2> QED
    BY <1>0, <2>1, <2>2 DEF IInv, TypeOK, PCs
<1>7. ASSUME IterNextCall(u) PROVE IInv(u)'
  <2>1. /\ it' \in [Threads -> IterState]
        /\ it'[u].cnt = Len(file) /\ it'[u].pid = it[u].pid
    <3>1. it' = [it EXCEPT ![u] = [it[u] EXCEPT !.cnt = Len(file)]]
      BY <1>7, Zenon DEF IterNextCall, NumPages
    <3>2. it \in [Threads -> IterState]
      BY DEF IInv, TypeOK
    <3>3. Len(file) \in 0..(MAX_PAGES + 2)
      BY <1>0
    <3> QED
      BY <1>0, <3>1, <3>2, <3>3, IterSetCnt, Zenon
  <2>2. pc' = [pc EXCEPT ![u] = "it_loop"] /\ UNCHANGED <<file, cursor, retpc, rq, res, wp>>
    BY <1>7, Zenon DEF IterNextCall
  <2> QED
    BY <1>0, <2>1, <2>2 DEF IInv, TypeOK, PCs, IterState
<1>8. ASSUME IterYield(u) PROVE IInv(u)'
  <2>1. /\ it' \in [Threads -> IterState]
        /\ it'[u].cnt = it[u].cnt /\ it'[u].pid = it[u].pid
    <3>1. it' = [it EXCEPT ![u] = [it[u] EXCEPT !.pend = NoBody, !.seen = @ \cup {it[u].pid}]]
      BY <1>8, Zenon DEF IterYield
    <3>2. it \in [Threads -> IterState]
      BY DEF IInv, TypeOK
    <3>3. it[u].pid \in ReadIds
      BY <1>0, <1>8 DEF IterYield, IInv, IterState, ReadIds
    <3> QED
      BY <1>0, <3>1, <3>2, <3>3, IterSee, Zenon
  <2>2. pc' = [pc EXCEPT ![u] = "idle"] /\ UNCHANGED <<file, cursor, retpc, rq, res, wp>>
    BY <1>8, Zenon DEF IterYield
  <2> QED
    BY <1>0, <2>1, <2>2 DEF IInv, TypeOK, PCs
<1>9. ASSUME IterAdvance(u) PROVE IInv(u)'
  <2>0. it[u].pid <= it[u].cnt /\ it[u].pid + 1 \in ReadIds
    BY <1>0, <1>9 DEF IterAdvance, IInv, IterState, ReadIds
  <2>1. /\ it' \in [Threads -> IterState]
        /\ it'[u].cnt = it[u].cnt /\ it'[u].pid = it[u].pid + 1
    <3>1. it' = [it EXCEPT ![u] = [it[u] EXCEPT !.pid = @ + 1]]
      BY <1>9, Zenon DEF IterAdvance
    <3>2. it \in [Threads -> IterState]
      BY DEF IInv, TypeOK
    <3>3. it[u].pid + 1 \in 0..(MAX_PAGES + 2)
      BY <2>0 DEF ReadIds
    <3> QED
      BY <1>0, <3>1, <3>2, <3>3, IterIncPid, Zenon
  <2>2. /\ cursor' = it[u].pid + 1 /\ rq' = [rq EXCEPT ![u] = it[u].pid + 1]
        /\ retpc' = [retpc EXCEPT ![u] = "it_got"] /\ pc' = [pc EXCEPT ![u] = "r_exact"]
        /\ UNCHANGED <<file, res, wp>>
    BY <1>9, Zenon DEF IterAdvance, ReadSeek
  <2>3. TypeOK'
    BY <2>0, <2>1, <2>2 DEF IInv, TypeOK, ReadIds
  <2>4. it'[u].cnt <= Len(file') /\ it'[u].pid <= it'[u].cnt + 1
    BY <1>0, <2>0, <2>1, <2>2 DEF IInv, IterState
  <2>5. pc' \in [Threads -> PCs] /\ retpc' \in [Threads -> RetPCs]
        /\ pc'[u] = "r_exact" /\ cursor' = rq'[u]
    BY <2>2 DEF IInv, PCs, RetPCs, TypeOK
  <2> QED
    BY <2>3, <2>4, <2>5 DEF IInv
<1>10. ASSUME IterGot(u) PROVE IInv(u)'
  <2>1. /\ it' \in [Threads -> IterState]
        /\ it'[u].cnt = it[u].cnt /\ it'[u].pid = it[u].pid
    <3>1. it' = [it EXCEPT ![u] = [it[u] EXCEPT !.pend = res[u].body]]
      BY <1>10, Zenon DEF IterGot
    <3>2. it \in [Threads -> IterState]
      BY DEF IInv, TypeOK
    <3>3. res[u].body \in Bodies \cup {NoBody}
      BY DEF IInv, TypeOK, Images
    <3> QED
      BY <1>0, <3>1, <3>2, <3>3, IterSetPend, Zenon
  <2>2. pc' = [pc EXCEPT ![u] = "it_loop"] /\ UNCHANGED <<file, cursor, retpc, rq, res, wp>>
    BY <1>10, Zenon DEF IterGot
  <2> QED
    BY <1>0, <2>1, <2>2 DEF IInv, TypeOK, PCs
<1>11. ASSUME IterEnd(u) PROVE IInv(u)'
  <2>1. /\ it' \in [Threads -> IterState]
        /\ it'[u].cnt = it[u].cnt /\ it'[u].pid = it[u].pid
    <3>1. it' = [it EXCEPT ![u] = [it[u] EXCEPT !.ended = TRUE]]
      BY <1>11, Zenon DEF IterEnd
    <3>2. it \in [Threads -> IterState]
      BY DEF IInv, TypeOK
    <3> QED
      BY <1>0, <3>1, <3>2, IterSetEnded, Zenon
  <2>2. pc' = [pc EXCEPT ![u] = "idle"] /\ UNCHANGED <<file, cursor, retpc, rq, res, wp>>
    BY <1>11, Zenon DEF IterEnd
  <2> QED
    BY <1>0, <2>1, <2>2 DEF IInv, TypeOK, PCs
<1>12. CASE UNCHANGED vars
  BY <1>12 DEF vars, IInv, TypeOK
<1> QED
  BY <1>1, <1>2, <1>3, <1>4, <1>5, <1>6, <1>7, <1>8, <1>9, <1>10, <1>11, <1>12
  DEF Next

-----------------------------------------------------------------------------
(* Type correctness of the heap file used by one thread: the file never    *)
(* grows past MAX_PAGES pages and no read or iterator step leaves the page *)
(* ids that write_page_to_file and read_page_from_file handle.             *)
THEOREM HeapFileTypeCorrect ==
  ASSUME NEW u, Threads = {u}
  PROVE  Spec => []TypeOK
<1>1. Init => IInv(u)
  BY InitIInv
<1>2. IInv(u) /\ [Next]_vars => IInv(u)'
  BY NextIInv
<1>3. IInv(u) => TypeOK
  BY DEF IInv
<1> QED
  BY <1>1, <1>2, <1>3, PTL DEF Spec

(* Under the refinement mapping store <- the page at each offset, a step   *)
(* of the one thread that does not touch file, rq or res is a stutter of   *)
(* PageStore.                                                              *)
LEMMA StoreStutter ==
  ASSUME UNCHANGED <<file, rq, res>>
  PROVE  UNCHANGED <<[i \in ReadIds |-> FileAt(i)], rq, res>>
BY DEF FileAt

(* The first step of the refinement: the empty file maps to the store of   *)
(* zero pages that PageStore starts with.                                  *)
LEMMA InitRefines ==
  Init => Abs!Init
<1> SUFFICES ASSUME Init PROVE Abs!Init
  OBVIOUS
<1>1. [i \in ReadIds |-> FileAt(i)] = [i \in ReadIds |-> ZeroImage]
  BY EmptySeq DEF Init, FileAt, ReadIds
<1> QED
  BY <1>1 DEF Init, Abs!Init

(* The step of the refinement: with one thread, every step of the heap    *)
(* file is a PageStore step under the mapping, or a stutter of it.        *)
LEMMA NextRefines ==
  ASSUME NEW u, Threads = {u}, IInv(u), [Next]_vars
  PROVE  [Abs!Next]_<<[i \in ReadIds |-> FileAt(i)], rq, res>>
<1> DEFINE st == [i \in ReadIds |-> FileAt(i)]
<1> USE ConstFacts
<1>0. file \in Seq(Images) /\ Len(file) \in Nat /\ it[u] \in IterState
  BY LenProperties DEF IInv, TypeOK
(* A read call of page i, as ReadPage, IterNew and IterAdvance make it. *)
<1>1. ASSUME NEW i \in ReadIds, rq' = [rq EXCEPT ![u] = i], UNCHANGED <<file, res>>
      PROVE  Abs!Next
  <2>1. st' = st
    BY <1>1 DEF FileAt
  <2> QED
    BY <1>1, <2>1 DEF Abs!Next, Abs!ReadCall
<1>2. ASSUME NEW p \in PageImages, WriteSeek(u, p) PROVE UNCHANGED <<st, rq, res>>
  BY <1>2, StoreStutter DEF WriteSeek
<1>3. ASSUME WriteFlush(u) PROVE Abs!Next
  <2>1. cursor = wp[u].pid /\ cursor \in PageIds /\ wp[u] \in Images
    BY <1>3 DEF WriteFlush, IInv, TypeOK, PageImages
  <2>2. file' = WriteAt(cursor, wp[u]) /\ UNCHANGED <<rq, res>>
    BY <1>3, Zenon DEF WriteFlush
  <2>3. \A k \in Nat : (IF k < Len(file') THEN file'[k + 1] ELSE ZeroImage)
                       = IF k = cursor THEN wp[u] ELSE FileAt(k)
    <3>1. cursor \in Nat
      BY <2>1 DEF PageIds
    <3>2. \A k \in Nat : (IF k < Len(WriteAt(cursor, wp[u]))
                           THEN WriteAt(cursor, wp[u])[k + 1] ELSE ZeroImage)
                         = IF k = cursor THEN wp[u] ELSE FileAt(k)
      BY <1>0, <2>1, <3>1, WriteAtProps
    <3> QED
      BY <2>2, <3>2
  <2>4. st' = [st EXCEPT ![wp[u].pid] = wp[u]]
    <3>1. wp[u].pid \in ReadIds /\ ReadIds \subseteq Nat
      BY <2>1 DEF PageIds, ReadIds
    <3>2. \A k \in ReadIds : st'[k] = IF k = wp[u].pid THEN wp[u] ELSE st[k]
      BY <2>1, <2>3, <3>1 DEF FileAt
    <3> QED
      BY <3>1, <3>2
  <2> QED
    BY <2>1, <2>2, <2>4 DEF Abs!Next, Abs!Write
<1>4. ASSUME NEW i \in PageIds, ReadPage(u, i) PROVE Abs!Next
  BY <1>4, <1>1, Zenon DEF ReadPage, ReadSeek, PageIds, ReadIds
<1>5. ASSUME ReadExact(u) PROVE Abs!Next
  <2>1. cursor = rq[u] /\ rq[u] \in ReadIds
    BY <1>5 DEF ReadExact, IInv, TypeOK
  <2>2. res' = [res EXCEPT ![u] = FileAt(cursor)] /\ UNCHANGED <<file, rq>>
    BY <1>5 DEF ReadExact
  <2>3. st' = st /\ st[rq[u]] = FileAt(cursor)
    BY <2>1, <2>2 DEF FileAt
  <2> QED
    BY <2>2, <2>3 DEF Abs!Next, Abs!ReadReturn
<1>6. ASSUME IterNew(u) PROVE Abs!Next
  <2>1. rq' = [rq EXCEPT ![u] = 0] /\ UNCHANGED <<file, res>>
    BY <1>6, Zenon DEF IterNew, ReadSeek
  <2>2. 0 \in ReadIds
    BY DEF ReadIds
  <2> QED
    BY <2>1, <2>2, <1>1
<1>7. ASSUME IterAdvance(u) PROVE Abs!Next
  <2>1. it[u].pid + 1 \in ReadIds
    BY <1>0, <1>7 DEF IterAdvance, IInv, IterState, ReadIds, TypeOK
  <2>2. rq' = [rq EXCEPT ![u] = it[u].pid + 1] /\ UNCHANGED <<file, res>>
    BY <1>7, Zenon DEF IterAdvance, ReadSeek
  <2> QED
    BY <2>1, <2>2, <1>1
<1>8. ASSUME \/ IterNewDone(u) \/ IterNextCall(u) \/ IterYield(u)
             \/ IterGot(u) \/ IterEnd(u)
      PROVE  UNCHANGED <<st, rq, res>>
  <2>1. UNCHANGED <<file, rq, res>>
    BY <1>8, Zenon DEF IterNewDone, IterNextCall, IterYield, IterGot, IterEnd
  <2> QED
    BY <2>1, StoreStutter
<1>9. CASE UNCHANGED vars
  BY <1>9, StoreStutter DEF vars
<1> QED
  BY <1>2, <1>3, <1>4, <1>5, <1>6, <1>7, <1>8, <1>9 DEF Next

(* HeapFile used by one thread implements PageStore: every read returns    *)
(* the page last written under the page id it asks for, the zero page for  *)
(* one never written (write_page_to_file and read_page_from_file through   *)
(* the one File cursor, and the iterator's reads).                         *)
THEOREM HeapFileRefinesPageStore ==
  ASSUME NEW u, Threads = {u}
  PROVE  Spec => PageStoreSpec
<1>1. Init => IInv(u)
  BY InitIInv
<1>2. IInv(u) /\ [Next]_vars => IInv(u)'
  BY NextIInv
<1>3. IInv(u) /\ [Next]_vars => [Abs!Next]_<<[i \in ReadIds |-> FileAt(i)], rq, res>>
  BY NextRefines
<1> QED
  BY <1>1, <1>2, <1>3, InitRefines, PTL DEF Spec, PageStoreSpec, Abs!Spec

-----------------------------------------------------------------------------
(* What the pages read after write_page_to_file's flush: the written page *)
(* at the cursor, every other page as before.                              *)
LEMMA FlushFileAt ==
  ASSUME NEW u \in Threads, IInv(u), WriteFlush(u)
  PROVE  \A k \in Nat : FileAt(k)' = IF k = cursor THEN wp[u] ELSE FileAt(k)
<1>1. file \in Seq(Images) /\ cursor \in Nat /\ wp[u] \in Images
  BY ConstFacts DEF IInv, TypeOK, PageImages, WriteFlush
<1>2. file' = WriteAt(cursor, wp[u])
  BY Zenon DEF WriteFlush
<1>3. \A k \in Nat : (IF k < Len(WriteAt(cursor, wp[u]))
                       THEN WriteAt(cursor, wp[u])[k + 1] ELSE ZeroImage)
                     = IF k = cursor THEN wp[u] ELSE FileAt(k)
  BY <1>1, WriteAtProps
<1> QED
  BY <1>2, <1>3 DEF FileAt

(* A page past the end of the file reads as the zero page, with no records. *)
LEMMA BodyInFile ==
  ASSUME NEW i \in Nat, file \in Seq(Images), FileAt(i).body # NoBody
  PROVE  i < Len(file)
BY DEF FileAt, ZeroImage

(* Every step of the one thread u keeps IterInv(u). *)
LEMMA NextIterInv ==
  ASSUME NEW u, Threads = {u}, IInv(u), IterInv(u), [Next]_vars
  PROVE  IterInv(u)'
<1> USE ConstFacts
<1>0. /\ it[u] \in IterState /\ file \in Seq(Images) /\ Len(file) \in Nat
      /\ it \in [Threads -> IterState] /\ cursor \in Nat /\ u \in Threads
      /\ pc \in [Threads -> PCs] /\ retpc \in [Threads -> RetPCs]
      /\ rq \in [Threads -> ReadIds] /\ res \in [Threads -> Images]
  BY LenProperties DEF IInv, TypeOK
<1>00. it[u] \in IterState /\ u \in DOMAIN it
  BY DEF IInv, TypeOK
<1>1. ASSUME NEW p \in PageImages, WriteSeek(u, p) PROVE IterInv(u)'
  BY <1>1 DEF WriteSeek, IterInv, Loading, InNext, Due, DueHasRecords, DueBelowSeen, CurrentPending, LoadingCurrent, CntIsLen, EndedSeen, FileAt
<1>2. ASSUME WriteFlush(u) PROVE IterInv(u)'
  <2> DEFINE r == it[u]  q == it'[u]
  <2>1. it' = [v \in Threads |-> [it[v] EXCEPT !.touched = @ \cup {cursor}]]
        /\ pc' = [pc EXCEPT ![u] = "idle"] /\ UNCHANGED <<retpc, rq, res>>
    BY <1>2, Zenon DEF WriteFlush
  <2>2. q = [r EXCEPT !.touched = @ \cup {cursor}]
    BY <2>1, Zenon
  <2>3. cursor \in ReadIds /\ pc[u] = "w_flush"
    BY <1>2 DEF WriteFlush, IInv, TypeOK, ReadIds
  <2>4. /\ q.start = r.start /\ q.touched = r.touched \cup {cursor}
        /\ q.seen = r.seen /\ q.ended = r.ended /\ q.pend = r.pend /\ q.pid = r.pid
    BY <1>0, <2>2, <2>3, IterTouch
  <2>5. \A k \in Nat : FileAt(k)' = IF k = cursor THEN wp[u] ELSE FileAt(k)
    BY <1>2, FlushFileAt
  <2>6. \A i \in q.start \ q.touched : i \in Nat /\ i # cursor
    BY <1>0, <2>4 DEF IterState, ReadIds
  <2>7. pc[u] = "w_flush" /\ pc'[u] = "idle"
    BY <1>0, <1>2, <2>1 DEF WriteFlush
  <2>8. ~Loading(u) /\ ~Loading(u)' /\ ~InNext(u)'
    BY <2>7 DEF Loading, InNext
  <2>9. Due(u)' = Due(u) \ {cursor}
    BY <2>4 DEF Due
  <2>10. EndedSeen(u)'
    BY <2>4, <2>9 DEF IterInv, EndedSeen
  <2>11. DueHasRecords(u)'
    <3> SUFFICES ASSUME NEW i \in Due(u)' PROVE FileAt(i)'.body # NoBody
      BY DEF DueHasRecords
    <3>1. i \in Nat /\ i # cursor /\ i \in Due(u)
      BY <2>4, <2>6, <2>9 DEF Due
    <3> QED
      BY <3>1, <2>5 DEF IterInv, DueHasRecords
  <2>12. DueBelowSeen(u)'
    BY <2>4, <2>9 DEF IterInv, DueBelowSeen
  <2>13. CurrentPending(u)'
    BY <2>4, <2>8, <2>9 DEF IterInv, CurrentPending
  <2>14. LoadingCurrent(u)' /\ CntIsLen(u)'
    BY <2>7, <2>8 DEF LoadingCurrent, CntIsLen
  <2> QED
    BY <2>10, <2>11, <2>12, <2>13, <2>14 DEF IterInv
<1>3. ASSUME NEW i \in PageIds, ReadPage(u, i) PROVE IterInv(u)'
  BY <1>0, <1>3 DEF ReadPage, ReadSeek, IterInv, Loading, InNext, Due, DueHasRecords, DueBelowSeen, CurrentPending, LoadingCurrent, CntIsLen, EndedSeen, FileAt
<1>4. ASSUME ReadExact(u) PROVE IterInv(u)'
  <2>1. cursor = rq[u]
    BY <1>4 DEF ReadExact, IInv
  <2>2. /\ res' = [res EXCEPT ![u] = FileAt(cursor)] /\ pc' = [pc EXCEPT ![u] = retpc[u]]
        /\ pc[u] = "r_exact" /\ UNCHANGED <<file, retpc, rq, it>>
    BY <1>4, Zenon DEF ReadExact
  <2>3. res'[u] = FileAt(cursor) /\ pc'[u] = retpc[u] /\ retpc[u] \in RetPCs
    BY <1>0, <2>2
  <2>4. /\ \A i \in Nat : FileAt(i)' = FileAt(i)
        /\ Due(u)' = Due(u) /\ it'[u] = it[u]
    BY <2>2 DEF FileAt, Due
  <2>5. Loading(u)' = Loading(u) /\ InNext(u)' = InNext(u) /\ pc'[u] # "r_exact"
    BY <2>2, <2>3 DEF Loading, InNext, RetPCs
  <2>6. EndedSeen(u)' /\ DueBelowSeen(u)' /\ CurrentPending(u)' /\ CntIsLen(u)'
    BY <2>4, <2>5, <2>2 DEF IterInv, EndedSeen, DueBelowSeen, CurrentPending, CntIsLen
  <2>7. DueHasRecords(u)'
    BY <2>4, <1>0 DEF IterInv, DueHasRecords, Due, IterState, ReadIds
  <2>8. LoadingCurrent(u)'
    <3>1. pc'[u] \in {"it_new", "it_got"} => res'[u] = FileAt(it[u].pid)'
      <4>1. pc'[u] \in {"it_new", "it_got"} => rq[u] = it[u].pid
        BY <2>2, <2>3 DEF IterInv, LoadingCurrent, Loading
      <4>2. it[u].pid \in Nat
        BY <1>0 DEF IterState
      <4> QED
        BY <4>1, <4>2, <2>1, <2>3, <2>4
    <3> QED
      BY <3>1, <2>4, <2>5 DEF LoadingCurrent
  <2> QED
    BY <2>6, <2>7, <2>8 DEF IterInv
<1>5. ASSUME IterNew(u) PROVE IterInv(u)'
  <2> DEFINE S == {i \in ReadIds : FileAt(i).body # NoBody}
  <2>1. /\ it' = [it EXCEPT ![u] = [on |-> TRUE, pid |-> 0, pend |-> NoBody, cnt |-> 0,
                     ended |-> FALSE, touched |-> {}, seen |-> {}, start |-> S]]
        /\ pc' = [pc EXCEPT ![u] = "r_exact"] /\ retpc' = [retpc EXCEPT ![u] = "it_new"]
        /\ rq' = [rq EXCEPT ![u] = 0] /\ cursor' = 0 /\ UNCHANGED file
    BY <1>5, Zenon DEF IterNew, ReadSeek
  <2>2. /\ it'[u].pid = 0 /\ it'[u].ended = FALSE /\ it'[u].touched = {}
        /\ it'[u].seen = {} /\ it'[u].start = S /\ it'[u].pend = NoBody
    BY <1>00, <2>1
  <2>3. pc'[u] = "r_exact" /\ retpc'[u] = "it_new" /\ rq'[u] = 0
    BY <1>0, <2>1
  <2>4. Loading(u)' /\ ~InNext(u)' /\ Due(u)' = S
    BY <2>2, <2>3 DEF Loading, InNext, Due
  <2>5. \A i \in Nat : FileAt(i)' = FileAt(i)
    BY <2>1 DEF FileAt
  <2>6. DueHasRecords(u)'
    BY <2>4, <2>5, ConstFacts DEF DueHasRecords, ReadIds
  <2>7. EndedSeen(u)' /\ CurrentPending(u)' /\ CntIsLen(u)'
    BY <2>2, <2>4 DEF EndedSeen, CurrentPending, CntIsLen
  <2>8. DueBelowSeen(u)'
    BY <2>2, <2>4, ConstFacts DEF DueBelowSeen, ReadIds
  <2>9. LoadingCurrent(u)'
    BY <2>2, <2>3 DEF LoadingCurrent
  <2> QED
    BY <2>6, <2>7, <2>8, <2>9 DEF IterInv
<1>6. ASSUME IterNewDone(u) PROVE IterInv(u)'
  <2> DEFINE r == it[u]  q == it'[u]
  <2>1. it' = [it EXCEPT ![u] = [it[u] EXCEPT !.pend = res[u].body]]
        /\ pc' = [pc EXCEPT ![u] = "idle"]
        /\ UNCHANGED <<file, cursor, retpc, rq, res, wp>>
    BY <1>6, Zenon DEF IterNewDone
  <2>2. res[u].body \in Bodies \cup {NoBody} /\ pc[u] = "it_new"
    BY <1>6 DEF IInv, TypeOK, Images, IterNewDone
  <2>3. /\ q.start = r.start /\ q.touched = r.touched /\ q.seen = r.seen
        /\ q.ended = r.ended /\ q.pend = res[u].body /\ q.pid = r.pid
    BY <1>00, <2>1, <2>2, IterSetPend, Zenon
  <2> QED
    BY <2>1, <2>2, <2>3 DEF IterInv, Loading, InNext, Due, DueHasRecords, DueBelowSeen, CurrentPending, LoadingCurrent, CntIsLen, EndedSeen, FileAt
<1>7. ASSUME IterNextCall(u) PROVE IterInv(u)'
  <2> DEFINE r == it[u]  q == it'[u]
  <2>1. it' = [it EXCEPT ![u] = [it[u] EXCEPT !.cnt = Len(file)]]
        /\ pc' = [pc EXCEPT ![u] = "it_loop"] /\ pc[u] = "idle"
        /\ UNCHANGED <<file, cursor, retpc, rq, res, wp>>
    BY <1>7, Zenon DEF IterNextCall, NumPages
  <2>2. Len(file) \in 0..(MAX_PAGES + 2)
    BY <1>0 DEF IInv, TypeOK
  <2>3. /\ q.start = r.start /\ q.touched = r.touched /\ q.seen = r.seen
        /\ q.ended = r.ended /\ q.pend = r.pend /\ q.pid = r.pid /\ q.cnt = Len(file)
    BY <1>00, <2>1, <2>2, IterSetCnt, Zenon
  <2> QED
    BY <2>1, <2>3 DEF IterInv, Loading, InNext, Due, DueHasRecords, DueBelowSeen, CurrentPending, LoadingCurrent, CntIsLen, EndedSeen, FileAt
<1>8. ASSUME IterYield(u) PROVE IterInv(u)'
  <2> DEFINE r == it[u]  q == it'[u]
  <2>1. it' = [it EXCEPT ![u] = [it[u] EXCEPT !.pend = NoBody, !.seen = @ \cup {it[u].pid}]]
        /\ pc' = [pc EXCEPT ![u] = "idle"] /\ pc[u] = "it_loop"
        /\ UNCHANGED <<file, cursor, retpc, rq, res, wp>>
    BY <1>8, Zenon DEF IterYield
  <2>2. r.pid \in ReadIds
    BY <1>0, <1>8 DEF IterYield, IInv, IterState, ReadIds
  <2>3. /\ q.start = r.start /\ q.touched = r.touched /\ q.seen = r.seen \cup {r.pid}
        /\ q.ended = r.ended /\ q.pend = NoBody /\ q.pid = r.pid
    BY <1>00, <2>1, <2>2, IterSee, Zenon
  <2> QED
    BY <2>1, <2>3 DEF IterInv, Loading, InNext, Due, DueHasRecords, DueBelowSeen, CurrentPending, LoadingCurrent, CntIsLen, EndedSeen, FileAt
<1>9. ASSUME IterAdvance(u) PROVE IterInv(u)'
  <2> DEFINE r == it[u]  q == it'[u]
  <2>1. it' = [it EXCEPT ![u] = [it[u] EXCEPT !.pid = @ + 1]]
        /\ pc[u] = "it_loop" /\ r.pend = NoBody /\ r.pid <= r.cnt
        /\ cursor' = r.pid + 1 /\ rq' = [rq EXCEPT ![u] = r.pid + 1]
        /\ retpc' = [retpc EXCEPT ![u] = "it_got"] /\ pc' = [pc EXCEPT ![u] = "r_exact"]
        /\ UNCHANGED <<file, res, wp>>
    BY <1>9, Zenon DEF IterAdvance, ReadSeek
  <2>2. r.pid + 1 \in 0..(MAX_PAGES + 2) /\ r.pid \in Nat
    BY <1>0, <2>1 DEF IInv, TypeOK, IterState
  <2>3. /\ q.start = r.start /\ q.touched = r.touched /\ q.seen = r.seen
        /\ q.ended = r.ended /\ q.pend = r.pend /\ q.pid = r.pid + 1 /\ q.cnt = r.cnt
    BY <1>00, <2>1, <2>2, IterIncPid, Zenon
  <2>4. r.pid \in r.start \ r.touched => r.pid \in r.seen
    BY <2>1 DEF IterInv, Loading, Due, CurrentPending
  <2>5. \A i \in r.start \ r.touched : i < r.pid + 1 => i \in r.seen
    BY <2>2, <2>4, <1>0 DEF IterInv, IterState, ReadIds, Due, DueBelowSeen
  <2>6. rq'[u] = r.pid + 1 /\ r.cnt = Len(file)
    BY <2>1 DEF IInv, TypeOK, IterInv, InNext, CntIsLen
  <2>7. pc'[u] = "r_exact" /\ retpc'[u] = "it_got" /\ pc[u] = "it_loop"
    BY <1>0, <2>1
  <2>8. Loading(u)' /\ InNext(u)' /\ Due(u)' = Due(u)
    BY <2>3, <2>7 DEF Loading, InNext, Due
  <2>9. \A i \in Nat : FileAt(i)' = FileAt(i)
    BY <2>1 DEF FileAt
  <2>10. EndedSeen(u)' /\ CurrentPending(u)'
    BY <2>3, <2>8 DEF IterInv, EndedSeen, CurrentPending
  <2>11. DueHasRecords(u)'
    BY <2>8, <2>9, <1>0 DEF IterInv, DueHasRecords, Due, IterState, ReadIds
  <2>12. DueBelowSeen(u)'
    BY <2>3, <2>5 DEF DueBelowSeen, Due
  <2>13. LoadingCurrent(u)'
    BY <2>3, <2>6, <2>7 DEF LoadingCurrent
  <2>14. CntIsLen(u)'
    BY <2>1, <2>3, <2>6 DEF CntIsLen
  <2> QED
    BY <2>10, <2>11, <2>12, <2>13, <2>14 DEF IterInv
<1>10. ASSUME IterGot(u) PROVE IterInv(u)'
  <2> DEFINE r == it[u]  q == it'[u]
  <2>1. it' = [it EXCEPT ![u] = [it[u] EXCEPT !.pend = res[u].body]]
        /\ pc' = [pc EXCEPT ![u] = "it_loop"]
        /\ UNCHANGED <<file, cursor, retpc, rq, res, wp>>
    BY <1>10, Zenon DEF IterGot
  <2>2. res[u].body \in Bodies \cup {NoBody} /\ pc[u] = "it_got"
    BY <1>10 DEF IInv, TypeOK, Images, IterGot
  <2>3. /\ q.start = r.start /\ q.touched = r.touched /\ q.seen = r.seen
        /\ q.ended = r.ended /\ q.pend = res[u].body /\ q.pid = r.pid /\ q.cnt = r.cnt
    BY <1>00, <2>1, <2>2, IterSetPend, Zenon
  <2> QED
    BY <2>1, <2>2, <2>3 DEF IterInv, Loading, InNext, Due, DueHasRecords, DueBelowSeen, CurrentPending, LoadingCurrent, CntIsLen, EndedSeen, FileAt
<1>11. ASSUME IterEnd(u) PROVE IterInv(u)'
  <2> DEFINE r == it[u]  q == it'[u]
  <2>1. it' = [it EXCEPT ![u] = [it[u] EXCEPT !.ended = TRUE]]
        /\ pc' = [pc EXCEPT ![u] = "idle"] /\ pc[u] = "it_loop" /\ r.pid > r.cnt
        /\ UNCHANGED <<file, cursor, retpc, rq, res, wp>>
    BY <1>11, Zenon DEF IterEnd
  <2>2. /\ q.start = r.start /\ q.touched = r.touched /\ q.seen = r.seen
        /\ q.ended = TRUE /\ q.pend = r.pend /\ q.pid = r.pid
    BY <1>00, <2>1, IterSetEnded, Zenon
  <2>3. \A i \in r.start \ r.touched : i < Len(file)
    BY <1>0, BodyInFile DEF IterInv, IterState, ReadIds, Due, DueHasRecords
  <2>4. r.start \ r.touched \subseteq r.seen
    BY <1>0, <2>1, <2>3 DEF IterInv, InNext, IterState, ReadIds, Due, DueBelowSeen, CntIsLen
  <2> QED
    BY <2>1, <2>2, <2>4 DEF IterInv, Loading, InNext, Due, DueHasRecords, DueBelowSeen, CurrentPending, LoadingCurrent, CntIsLen, EndedSeen, FileAt
<1>12. CASE UNCHANGED vars
  BY <1>12 DEF vars, IterInv, Loading, InNext, Due, DueHasRecords, DueBelowSeen, CurrentPending, LoadingCurrent, CntIsLen, EndedSeen, FileAt
<1> QED
  BY <1>1, <1>2, <1>3, <1>4, <1>5, <1>6, <1>7, <1>8, <1>9, <1>10, <1>11, <1>12
  DEF Next


(* No iterator exists at start: IterInv holds vacuously. *)
LEMMA InitIterInv ==
  ASSUME NEW u \in Threads, Init PROVE IterInv(u)
<1>1. it[u].start = {} /\ it[u].ended = FALSE /\ pc[u] = "idle"
  BY DEF Init
<1> QED
  BY <1>1 DEF IterInv, Loading, InNext, Due, DueHasRecords, DueBelowSeen,
             CurrentPending, LoadingCurrent, CntIsLen, EndedSeen

-----------------------------------------------------------------------------
(* HeapFileIterator::next, for a heap file used by one thread: once next   *)
(* has returned None, every page that held records when the iterator was   *)
(* made and has not been rewritten since was returned, although num_pages  *)
(* is re-read on every call and reads past the end come back empty.       *)
(* IterInv strengthens it: the pages still due below curr_pid were seen,   *)
(* those still due hold records, and the page being read is curr_pid.      *)
THEOREM IterYieldsAllHolds ==
  ASSUME NEW u, Threads = {u}
  PROVE  Spec => []IterYieldsAll
<1>1. Init => IInv(u) /\ IterInv(u)
  BY InitIInv, InitIterInv
<1>2. IInv(u) /\ IterInv(u) /\ [Next]_vars => IInv(u)' /\ IterInv(u)'
  BY NextIInv, NextIterInv
<1>3. IterInv(u) => IterYieldsAll
  BY DEF IterInv, EndedSeen, Due, IterYieldsAll
<1> QED
  BY <1>1, <1>2, <1>3, PTL DEF Spec

=============================================================================
