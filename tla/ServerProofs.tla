---------------------------- MODULE ServerProofs ----------------------------
(***************************************************************************)
(* Proofs about the server's connection bookkeeping (module Server), for  *)
(* every set of connections, client ids and database names.               *)
(*                                                                         *)
(* IdsResolve is not inductive as it stands.  Moving the client into     *)
(* active_connections (ConnectActivate) keeps it only if the name the     *)
(* thread looked up is still a key of id_to_db, and the close path and    *)
(* the SQL path index id_to_db with a value read from active_connections  *)
(* one step earlier: ThreadsResolve records those per-thread facts.       *)
(* GuardsHeld, the lock bookkeeping, is what CloseBlocksConnects needs.   *)
(* All rest on TypeOK, for the EXCEPTs on pc and on the lock records.     *)
(* IInv, their conjunction, is inductive.                                 *)
(***************************************************************************)
EXTENDS Server, TLAPS

(* The steps of a handler thread. *)
PCs == {"idle", "create", "conn_lookup", "conn_get", "conn_acw", "conn_reg",
        "sql_acr", "sql_db", "close_acr", "close_db", "close_chk",
        "close_acw", "panicked"}

Lock == [readers : SUBSET Conns, writer : SUBSET Conns]

Obj == DbNames \X Nat

(* Every variable holds what the Rust type allows: maps keyed by database *)
(* and client ids, client sets, and lock guards held by handler threads.  *)
TypeOK ==
  /\ DOMAIN idToDb \subseteq DbNames /\ idToDb \in [DOMAIN idToDb -> Obj]
  /\ gen \in [DbNames -> Nat]
  /\ DOMAIN dbClients \subseteq Obj
  /\ dbClients \in [DOMAIN dbClients -> SUBSET ClientIds]
  /\ DOMAIN active \subseteq ClientIds /\ active \in [DOMAIN active -> DbNames]
  /\ acLock \in Lock /\ dbLock \in Lock
  /\ persisted \subseteq Obj
  /\ pc \in [Conns -> PCs] /\ tgt \in [Conns -> DbNames] /\ obj \in [Conns -> Obj]

(* The lock bookkeeping the proofs rely on: each RwLock's read guards are *)
(* held by exactly the threads between its read() and the drop of the     *)
(* guard -- active_connections by the SQL lookup block (handler.rs:111-117) *)
(* and by close_client_connection from db_id_ref (server_state.rs:107) to *)
(* the end of the function; id_to_db by connect_to_db's map_ref           *)
(* (server_state.rs:147) through the registration and by close's db_ref.  *)
GuardsHeld ==
  /\ acLock.readers =
       {t \in Conns : pc[t] \in {"sql_db", "close_db", "close_chk", "close_acw"}}
  /\ dbLock.readers = {t \in Conns : pc[t] \in {"conn_acw", "conn_reg", "close_chk"}}

(* What a thread will look up in the next step is there: the name         *)
(* connect_to_db found, the database id close read from                   *)
(* active_connections, and the client's entry on the SQL path.            *)
ThreadsResolve ==
  \A t \in Conns :
    /\ pc[t] \in {"conn_get", "conn_acw", "close_db"} => tgt[t] \in DOMAIN idToDb
    /\ pc[t] = "sql_db" => ClientOf[t] \in DOMAIN active

IInv == TypeOK /\ GuardsHeld /\ IdsResolve /\ ThreadsResolve


-----------------------------------------------------------------------------
(* Lemmas about the helpers.                                               *)

(* Put(f, k, v) adds or overwrites the entry for k and keeps the others. *)
LEMMA PutProps ==
  ASSUME NEW f, NEW X, f \in [DOMAIN f -> X], NEW k, NEW v \in X
  PROVE  /\ DOMAIN Put(f, k, v) = DOMAIN f \cup {k}
         /\ Put(f, k, v) \in [DOMAIN f \cup {k} -> X]
         /\ Put(f, k, v)[k] = v
         /\ \A x \in DOMAIN f \ {k} : Put(f, k, v)[x] = f[x]
BY DEF Put

(* Adding or dropping a read guard keeps a lock a lock. *)
LEMMA ReaderProps ==
  ASSUME NEW l \in Lock, NEW t \in Conns
  PROVE  /\ AddReader(l, t) \in Lock
         /\ AddReader(l, t).readers = l.readers \cup {t}
         /\ DropReader(l, t) \in Lock
         /\ DropReader(l, t).readers = l.readers \ {t}
BY DEF Lock, AddReader, DropReader

-----------------------------------------------------------------------------
(* The initial state.                                                      *)

LEMMA InitIInv == Init => IInv
<1> SUFFICES ASSUME Init PROVE IInv
  OBVIOUS
<1>1. TypeOK
  BY ServerAssumption DEF Init, TypeOK, EmptyFn, NoLock, Lock, PCs, Obj
<1>2. GuardsHeld
  BY DEF Init, GuardsHeld, NoLock
<1>3. IdsResolve /\ ThreadsResolve
  BY DEF Init, IdsResolve, ThreadsResolve, EmptyFn
<1>. QED
  BY <1>1, <1>2, <1>3 DEF IInv


-----------------------------------------------------------------------------
(* Each step keeps IInv: one lemma per action, one step per conjunct.     *)

LEMMA RequestIInv ==
  ASSUME IInv, NEW t \in Conns, NEW d \in DbNames,
         NEW label \in {"create", "conn_lookup", "sql_acr", "close_acr"},
         Request(t, d, label)
  PROVE  IInv'
<1>1. TypeOK'
  BY DEF IInv, TypeOK, Request, PCs
<1>2. GuardsHeld'
  BY DEF IInv, TypeOK, GuardsHeld, Request
<1>3. IdsResolve'
  BY DEF IInv, IdsResolve, Request
<1>4. ThreadsResolve'
  BY DEF IInv, TypeOK, ThreadsResolve, Request
<1>. QED
  BY <1>1, <1>2, <1>3, <1>4 DEF IInv

LEMMA CreateDatabaseIInv ==
  ASSUME IInv, NEW t \in Conns, CreateDatabase(t)
  PROVE  IInv'
<1>. DEFINE d == tgt[t]
            o == <<d, gen[d]>>
<1>1. d \in DbNames /\ o \in Obj
  BY DEF IInv, TypeOK, Obj
<1>2. /\ idToDb' = Put(idToDb, d, o)
      /\ dbClients' = Put(dbClients, o, {})
      /\ UNCHANGED <<active, acLock, dbLock, persisted, tgt, obj>>
      /\ pc' = [pc EXCEPT ![t] = "idle"]
      /\ gen' = [gen EXCEPT ![d] = @ + 1]
  BY Zenon DEF CreateDatabase
<1>3. /\ DOMAIN idToDb' = DOMAIN idToDb \cup {d}
      /\ idToDb' \in [DOMAIN idToDb' -> Obj]
      /\ idToDb'[d] = o
      /\ DOMAIN dbClients' = DOMAIN dbClients \cup {o}
      /\ dbClients' \in [DOMAIN dbClients' -> SUBSET ClientIds]
  BY <1>1, <1>2 DEF Put, IInv, TypeOK
<1>4. TypeOK'
  BY <1>1, <1>2, <1>3 DEF IInv, TypeOK, PCs
<1>5. GuardsHeld'
  BY <1>2 DEF IInv, TypeOK, GuardsHeld, CreateDatabase
<1>6. IdsResolve'
  <2>1. \A x \in DOMAIN idToDb \ {d} : idToDb'[x] = idToDb[x]
    BY <1>1, <1>2 DEF Put, IInv, TypeOK
  <2>. QED
    BY <1>2, <1>3, <2>1 DEF IInv, IdsResolve
<1>7. ThreadsResolve'
  BY <1>2, <1>3 DEF IInv, TypeOK, ThreadsResolve, CreateDatabase
<1>. QED
  BY <1>4, <1>5, <1>6, <1>7 DEF IInv

LEMMA ConnectLookupIInv ==
  ASSUME IInv, NEW t \in Conns, ConnectLookup(t) \/ ConnectNotFound(t)
  PROVE  IInv'
<1>1. TypeOK'
  BY DEF IInv, TypeOK, ConnectLookup, ConnectNotFound, PCs
<1>2. GuardsHeld'
  BY DEF IInv, TypeOK, GuardsHeld, ConnectLookup, ConnectNotFound
<1>3. IdsResolve'
  BY DEF IInv, IdsResolve, ConnectLookup, ConnectNotFound
<1>4. ThreadsResolve'
  BY DEF IInv, TypeOK, ThreadsResolve, ConnectLookup, ConnectNotFound
<1>. QED
  BY <1>1, <1>2, <1>3, <1>4 DEF IInv

LEMMA ConnectGetIInv ==
  ASSUME IInv, NEW t \in Conns, ConnectGet(t)
  PROVE  IInv'
<1>1. dbLock' = AddReader(dbLock, t) /\ dbLock'.readers = dbLock.readers \cup {t}
      /\ dbLock' \in Lock
  BY ReaderProps DEF IInv, TypeOK, ConnectGet
<1>2. tgt[t] \in DOMAIN idToDb /\ pc[t] = "conn_get"
  BY DEF IInv, ThreadsResolve, ConnectGet
<1>3. TypeOK'
  BY <1>1, <1>2 DEF IInv, TypeOK, ConnectGet, PCs
<1>4. GuardsHeld'
  BY <1>1, <1>2 DEF IInv, TypeOK, GuardsHeld, ConnectGet
<1>5. IdsResolve'
  BY DEF IInv, IdsResolve, ConnectGet
<1>6. ThreadsResolve'
  BY <1>2 DEF IInv, TypeOK, ThreadsResolve, ConnectGet
<1>. QED
  BY <1>3, <1>4, <1>5, <1>6 DEF IInv

LEMMA ConnectActivateIInv ==
  ASSUME IInv, NEW t \in Conns, ConnectActivate(t)
  PROVE  IInv'
<1>1. tgt[t] \in DOMAIN idToDb /\ tgt[t] \in DbNames /\ ClientOf[t] \in ClientIds
  BY ServerAssumption DEF IInv, TypeOK, ThreadsResolve, ConnectActivate
<1>2. active' = Put(active, ClientOf[t], tgt[t])
  BY DEF ConnectActivate
<1>3. /\ DOMAIN active' = DOMAIN active \cup {ClientOf[t]}
      /\ active' \in [DOMAIN active' -> DbNames]
      /\ active'[ClientOf[t]] = tgt[t]
      /\ \A c \in DOMAIN active \ {ClientOf[t]} : active'[c] = active[c]
  BY <1>1, <1>2 DEF Put, IInv, TypeOK
<1>4. TypeOK'
  BY <1>1, <1>3 DEF IInv, TypeOK, ConnectActivate, PCs
<1>5. GuardsHeld'
  BY DEF IInv, TypeOK, GuardsHeld, ConnectActivate
<1>6. IdsResolve'
  BY <1>1, <1>3 DEF IInv, IdsResolve, ConnectActivate
<1>7. ThreadsResolve'
  BY <1>3 DEF IInv, TypeOK, ThreadsResolve, ConnectActivate
<1>. QED
  BY <1>4, <1>5, <1>6, <1>7 DEF IInv

LEMMA ConnectRegisterIInv ==
  ASSUME IInv, NEW t \in Conns, ConnectRegister(t)
  PROVE  IInv'
<1>1. dbLock' = DropReader(dbLock, t) /\ dbLock'.readers = dbLock.readers \ {t}
      /\ dbLock' \in Lock
  BY ReaderProps DEF IInv, TypeOK, ConnectRegister
<1>2. DOMAIN dbClients' = DOMAIN dbClients
      /\ dbClients' \in [DOMAIN dbClients' -> SUBSET ClientIds]
  <2>1. ClientOf[t] \in ClientIds
    BY ServerAssumption
  <2>2. dbClients' = [dbClients EXCEPT ![obj[t]] = @ \cup {ClientOf[t]}]
    BY DEF ConnectRegister
  <2>. QED
    BY <2>1, <2>2 DEF IInv, TypeOK
<1>3. TypeOK'
  BY <1>1, <1>2 DEF IInv, TypeOK, ConnectRegister, PCs
<1>4. GuardsHeld'
  BY <1>1 DEF IInv, TypeOK, GuardsHeld, ConnectRegister
<1>5. IdsResolve'
  BY <1>2 DEF IInv, IdsResolve, ConnectRegister
<1>6. ThreadsResolve'
  BY DEF IInv, TypeOK, ThreadsResolve, ConnectRegister
<1>. QED
  BY <1>3, <1>4, <1>5, <1>6 DEF IInv


LEMMA SqlLookupIInv ==
  ASSUME IInv, NEW t \in Conns, SqlLookup(t) \/ SqlPanics(t)
  PROVE  IInv'
<1>1. CASE SqlLookup(t)
  <2>1. acLock' = AddReader(acLock, t) /\ acLock'.readers = acLock.readers \cup {t}
        /\ acLock' \in Lock
    BY <1>1, ReaderProps DEF IInv, TypeOK, SqlLookup
  <2>2. TypeOK'
    BY <1>1, <2>1 DEF IInv, TypeOK, SqlLookup, PCs
  <2>3. GuardsHeld'
    BY <1>1, <2>1 DEF IInv, TypeOK, GuardsHeld, SqlLookup
  <2>4. IdsResolve' /\ ThreadsResolve'
    BY <1>1 DEF IInv, TypeOK, IdsResolve, ThreadsResolve, SqlLookup
  <2>. QED
    BY <2>2, <2>3, <2>4 DEF IInv
<1>2. CASE SqlPanics(t)
  <2>1. TypeOK'
    BY <1>2 DEF IInv, TypeOK, SqlPanics, PCs
  <2>2. GuardsHeld'
    BY <1>2 DEF IInv, TypeOK, GuardsHeld, SqlPanics
  <2>3. IdsResolve' /\ ThreadsResolve'
    BY <1>2 DEF IInv, TypeOK, IdsResolve, ThreadsResolve, SqlPanics
  <2>. QED
    BY <2>1, <2>2, <2>3 DEF IInv
<1>. QED
  BY <1>1, <1>2

LEMMA SqlGetDbIInv ==
  ASSUME IInv, NEW t \in Conns, SqlGetDb(t)
  PROVE  IInv'
<1>1. acLock' = DropReader(acLock, t) /\ acLock'.readers = acLock.readers \ {t}
      /\ acLock' \in Lock
  BY ReaderProps DEF IInv, TypeOK, SqlGetDb
<1>2. idToDb[active[ClientOf[t]]] \in Obj
  BY DEF IInv, TypeOK, ThreadsResolve, IdsResolve, SqlGetDb
<1>3. TypeOK'
  BY <1>1, <1>2 DEF IInv, TypeOK, SqlGetDb, PCs
<1>4. GuardsHeld'
  BY <1>1 DEF IInv, TypeOK, GuardsHeld, SqlGetDb
<1>5. IdsResolve' /\ ThreadsResolve'
  BY DEF IInv, TypeOK, IdsResolve, ThreadsResolve, SqlGetDb
<1>. QED
  BY <1>3, <1>4, <1>5 DEF IInv

LEMMA CloseLookupIInv ==
  ASSUME IInv, NEW t \in Conns, CloseLookup(t)
  PROVE  IInv'
<1>1. acLock' = AddReader(acLock, t) /\ acLock'.readers = acLock.readers \cup {t}
      /\ acLock' \in Lock /\ pc[t] = "close_acr"
      /\ UNCHANGED <<idToDb, gen, dbClients, active, dbLock, persisted, obj>>
  BY ReaderProps DEF IInv, TypeOK, CloseLookup
<1>2. CASE ClientOf[t] \in DOMAIN active
  <2>1. pc' = [pc EXCEPT ![t] = "close_db"]
        /\ tgt' = [tgt EXCEPT ![t] = active[ClientOf[t]]]
    BY <1>2 DEF CloseLookup
  <2>2. active[ClientOf[t]] \in DbNames /\ active[ClientOf[t]] \in DOMAIN idToDb
    BY <1>2 DEF IInv, TypeOK, IdsResolve
  <2>3. TypeOK'
    BY <1>1, <2>1, <2>2 DEF IInv, TypeOK, PCs
  <2>4. GuardsHeld'
    BY <1>1, <2>1 DEF IInv, TypeOK, GuardsHeld
  <2>5. IdsResolve' /\ ThreadsResolve'
    BY <1>1, <2>1, <2>2 DEF IInv, TypeOK, IdsResolve, ThreadsResolve
  <2>. QED
    BY <2>3, <2>4, <2>5 DEF IInv
<1>3. CASE ClientOf[t] \notin DOMAIN active
  <2>1. pc' = [pc EXCEPT ![t] = "close_acw"] /\ tgt' = tgt
    BY <1>3 DEF CloseLookup
  <2>2. TypeOK'
    BY <1>1, <2>1 DEF IInv, TypeOK, PCs
  <2>3. GuardsHeld'
    BY <1>1, <2>1 DEF IInv, TypeOK, GuardsHeld
  <2>4. IdsResolve' /\ ThreadsResolve'
    BY <1>1, <2>1 DEF IInv, TypeOK, IdsResolve, ThreadsResolve
  <2>. QED
    BY <2>2, <2>3, <2>4 DEF IInv
<1>. QED
  BY <1>2, <1>3

LEMMA CloseRemoveIInv ==
  ASSUME IInv, NEW t \in Conns, CloseRemove(t)
  PROVE  IInv'
<1>1. dbLock' = AddReader(dbLock, t) /\ dbLock'.readers = dbLock.readers \cup {t}
      /\ dbLock' \in Lock
  BY ReaderProps DEF IInv, TypeOK, CloseRemove
<1>2. tgt[t] \in DOMAIN idToDb /\ idToDb[tgt[t]] \in Obj
  BY DEF IInv, TypeOK, ThreadsResolve, CloseRemove
<1>3. DOMAIN dbClients' = DOMAIN dbClients
      /\ dbClients' \in [DOMAIN dbClients' -> SUBSET ClientIds]
  <2>1. dbClients' = [dbClients EXCEPT ![idToDb[tgt[t]]] = @ \ {ClientOf[t]}]
    BY DEF CloseRemove
  <2>. QED
    BY <2>1 DEF IInv, TypeOK
<1>4. TypeOK'
  BY <1>1, <1>2, <1>3 DEF IInv, TypeOK, CloseRemove, PCs
<1>5. GuardsHeld'
  BY <1>1 DEF IInv, TypeOK, GuardsHeld, CloseRemove
<1>6. IdsResolve' /\ ThreadsResolve'
  BY <1>3 DEF IInv, TypeOK, IdsResolve, ThreadsResolve, CloseRemove
<1>. QED
  BY <1>4, <1>5, <1>6 DEF IInv

LEMMA CloseCheckIInv ==
  ASSUME IInv, NEW t \in Conns, ClosePersist(t) \/ CloseKeep(t)
  PROVE  IInv'
<1>1. /\ dbLock' = DropReader(dbLock, t)
      /\ pc' = [pc EXCEPT ![t] = "close_acw"] /\ pc[t] = "close_chk"
      /\ persisted' \subseteq persisted \cup {obj[t]}
      /\ UNCHANGED <<idToDb, gen, dbClients, active, acLock, tgt, obj>>
  BY DEF ClosePersist, CloseKeep
<1>2. dbLock'.readers = dbLock.readers \ {t} /\ dbLock' \in Lock
  BY <1>1, ReaderProps DEF IInv, TypeOK
<1>3. TypeOK'
  BY <1>1, <1>2 DEF IInv, TypeOK, PCs
<1>4. GuardsHeld'
  BY <1>1, <1>2 DEF IInv, TypeOK, GuardsHeld
<1>5. IdsResolve' /\ ThreadsResolve'
  BY <1>1 DEF IInv, TypeOK, IdsResolve, ThreadsResolve
<1>. QED
  BY <1>3, <1>4, <1>5 DEF IInv

LEMMA NextIInv == IInv /\ [Next]_vars => IInv'
<1> SUFFICES ASSUME IInv, [Next]_vars PROVE IInv'
  OBVIOUS
<1>1. CASE UNCHANGED vars
  BY <1>1 DEF vars, IInv, TypeOK, GuardsHeld, IdsResolve, ThreadsResolve
<1>2. CASE Next
  <2>1. PICK t \in Conns :
          \/ \E d \in DbNames :
               \/ Request(t, d, "create")
               \/ Request(t, d, "conn_lookup")
          \/ Request(t, tgt[t], "sql_acr")
          \/ Request(t, tgt[t], "close_acr")
          \/ Progress(t)
    BY <1>2, Zenon DEF Next
  <2>2. tgt[t] \in DbNames
    BY DEF IInv, TypeOK
  <2>3. CASE \E d \in DbNames : Request(t, d, "create") \/ Request(t, d, "conn_lookup")
    BY <2>3, RequestIInv
  <2>4. CASE Request(t, tgt[t], "sql_acr") \/ Request(t, tgt[t], "close_acr")
    BY <2>2, <2>4, RequestIInv
  <2>5. CASE Progress(t)
    BY <2>5, CreateDatabaseIInv, ConnectLookupIInv, ConnectGetIInv,
       ConnectActivateIInv, ConnectRegisterIInv, SqlLookupIInv, SqlGetDbIInv,
       CloseLookupIInv, CloseRemoveIInv, CloseCheckIInv DEF Progress
  <2>. QED
    BY <2>1, <2>3, <2>4, <2>5
<1>. QED
  BY <1>1, <1>2


-----------------------------------------------------------------------------
(* The invariants the runs check, for every instance.                      *)

(* Every variable keeps the type of the Rust value it models. *)
THEOREM TypeCorrect == Spec => []TypeOK
<1>1. Init => IInv
  BY InitIInv
<1>2. IInv /\ [Next]_vars => IInv'
  BY NextIInv
<1>3. IInv => TypeOK
  BY DEF IInv
<1>. QED
  BY <1>1, <1>2, <1>3, PTL DEF Spec

(* The unwraps on active_connections' database id in id_to_db             *)
(* (handler.rs:116, server_state.rs:111) never fail, and every database   *)
(* has its client set.                                                     *)
THEOREM IdsResolveHolds == Spec => []IdsResolve
<1>1. Init => IInv
  BY InitIInv
<1>2. IInv /\ [Next]_vars => IInv'
  BY NextIInv
<1>3. IInv => IdsResolve
  BY DEF IInv
<1>. QED
  BY <1>1, <1>2, <1>3, PTL DEF Spec

-----------------------------------------------------------------------------
(* The close at server_state.rs:120 wedges the whole server's connects.   *)

(* Some handler thread waits for active_connections.write() at line 120. *)
ClosingStuck == \E u \in Conns : pc[u] = "close_acw"

(* No thread gets active_connections.write() in connect_to_db. *)
NoConnectActivates == \A t \in Conns : ~ConnectActivate(t)

(* Every step moves one thread, and none leaves "close_acw". *)
LEMMA NextMovesOne ==
  ASSUME IInv, Next
  PROVE  \E t \in Conns : pc[t] # "close_acw" /\ \A u \in Conns \ {t} : pc'[u] = pc[u]
<1>1. PICK t \in Conns :
        \/ \E d \in DbNames : \E l \in {"create", "conn_lookup"} : Request(t, d, l)
        \/ Request(t, tgt[t], "sql_acr") \/ Request(t, tgt[t], "close_acr")
        \/ Progress(t)
  BY Zenon DEF Next
<1>2. \E l : pc[t] # "close_acw" /\ pc' = [pc EXCEPT ![t] = l]
  BY <1>1 DEF Request, Progress, CreateDatabase, ConnectLookup, ConnectNotFound,
     ConnectGet, ConnectActivate, ConnectRegister, SqlLookup, SqlPanics,
     SqlGetDb, CloseLookup, CloseRemove, ClosePersist, CloseKeep
<1>. QED
  BY <1>2 DEF IInv, TypeOK

(* Once one client's close waits at server_state.rs:120, holding its own  *)
(* read guard of active_connections, it waits forever, and from then on   *)
(* no connect_to_db of any client gets the write guard at line 150: every *)
(* later \connect on the server hangs.                                     *)
THEOREM CloseBlocksConnects ==
  Spec => [](ClosingStuck => [][NoConnectActivates]_vars)
<1>1. Init => IInv
  BY InitIInv
<1>2. IInv /\ [Next]_vars => IInv'
  BY NextIInv
<1>3. IInv /\ ClosingStuck /\ [Next]_vars => ClosingStuck'
  <2> SUFFICES ASSUME IInv, ClosingStuck, [Next]_vars PROVE ClosingStuck'
    OBVIOUS
  <2>1. PICK u \in Conns : pc[u] = "close_acw"
    BY DEF ClosingStuck
  <2>2. CASE Next
    BY <2>1, <2>2, NextMovesOne DEF ClosingStuck
  <2>3. CASE UNCHANGED vars
    BY <2>1, <2>3 DEF ClosingStuck, vars
  <2>. QED
    BY <2>2, <2>3
<1>4. IInv /\ ClosingStuck => [NoConnectActivates]_vars
  <2> SUFFICES ASSUME IInv, ClosingStuck PROVE NoConnectActivates
    OBVIOUS
  <2>1. acLock.readers # {}
    BY DEF ClosingStuck, IInv, GuardsHeld
  <2>. QED
    BY <2>1 DEF NoConnectActivates, ConnectActivate, CanWrite
<1>. QED
  BY <1>1, <1>2, <1>3, <1>4, PTL DEF Spec

=============================================================================
