------------------------------- MODULE Server -------------------------------
(***************************************************************************)
(* The server's connection bookkeeping (server/src/server_state.rs,       *)
(* database_state.rs, handler.rs): one handler thread per TCP connection,  *)
(* sharing ServerState's two RwLocks and each DatabaseState's client set.  *)
(*                                                                         *)
(* State:                                                                  *)
(*   idToDb    -- ServerState.id_to_db: database id -> the DatabaseState   *)
(*                object <<d, g>> (the g-th one made for name d)           *)
(*   dbClients -- DatabaseState.active_client_connections, per object      *)
(*   active    -- ServerState.active_connections: client id -> database id *)
(*   acLock, dbLock -- the RwLocks of active_connections and id_to_db:     *)
(*                the threads holding a read guard and the write guard     *)
(*   persisted -- the DatabaseState objects written to <name>.json         *)
(* and per thread: pc and the database it works on (tgt, obj).            *)
(*                                                                         *)
(* A database id is DefaultHasher(name); names are model values and the    *)
(* hash is taken as injective.  A client id is DefaultHasher(peer ip), so  *)
(* connections from one host share it (ClientOf).  The locks of a         *)
(* DatabaseState's client set and of its tables are held only inside one  *)
(* step.  Requests that only read server state (SQL, \t, \i, \reset) are   *)
(* modelled by the SQL path of handle_client_request.                     *)
(***************************************************************************)
EXTENDS Naturals, FiniteSets

CONSTANTS
  Conns,             \* TCP connections, one handler thread each
  ClientIds,         \* client ids (hash of the peer address)
  ClientOf,          \* ClientOf[t]: the client id of connection t
  DbNames,           \* database names (their hash is the database id)
  WRITER_PREFERRING, \* std RwLock blocks new readers while a writer waits
  Commands,          \* the requests clients send
  MaxGen             \* bound: DatabaseStates made per name

ASSUME ServerAssumption ==
  /\ ClientOf \in [Conns -> ClientIds]
  /\ WRITER_PREFERRING \in BOOLEAN
  /\ MaxGen \in Nat
  /\ DbNames # {}
  /\ Commands \subseteq {"create", "connect", "sql", "close"}

Objs == DbNames \X (0..MaxGen)

VARIABLES idToDb, gen, dbClients, active, acLock, dbLock, persisted,
          pc, tgt, obj

vars == <<idToDb, gen, dbClients, active, acLock, dbLock, persisted,
          pc, tgt, obj>>

-----------------------------------------------------------------------------
(* Helpers.                                                                *)

Put(f, k, v) == [x \in DOMAIN f \cup {k} |-> IF x = k THEN v ELSE f[x]]
EmptyFn      == [x \in {} |-> 0]
NoLock       == [readers |-> {}, writer |-> {}]

(* The threads blocked in write() on each lock. *)
WaitsWriteAc == {t \in Conns : pc[t] \in {"conn_acw", "close_acw"}}
WaitsWriteDb == {t \in Conns : pc[t] = "create"}

(* read() returns when no writer holds the lock and, on a writer-preferring *)
(* lock, none waits; write() returns when nobody holds it.                 *)
CanRead(l, waiting) == l.writer = {} /\ (~WRITER_PREFERRING \/ waiting = {})
CanWrite(l) == l.readers = {} /\ l.writer = {}

AddReader(l, t) == [l EXCEPT !.readers = @ \cup {t}]
DropReader(l, t) == [l EXCEPT !.readers = @ \ {t}]

-----------------------------------------------------------------------------
(* Operations, per handler thread t with client id ClientOf[t].            *)

Init ==
  /\ idToDb = EmptyFn
  /\ gen = [d \in DbNames |-> 0]
  /\ dbClients = EmptyFn
  /\ active = EmptyFn
  /\ acLock = NoLock
  /\ dbLock = NoLock
  /\ persisted = {}
  /\ pc = [t \in Conns |-> "idle"]
  /\ tgt = [t \in Conns |-> CHOOSE d \in DbNames : TRUE]
  /\ obj = [t \in Conns |-> <<CHOOSE d \in DbNames : TRUE, 0>>]

(* A request arrives: \create, \connect, SQL or \close (or EOF). *)
(* The creates of a name, made and pending, are bounded by MaxGen.        *)
CreatesOf(d) == gen[d] + Cardinality({u \in Conns : pc[u] = "create" /\ tgt[u] = d})

Request(t, d, label) ==
  /\ pc[t] = "idle"
  /\ pc' = [pc EXCEPT ![t] = label]
  /\ tgt' = [tgt EXCEPT ![t] = d]
  /\ UNCHANGED <<idToDb, gen, dbClients, active, acLock, dbLock, persisted, obj>>

(* create_database: DatabaseState::new_from_name, then                    *)
(* id_to_db.write().insert(id, state) -- replacing any database of that    *)
(* name.                                                                   *)
CreateDatabase(t) ==
  LET d == tgt[t] IN
  /\ pc[t] = "create"
  /\ CanWrite(dbLock)
  /\ idToDb' = Put(idToDb, d, <<d, gen[d]>>)
  /\ dbClients' = Put(dbClients, <<d, gen[d]>>, {})
  /\ gen' = [gen EXCEPT ![d] = @ + 1]
  /\ pc' = [pc EXCEPT ![t] = "idle"]
  /\ UNCHANGED <<active, acLock, dbLock, persisted, tgt, obj>>

(* connect_to_db: get_db_id_from_db_name scans id_to_db under a read guard. *)
ConnectLookup(t) ==
  /\ pc[t] = "conn_lookup"
  /\ CanRead(dbLock, WaitsWriteDb)
  /\ tgt[t] \in DOMAIN idToDb
  /\ pc' = [pc EXCEPT ![t] = "conn_get"]
  /\ UNCHANGED <<idToDb, gen, dbClients, active, acLock, dbLock, persisted, tgt, obj>>

(* Mutant: connect_to_db going on to insert the client after the failed  *)
(* lookup, as if the `?` on get_db_id_from_db_name were missing.          *)
ConnectNotFoundActivates(t) ==
  /\ pc[t] = "conn_lookup"
  /\ CanRead(dbLock, WaitsWriteDb)
  /\ tgt[t] \notin DOMAIN idToDb
  /\ active' = Put(active, ClientOf[t], tgt[t])
  /\ pc' = [pc EXCEPT ![t] = "idle"]
  /\ UNCHANGED <<idToDb, gen, dbClients, acLock, dbLock, persisted, tgt, obj>>

(* ... and returns Err("db_name not found!") for an unknown name. *)
ConnectNotFound(t) ==
  /\ pc[t] = "conn_lookup"
  /\ CanRead(dbLock, WaitsWriteDb)
  /\ tgt[t] \notin DOMAIN idToDb
  /\ pc' = [pc EXCEPT ![t] = "idle"]
  /\ UNCHANGED <<idToDb, gen, dbClients, active, acLock, dbLock, persisted, tgt, obj>>

(* connect_to_db takes id_to_db.read() again (map_ref, held to the end)    *)
(* and looks the id up.                                                    *)
ConnectGet(t) ==
  /\ pc[t] = "conn_get"
  /\ CanRead(dbLock, WaitsWriteDb)
  /\ dbLock' = AddReader(dbLock, t)
  /\ obj' = [obj EXCEPT ![t] = idToDb[tgt[t]]]
  /\ pc' = [pc EXCEPT ![t] = "conn_acw"]
  /\ UNCHANGED <<idToDb, gen, dbClients, active, acLock, persisted, tgt>>

(* ... inserts client -> db id under active_connections.write() ... *)
ConnectActivate(t) ==
  /\ pc[t] = "conn_acw"
  /\ CanWrite(acLock)
  /\ active' = Put(active, ClientOf[t], tgt[t])
  /\ pc' = [pc EXCEPT ![t] = "conn_reg"]
  /\ UNCHANGED <<idToDb, gen, dbClients, acLock, dbLock, persisted, tgt, obj>>

(* ... then register_new_client_connection, and drops map_ref. *)
ConnectRegister(t) ==
  /\ pc[t] = "conn_reg"
  /\ dbClients' = [dbClients EXCEPT ![obj[t]] = @ \cup {ClientOf[t]}]
  /\ dbLock' = DropReader(dbLock, t)
  /\ pc' = [pc EXCEPT ![t] = "idle"]
  /\ UNCHANGED <<idToDb, gen, active, acLock, persisted, tgt, obj>>

(* An SQL request: handle_client_request reads active_connections and     *)
(* unwraps its entry for the client ...                                    *)
SqlLookup(t) ==
  /\ pc[t] = "sql_acr"
  /\ CanRead(acLock, WaitsWriteAc)
  /\ ClientOf[t] \in DOMAIN active
  /\ acLock' = AddReader(acLock, t)
  /\ pc' = [pc EXCEPT ![t] = "sql_db"]
  /\ UNCHANGED <<idToDb, gen, dbClients, active, dbLock, persisted, tgt, obj>>

(* ... which panics, ending the thread, when the client never connected; *)
(* a read guard does not poison the lock.                                 *)
SqlPanics(t) ==
  /\ pc[t] = "sql_acr"
  /\ CanRead(acLock, WaitsWriteAc)
  /\ ClientOf[t] \notin DOMAIN active
  /\ pc' = [pc EXCEPT ![t] = "panicked"]
  /\ UNCHANGED <<idToDb, gen, dbClients, active, acLock, dbLock, persisted, tgt, obj>>

(* ... then, still holding it, clones the DatabaseState out of id_to_db,  *)
(* drops both guards and runs the query on the clone.                     *)
SqlGetDb(t) ==
  /\ pc[t] = "sql_db"
  /\ CanRead(dbLock, WaitsWriteDb)
  /\ acLock' = DropReader(acLock, t)
  /\ obj' = [obj EXCEPT ![t] = idToDb[active[ClientOf[t]]]]
  /\ pc' = [pc EXCEPT ![t] = "idle"]
  /\ UNCHANGED <<idToDb, gen, dbClients, active, dbLock, persisted, tgt>>

(* \close or EOF: close_client_connection takes active_connections.read() *)
(* (db_id_ref, held to the end of the function) and looks the client up. *)
CloseLookup(t) ==
  /\ pc[t] = "close_acr"
  /\ CanRead(acLock, WaitsWriteAc)
  /\ acLock' = AddReader(acLock, t)
  /\ IF ClientOf[t] \in DOMAIN active
       THEN /\ pc' = [pc EXCEPT ![t] = "close_db"]
            /\ tgt' = [tgt EXCEPT ![t] = active[ClientOf[t]]]
       ELSE /\ pc' = [pc EXCEPT ![t] = "close_acw"]
            /\ UNCHANGED tgt
  /\ UNCHANGED <<idToDb, gen, dbClients, active, dbLock, persisted, obj>>

(* Some(db_id): id_to_db.read() and the DatabaseState's own close, whose  *)
(* first step removes the client from active_client_connections.          *)
CloseRemove(t) ==
  /\ pc[t] = "close_db"
  /\ CanRead(dbLock, WaitsWriteDb)
  /\ dbLock' = AddReader(dbLock, t)
  /\ obj' = [obj EXCEPT ![t] = idToDb[tgt[t]]]
  /\ dbClients' = [dbClients EXCEPT ![idToDb[tgt[t]]] = @ \ {ClientOf[t]}]
  /\ pc' = [pc EXCEPT ![t] = "close_chk"]
  /\ UNCHANGED <<idToDb, gen, active, acLock, persisted, tgt>>

(* A second guard then tests is_empty(): the last client out writes the   *)
(* database to <metadata>/<name>.json; db_ref is dropped on return.       *)
ClosePersist(t) ==
  /\ pc[t] = "close_chk"
  /\ dbClients[obj[t]] = {}
  /\ persisted' = persisted \cup {obj[t]}
  /\ dbLock' = DropReader(dbLock, t)
  /\ pc' = [pc EXCEPT ![t] = "close_acw"]
  /\ UNCHANGED <<idToDb, gen, dbClients, active, acLock, tgt, obj>>

CloseKeep(t) ==
  /\ pc[t] = "close_chk"
  /\ dbClients[obj[t]] # {}
  /\ dbLock' = DropReader(dbLock, t)
  /\ pc' = [pc EXCEPT ![t] = "close_acw"]
  /\ UNCHANGED <<idToDb, gen, dbClients, active, acLock, persisted, tgt, obj>>

(* Last, active_connections.write().remove(client) at server_state.rs:120 *)
(* -- taken while db_id_ref, a read guard of the same lock, is still held *)
(* by this thread.  write() returns only when CanWrite(acLock), which     *)
(* cannot hold while t is among its readers, so no step leaves            *)
(* "close_acw": the removal and the end of the handler loop are never     *)
(* reached.                                                                *)

-----------------------------------------------------------------------------

(* The steps a handler thread takes once a request has arrived. *)
Progress(t) ==
  \/ CreateDatabase(t)
  \/ ConnectLookup(t) \/ ConnectNotFound(t) \/ ConnectGet(t)
  \/ ConnectActivate(t) \/ ConnectRegister(t)
  \/ SqlLookup(t) \/ SqlPanics(t) \/ SqlGetDb(t)
  \/ CloseLookup(t) \/ CloseRemove(t) \/ ClosePersist(t) \/ CloseKeep(t)

Next ==
  \E t \in Conns :
    \/ \E d \in DbNames :
         \/ "create" \in Commands /\ CreatesOf(d) < MaxGen /\ Request(t, d, "create")
         \/ "connect" \in Commands /\ Request(t, d, "conn_lookup")
    \/ "sql" \in Commands /\ Request(t, tgt[t], "sql_acr")
    \/ "close" \in Commands /\ Request(t, tgt[t], "close_acr")
    \/ Progress(t)

(* Each connection has its own OS thread, so a thread whose next step is  *)
(* possible (its lock is grantable) keeps being scheduled: weak fairness  *)
(* per thread.  Clients are not obliged to send requests: Request is not  *)
(* fair.                                                                   *)
Spec == Init /\ [][Next]_vars /\ \A t \in Conns : WF_vars(Progress(t))

-----------------------------------------------------------------------------
(* Properties.                                                             *)

(* A request that only reads the server state (SQL, \t, \i) is eventually *)
(* answered, or ends its thread, whatever the other connections do: no    *)
(* close, connect or create wedges the readers of active_connections and  *)
(* id_to_db for good (handler.rs:111-117, server_state.rs:107-120).        *)
SqlCompletes ==
  \A t \in Conns : pc[t] = "sql_acr" ~> pc[t] \in {"idle", "panicked"}

(* Whenever a request is in progress, some thread in a request can take  *)
(* a step: the lock orders of connect_to_db (id_to_db, then               *)
(* active_connections), the SQL path (active_connections, then id_to_db) *)
(* and create_database never make the handler threads wait on each other  *)
(* in a cycle (server_state.rs:136-155, handler.rs:111-117).               *)
NoDeadlock ==
  (\E t \in Conns : pc[t] \notin {"idle", "panicked"}) =>
    \E t \in Conns : ENABLED Progress(t)

(* Between requests, every DatabaseState in id_to_db lists as its clients *)
(* exactly the client ids that active_connections maps to it: the two     *)
(* maps connect_to_db, create_database and close_client_connection update *)
(* agree (server_state.rs, database_state.rs).                            *)
ClientSetsAccurate ==
  (\A t \in Conns : pc[t] \in {"idle", "panicked"}) =>
    \A d \in DOMAIN idToDb :
      dbClients[idToDb[d]] = {c \in DOMAIN active : active[c] = d}

(* The unwraps on the two maps never fail: every database id that         *)
(* active_connections holds is a key of id_to_db (handler.rs:116,         *)
(* server_state.rs:111), and every DatabaseState in id_to_db has its       *)
(* client set, since connect_to_db inserts a client only after finding    *)
(* the name and nothing removes a database from id_to_db.                  *)
IdsResolve ==
  /\ \A c \in DOMAIN active : active[c] \in DOMAIN idToDb
  /\ \A d \in DOMAIN idToDb : idToDb[d] \in DOMAIN dbClients
=============================================================================
