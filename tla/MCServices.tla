----------------------------- MODULE MCServices -----------------------------
(* The services of one process that share no state here: the dialog queue,   *)
(* the SQLite connection, a container session, the cache of container        *)
(* sessions, and the registry of runs with its mailbox.  A behaviour starts  *)
(* one of them and leaves the others at rest, which shows what a product of  *)
(* all five would show of each.                                              *)
EXTENDS DialogQueue, SqliteTransactions, ContainerSession, ContainerBackend, RunRetention

VARIABLE service  \* the one that is started

(* Nobody asks for a dialog any more.                                        *)
DialogRests ==
  /\ busOf = [d \in Dialog |-> NoBus]
  /\ pc = [d \in Dialog |-> "done"]
  /\ aborted = {} /\ line = <<>> /\ released = {}
  /\ pending = [b \in Bus |-> 0]
  /\ active = [b \in Bus |-> FALSE]
  /\ working = TRUE

(* The connection is closed.                                                 *)
SqliteRests ==
  /\ queue = <<>> /\ tail = [s \in Scope |-> <<>>]
  /\ scope = [s \in Scope |-> Unused]
  /\ within = [c \in Call |-> Outside]
  /\ failed = {} /\ result = [c \in Call |-> "none"]
  /\ db = {} /\ conn = {} /\ saves = <<>>
  /\ closing = TRUE /\ closed = TRUE /\ faults = 0

(* The session did not start.                                                *)
SessionRests ==
  /\ kind = [r \in Request |-> "exec"]
  /\ request = [r \in Request |-> "rejected"]
  /\ id = [r \in Request |-> NoId] /\ nextId = 1
  /\ signalled = {} /\ backstop = {} /\ late = {}
  /\ ready = "failed" /\ shut = FALSE /\ stopping = "no" /\ exitSeen = TRUE
  /\ toBox = <<>> /\ toHost = <<>>
  /\ box = "gone" /\ running = [i \in Id |-> Idle] /\ files = {} /\ garbage = 0

(* The backend is closed.                                                    *)
BackendRests ==
  /\ sessions = [k \in Key |-> NoBox] /\ stale = {}
  /\ keyOf = [b \in Box |-> NoKey]
  /\ start = [b \in Box |-> "unused"] /\ podman = [b \in Box |-> "none"]
  /\ unwanted = {} /\ reaped = {} /\ backend = "closed" /\ reloads = 0

Init ==
  /\ service \in {"dialogs", "sqlite", "session", "backend", "retention"}
  /\ IF service = "dialogs" THEN DialogInit ELSE DialogRests
  /\ IF service = "sqlite" THEN SqliteInit ELSE SqliteRests
  /\ IF service = "session" THEN SessionInit ELSE SessionRests
  /\ IF service = "backend" THEN BackendInit ELSE BackendRests
  /\ RetentionInit

vars == <<service, dialogVars, sqliteVars, sessionVars, backendVars, retentionVars>>

Dialogs ==
  /\ service = "dialogs" /\ DialogNext
  /\ UNCHANGED <<service, sqliteVars, sessionVars, backendVars, retentionVars>>

Sqlite ==
  /\ service = "sqlite" /\ SqliteNext
  /\ UNCHANGED <<service, dialogVars, sessionVars, backendVars, retentionVars>>

Session ==
  /\ service = "session" /\ SessionNext
  /\ UNCHANGED <<service, dialogVars, sqliteVars, backendVars, retentionVars>>

Backend ==
  /\ service = "backend" /\ BackendNext
  /\ UNCHANGED <<service, dialogVars, sqliteVars, sessionVars, retentionVars>>

Retention ==
  /\ service = "retention" /\ RetentionNext
  /\ UNCHANGED <<service, dialogVars, sqliteVars, sessionVars, backendVars>>

Next == Dialogs \/ Sqlite \/ Session \/ Backend \/ Retention

(* The fairness of the service that was started.                             *)
Progress ==
  \/ /\ service = "dialogs" /\ DialogProgress
     /\ UNCHANGED <<service, sqliteVars, sessionVars, backendVars, retentionVars>>
  \/ /\ service = "sqlite" /\ SqliteProgress
     /\ UNCHANGED <<service, dialogVars, sessionVars, backendVars, retentionVars>>
  \/ /\ service = "session" /\ SessionProgress
     /\ UNCHANGED <<service, dialogVars, sqliteVars, backendVars, retentionVars>>

Spec == Init /\ [][Next]_vars /\ WF_vars(Progress)

(* Bound: of a failing save and a cancel only one happens to the registry.   *)
OneTrouble == unsaved = 0 \/ \A r \in AgentRun : cancelling[r] = "no"
-----------------------------------------------------------------------------
(* Every variable of the five services has its type.                         *)
TypesOK ==
  /\ DialogTypeOK /\ SqliteTypeOK /\ SessionTypeOK /\ BackendTypeOK
  /\ RetentionTypeOK
=============================================================================
