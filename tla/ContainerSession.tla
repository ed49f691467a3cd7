-------------------------- MODULE ContainerSession --------------------------
(* One container session: the client on the host (modules/sandbox/container/ *)
(* client.ts), the dispatcher that is the main process of the container      *)
(* (dispatch.mjs), and the two pipes between them.  Commands and file        *)
(* requests carry an id and are answered in any order; a command can be      *)
(* aborted, the container can go away at any moment, and the session can be  *)
(* closed while requests are under way.                                      *)
EXTENDS Naturals, Sequences, FiniteSets

CONSTANTS Request,
          NoId,       \* the id of a request that was never sent
          MaxGarbage  \* how many lines the host cannot read

ASSUME SessionAssumption ==
  NoId \notin Nat /\ IsFiniteSet(Request) /\ MaxGarbage \in Nat

VARIABLES kind,       \* "exec" (exec and spawn) or "fs"
          request,    \* what the caller of a request knows of it
          id,         \* the id it was sent with
          nextId,
          signalled,  \* the commands whose signal has fired
          backstop,   \* the commands whose abort backstop is armed
          ready,      \* the start of the session: awaitReady
          shut,       \* the client's closed
          stopping,    \* closeOnce: "no", "waiting" for the exit, "done"
          exitSeen,   \* the child's exit event was handled
          late,       \* requests sent after that
          toBox,      \* the dispatcher's stdin, message by message
          toHost,     \* its stdout
          box,        \* the dispatcher: "booting", "up", "leaving", "gone"
          running,    \* id -> process, as the dispatcher keeps it
          files,      \* the file requests it works on
          garbage     \* unreadable lines so far

sessionVars == <<kind, request, id, nextId, signalled, backstop, ready, shut, stopping,
                 exitSeen, late, toBox, toHost, box, running, files, garbage>>

host == <<kind, request, id, nextId, signalled, backstop, ready, shut, stopping, exitSeen, late>>
inside == <<box, running, files, garbage>>

Id == 1..Cardinality(Request)
Pending == {r \in Request : request[r] = "pending"}
Message(what, i, r) == [what |-> what, id |-> i, of |-> r]
Idle == [of |-> "nobody", at |-> "idle"]

SessionInit ==
  /\ kind \in [Request -> {"exec", "fs"}]
  /\ request = [r \in Request |-> "idle"]
  /\ id = [r \in Request |-> NoId]
  /\ nextId = 1
  /\ signalled = {} /\ backstop = {}
  /\ ready = "awaited"
  /\ shut = FALSE /\ stopping = "no"
  /\ exitSeen = FALSE /\ late = {}
  /\ toBox = <<>> /\ toHost = <<>>
  /\ box = "booting"
  /\ running = [i \in Id |-> Idle]
  /\ files = {} /\ garbage = 0
-----------------------------------------------------------------------------
(* The client.                                                               *)

(* A closed session sends nothing, and what is written to a container that   *)
(* is gone is lost without an error: its stdin was destroyed with it.        *)
Send(m) == toBox' = IF shut \/ box = "gone" THEN toBox ELSE Append(toBox, m)

(* The mistake of numbering requests by how many are under way.              *)
ReusedId == 1 + Cardinality(Pending)

NewId == nextId

(* exec, spawn and fs of a session that has been handed out.                 *)
Refused(r) ==
  /\ request[r] = "idle" /\ ready = "ready"
  /\ shut \/ (kind[r] = "exec" /\ r \in signalled)
  /\ request' = [request EXCEPT ![r] = "rejected"]
  /\ UNCHANGED <<kind, id, nextId, signalled, backstop, ready, shut, stopping, exitSeen, late,
                 toBox, toHost, inside>>

Issue(r) ==
  /\ request[r] = "idle" /\ ready = "ready"
  /\ ~shut /\ r \notin signalled
  /\ request' = [request EXCEPT ![r] = "pending"]
  /\ id' = [id EXCEPT ![r] = NewId]
  /\ nextId' = nextId + 1
  /\ late' = IF exitSeen THEN late \cup {r} ELSE late
  /\ Send(Message(kind[r], NewId, r))
  /\ UNCHANGED <<kind, signalled, backstop, ready, shut, stopping, exitSeen, toHost, inside>>

(* The mistake of leaving the answer to the dispatcher alone.                *)
SignalTrusting(r) ==
  /\ kind[r] = "exec" /\ r \notin signalled
  /\ request[r] \in {"idle", "pending"}
  /\ signalled' = signalled \cup {r}
  /\ IF request[r] = "pending" THEN Send(Message("cancel", id[r], r)) ELSE UNCHANGED toBox
  /\ UNCHANGED <<kind, request, id, nextId, backstop, ready, shut, stopping, exitSeen, late,
                 toHost, inside>>

(* The signal of a command fires: the dispatcher is told, once, and the      *)
(* backstop is armed in case it does not answer.                             *)
Signal(r) ==
  /\ kind[r] = "exec" /\ r \notin signalled
  /\ request[r] \in {"idle", "pending"}
  /\ signalled' = signalled \cup {r}
  /\ IF request[r] = "pending"
     THEN backstop' = backstop \cup {r} /\ Send(Message("cancel", id[r], r))
     ELSE UNCHANGED <<backstop, toBox>>
  /\ UNCHANGED <<kind, request, id, nextId, ready, shut, stopping, exitSeen, late, toHost, inside>>

(* settle: a request is answered once; its backstop goes with it.            *)
Settles(S, how) ==
  /\ request' = [r \in Request |-> IF r \in S THEN how ELSE request[r]]
  /\ backstop' = backstop \ S

Backstop(r) ==
  /\ r \in backstop
  /\ Settles({r}, "rejected")
  /\ UNCHANGED <<kind, id, nextId, signalled, ready, shut, stopping, exitSeen, late, toBox,
                 toHost, inside>>

(* The mistake of failing the commands but not the file requests.            *)
FailCommands == {r \in Pending : kind[r] = "exec"}

FailAll == Pending

StartTimeout ==
  /\ ready = "awaited"
  /\ ready' = "failed"
  /\ UNCHANGED <<kind, request, id, nextId, signalled, backstop, shut, stopping, exitSeen, late,
                 toBox, toHost, inside>>

(* The pending request an answer is for: file requests are looked up first.  *)
Answered(i) == {r \in Pending : id[r] = i}

ReceiveReady ==
  /\ toHost # <<>> /\ Head(toHost).what = "ready"
  /\ toHost' = Tail(toHost)
  /\ ready' = IF ready = "awaited" THEN "ready" ELSE ready
  /\ UNCHANGED <<kind, request, id, nextId, signalled, backstop, shut, stopping, exitSeen, late,
                 toBox, inside>>

(* A result, or an error that names its request.                             *)
ReceiveAnswer ==
  /\ toHost # <<>> /\ Head(toHost).what \in {"result", "error"}
  /\ toHost' = Tail(toHost)
  /\ Settles(Answered(Head(toHost).id),
             IF Head(toHost).what = "result" THEN "resolved" ELSE "rejected")
  /\ UNCHANGED <<kind, id, nextId, signalled, ready, shut, stopping, exitSeen, late, toBox, inside>>

(* A line that is no message, or an answer without a request.                *)
ReceiveGarbage ==
  /\ toHost # <<>> /\ Head(toHost).what = "garbage"
  /\ toHost' = Tail(toHost)
  /\ Settles(FailAll, "rejected")
  /\ UNCHANGED <<kind, id, nextId, signalled, ready, shut, stopping, exitSeen, late, toBox, inside>>

(* The child's exit event; a closed session has failed everything already.   *)
SeeExit ==
  /\ box = "gone" /\ ~exitSeen
  /\ exitSeen' = TRUE
  /\ IF shut THEN UNCHANGED <<request, backstop, ready>>
     ELSE /\ Settles(FailAll, "rejected")
          /\ ready' = IF ready = "awaited" THEN "failed" ELSE ready
  /\ UNCHANGED <<kind, id, nextId, signalled, shut, stopping, late, toBox, toHost, inside>>

Close ==
  /\ ready = "ready" /\ stopping = "no"
  /\ shut' = TRUE /\ stopping' = "waiting"
  /\ Settles(FailAll, "rejected")
  /\ UNCHANGED <<kind, id, nextId, signalled, ready, exitSeen, late, toBox, toHost, inside>>

CloseReturns ==
  /\ stopping = "waiting" /\ box = "gone"
  /\ stopping' = "done"
  /\ UNCHANGED <<kind, request, id, nextId, signalled, backstop, ready, shut, exitSeen, late,
                 toBox, toHost, inside>>

-----------------------------------------------------------------------------
(* The dispatcher.  Once it leaves it writes nothing.                        *)
Write(m) == toHost' = IF box = "up" THEN Append(toHost, m) ELSE toHost

(* The exit takes too long: the attached client is killed and the container  *)
(* removed by name.                                                          *)
CloseByForce ==
  /\ stopping = "waiting" /\ box # "gone"
  /\ stopping' = "done"
  /\ box' = "gone" /\ running' = [i \in Id |-> Idle] /\ files' = {}
  /\ toBox' = <<>>
  /\ UNCHANGED <<kind, request, id, nextId, signalled, backstop, ready, shut, exitSeen, late, toHost, garbage>>

Boot ==
  /\ box = "booting"
  /\ box' = "up"
  /\ toHost' = Append(toHost, Message("ready", NoId, "nobody"))
  /\ UNCHANGED <<host, toBox, running, files, garbage>>

Taken(what) == box = "up" /\ toBox # <<>> /\ Head(toBox).what = what

(* launch: a command becomes a process group of its own; a missing working   *)
(* directory or a failing spawn is answered at once.                         *)
Launch ==
  /\ Taken("exec")
  /\ LET m == Head(toBox) IN
       /\ running[m.id] = Idle
       /\ running' = [running EXCEPT ![m.id] = [of |-> m.of, at |-> "runs"]]
  /\ toBox' = Tail(toBox)
  /\ UNCHANGED <<host, toHost, box, files, garbage>>

LaunchFails ==
  /\ Taken("exec")
  /\ LET m == Head(toBox) IN Write(Message("error", m.id, m.of))
  /\ toBox' = Tail(toBox)
  /\ UNCHANGED <<host, inside>>

TakeFile ==
  /\ Taken("fs")
  /\ files' = files \cup {[of |-> Head(toBox).of, id |-> Head(toBox).id]}
  /\ toBox' = Tail(toBox)
  /\ UNCHANGED <<host, toHost, box, running, garbage>>

FileDone(f) ==
  /\ box = "up" /\ f \in files
  /\ files' = files \ {f}
  /\ \E what \in {"result", "error"} : Write(Message(what, f.id, f.of))
  /\ UNCHANGED <<host, toBox, box, running, garbage>>

(* cancel: SIGTERM to the process group, SIGKILL after a grace.              *)
Canceled(p) == IF p.at = "runs" THEN [of |-> p.of, at |-> "told"] ELSE p

TakeCancel ==
  /\ Taken("cancel")
  /\ running' = [running EXCEPT ![Head(toBox).id] = Canceled(@)]
  /\ toBox' = Tail(toBox)
  /\ UNCHANGED <<host, toHost, box, files, garbage>>

(* A command ends by itself, at its timeout, or because it was told to.      *)
Ends(i) ==
  /\ box = "up" /\ running[i].at \in {"runs", "told"}
  /\ running' = [running EXCEPT ![i] = [of |-> @.of, at |-> "ended"]]
  /\ UNCHANGED <<host, toBox, toHost, box, files, garbage>>

(* finalize: its pipes ended or fell idle.                                   *)
Finalize(i) ==
  /\ box = "up" /\ running[i].at = "ended"
  /\ Write(Message("result", i, running[i].of))
  /\ running' = [running EXCEPT ![i] = Idle]
  /\ UNCHANGED <<host, toBox, box, files, garbage>>

(* shutdown, at the end of stdin or a signal: kill everything and leave.     *)
Shutdown ==
  /\ box = "up" /\ shut /\ toBox = <<>>
  /\ box' = IF \A i \in Id : running[i] = Idle THEN "gone" ELSE "leaving"
  /\ running' = [i \in Id |-> Idle]
  /\ files' = {}
  /\ UNCHANGED <<host, toBox, toHost, garbage>>

Leaves ==
  /\ box = "leaving"
  /\ box' = "gone"
  /\ UNCHANGED <<host, toBox, toHost, running, files, garbage>>

(* The container stops, is removed, or runs out of memory.                   *)
Die ==
  /\ box \in {"booting", "up"}
  /\ box' = "gone" /\ running' = [i \in Id |-> Idle] /\ files' = {}
  /\ toBox' = <<>>
  /\ UNCHANGED <<host, toHost, garbage>>

(* A line the host cannot read, or an answer that names no request.          *)
Garble ==
  /\ box # "gone" /\ garbage < MaxGarbage
  /\ garbage' = garbage + 1
  /\ toHost' = Append(toHost, Message("garbage", NoId, "nobody"))
  /\ UNCHANGED <<host, toBox, box, running, files>>

SessionNext ==
  \/ \E r \in Request : Refused(r)
  \/ \E r \in Request : Issue(r)
  \/ \E r \in Request : Signal(r)
  \/ \E r \in Request : Backstop(r)
  \/ StartTimeout
  \/ ReceiveReady
  \/ ReceiveAnswer
  \/ ReceiveGarbage
  \/ SeeExit
  \/ Close
  \/ CloseReturns
  \/ CloseByForce
  \/ Boot
  \/ Launch
  \/ LaunchFails
  \/ TakeFile
  \/ \E f \in files : FileDone(f)
  \/ TakeCancel
  \/ \E i \in Id : Ends(i)
  \/ \E i \in Id : Finalize(i)
  \/ Shutdown
  \/ Leaves
  \/ Die
  \/ Garble

(* The event loops of both sides and the timers run, as long as they have    *)
(* anything to do; nothing is assumed of a command that was not canceled, of *)
(* a file operation or of the callers.                                       *)
SessionProgress ==
  \/ ReceiveReady \/ ReceiveAnswer \/ ReceiveGarbage
  \/ SeeExit
  \/ CloseReturns \/ CloseByForce
  \/ \E r \in Request : Backstop(r)
  \/ Launch \/ LaunchFails \/ TakeFile \/ TakeCancel
  \/ \E i \in Id : (running[i].at = "told" /\ Ends(i)) \/ Finalize(i)

SessionFairness == WF_sessionVars(SessionProgress)

SessionSpec == SessionInit /\ [][SessionNext]_sessionVars /\ SessionFairness
-----------------------------------------------------------------------------
Messages == [what : {"ready", "result", "error", "garbage", "exec", "fs", "cancel"},
             id : Id \cup {NoId}, of : Request \cup {"nobody"}]

SessionTypeOK ==
  /\ kind \in [Request -> {"exec", "fs"}]
  /\ request \in [Request -> {"idle", "pending", "resolved", "rejected"}]
  /\ id \in [Request -> Id \cup {NoId}]
  /\ nextId \in 1..Cardinality(Request) + 1
  /\ signalled \subseteq Request /\ backstop \subseteq Pending /\ late \subseteq Request
  /\ ready \in {"awaited", "ready", "failed"}
  /\ shut \in BOOLEAN /\ exitSeen \in BOOLEAN
  /\ stopping \in {"no", "waiting", "done"}
  /\ toBox \in Seq(Messages) /\ toHost \in Seq(Messages)
  /\ box \in {"booting", "up", "leaving", "gone"}
  /\ running \in [Id -> [of : Request \cup {"nobody"}, at : {"idle", "runs", "told", "ended"}]]
  /\ files \subseteq [of : Request, id : Id]
  /\ garbage \in 0..MaxGarbage

(* A request is resolved with the answer to itself, although answers come in *)
(* any order and also for requests that were given up, by the backstop, an   *)
(* unreadable line or an exit, before their command ended.                   *)
OwnAnswer ==
  [][\A r \in Request :
       (request[r] = "pending" /\ request'[r] = "resolved") => Head(toHost).of = r]_sessionVars

(* Nobody waits for an answer that cannot come: a closed session has         *)
(* answered everyone, and an exit answers every request, of either kind,     *)
(* that was sent before it.                                                  *)
NobodyForgotten ==
  /\ shut => Pending = {}
  /\ exitSeen => Pending \subseteq late

(* The same for requests sent after the exit: "A dead pipe surfaces through  *)
(* the child 'exit' handler, which owns the error path."  Violated.          *)
ExitOwnsErrors == exitSeen => Pending = {}

(* The commands that were aborted and still have a caller or a process.      *)
AbortedAtWork ==
  {r \in signalled : request[r] = "pending" \/ \E i \in Id : running[i].of = r}

(* An aborted command is answered even if the dispatcher is wedged or gone,  *)
(* and its process is stopped, also when the caller was answered before, by  *)
(* the backstop, an unreadable line or a close; and a session that is closed *)
(* leaves no process.                                                        *)
AbortEnds ==
  (AbortedAtWork # {} \/ stopping = "waiting")
    ~> (AbortedAtWork = {} /\ (stopping # "no" => \A i \in Id : running[i] = Idle))
=============================================================================
