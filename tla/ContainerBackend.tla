-------------------------- MODULE ContainerBackend --------------------------
(* The cache of container sessions of one runtime (modules/sandbox/          *)
(* container/index.ts): a command asks for the container of its session and  *)
(* working directory, which is started if there is none; a rebuilt image or  *)
(* an edited configuration makes all containers stale and replaces the one   *)
(* of the session that asked; a session switch tears all of them down and    *)
(* the end of the runtime closes it.  A container carries the name of its    *)
(* session, which podman gives to one container at a time.                   *)
EXTENDS Naturals, FiniteSets

CONSTANTS Key,        \* session and working directory; a session has one, so
                      \* that a key has a name of its own
          Box,        \* containers that may be started
          NoBox, NoKey,
          MaxReloads

ASSUME BackendAssumption ==
  NoBox \notin Box /\ NoKey \notin Key /\ MaxReloads \in Nat

VARIABLES sessions,   \* Key -> the cached container
          stale,      \* the cached containers that a rebuild has outlived
          keyOf,      \* what a container was started for
          start,      \* the promise of startSession
          podman,       \* the container itself: "none", "up", "gone"
          unwanted,   \* the containers whose close() follows their start
          reaped,     \* what the running teardown waits for
          backend,    \* "open", "closing", "closed"
          reloads

backendVars == <<sessions, stale, keyOf, start, podman, unwanted, reaped, backend, reloads>>

BackendInit ==
  /\ sessions = [k \in Key |-> NoBox]
  /\ stale = {}
  /\ keyOf = [b \in Box |-> NoKey]
  /\ start = [b \in Box |-> "unused"]
  /\ podman = [b \in Box |-> "none"]
  /\ unwanted = {}
  /\ reaped = {}
  /\ backend = "open"
  /\ reloads = 0

Cached == {sessions[k] : k \in Key} \ {NoBox}
Fresh == {b \in Box : start[b] = "unused"}
NameTaken(k) == \E b \in Box : keyOf[b] = k /\ podman[b] = "up"

(* sessionFor: the cached container, or a new one in the place of a stale or *)
(* missing one; the stale one is closed once it has started.                 *)
Usable(k, old) == sessions[k] # NoBox /\ sessions[k] \notin old

(* The mistake of forgetting the container that is replaced.                 *)
StartForForgetting(k, old) ==
  /\ Fresh # {}
  /\ LET b == CHOOSE x \in Fresh : TRUE IN
       /\ sessions' = [sessions EXCEPT ![k] = b]
       /\ keyOf' = [keyOf EXCEPT ![b] = k]
       /\ start' = [start EXCEPT ![b] = "preparing"]
  /\ stale' = old \ {sessions[k]}
  /\ UNCHANGED unwanted

StartFor(k, old) ==
  /\ Fresh # {}
  /\ LET b == CHOOSE x \in Fresh : TRUE IN
       /\ sessions' = [sessions EXCEPT ![k] = b]
       /\ keyOf' = [keyOf EXCEPT ![b] = k]
       /\ start' = [start EXCEPT ![b] = "preparing"]
  /\ unwanted' = unwanted \cup ({sessions[k]} \ {NoBox})
  /\ stale' = old \ {sessions[k]}

(* After close a command fails rather than start what nobody reaps.          *)
MayStart == backend = "open"

Command(k) ==
  /\ MayStart /\ ~Usable(k, stale)
  /\ StartFor(k, stale)
  /\ UNCHANGED <<podman, reaped, backend, reloads>>

(* adoptImage and reloadConfig: everything is stale, and the container of    *)
(* the session that asked is replaced at once.                               *)
Reload(k) ==
  /\ MayStart /\ reloads < MaxReloads
  /\ reloads' = reloads + 1
  /\ StartFor(k, Cached)
  /\ UNCHANGED <<podman, reaped, backend>>

(* The mistake of a failed start that takes the entry of its successor along.*)
ForgetKey(b) == sessions' = [sessions EXCEPT ![keyOf[b]] = NoBox]

(* startSession up to podman: the checks of the host, the mounts, the image. *)
Forget(b) == sessions' = [k \in Key |-> IF sessions[k] = b THEN NoBox ELSE sessions[k]]

StartFails(b) ==
  /\ start' = [start EXCEPT ![b] = "failed"]
  /\ Forget(b)
  /\ stale' = stale \ {b}

PreparationFails(b) ==
  /\ start[b] = "preparing"
  /\ StartFails(b)
  /\ UNCHANGED <<keyOf, podman, unwanted, reaped, backend, reloads>>

Launched(b) ==
  /\ start[b] = "preparing" /\ ~NameTaken(keyOf[b])
  /\ start' = [start EXCEPT ![b] = "launched"]
  /\ podman' = [podman EXCEPT ![b] = "up"]
  /\ UNCHANGED <<sessions, stale, keyOf, unwanted, reaped, backend, reloads>>

(* podman refuses the name, or the container exits before it is ready.       *)
ExitsAtOnce(b) ==
  /\ start[b] = "preparing" \/ (start[b] = "launched" /\ podman[b] = "up")
  /\ podman' = [podman EXCEPT ![b] = "gone"]
  /\ StartFails(b)
  /\ UNCHANGED <<keyOf, unwanted, reaped, backend, reloads>>

IsReady(b) ==
  /\ start[b] = "launched" /\ podman[b] = "up"
  /\ start' = [start EXCEPT ![b] = "ready"]
  /\ UNCHANGED <<sessions, stale, keyOf, podman, unwanted, reaped, backend, reloads>>

(* The start takes too long: its promise is rejected, the container is not   *)
(* stopped.                                                                  *)
StartTimesOut(b) ==
  /\ start[b] = "launched"
  /\ StartFails(b)
  /\ UNCHANGED <<keyOf, podman, unwanted, reaped, backend, reloads>>

Dies(b) ==
  /\ start[b] \in {"ready", "failed"} /\ podman[b] = "up"
  /\ podman' = [podman EXCEPT ![b] = "gone"]
  /\ UNCHANGED <<sessions, stale, keyOf, start, unwanted, reaped, backend, reloads>>

(* close() of a container that is ready; see ContainerSession.               *)
Reaps(b) ==
  /\ b \in unwanted /\ start[b] = "ready" /\ podman[b] = "up"
  /\ podman' = [podman EXCEPT ![b] = "gone"]
  /\ UNCHANGED <<sessions, stale, keyOf, start, unwanted, reaped, backend, reloads>>

(* tearDownContainers: on a session switch, and at the end with the backend  *)
(* closed first.                                                             *)
TearDown ==
  /\ reaped = {}
  /\ reaped' = Cached
  /\ unwanted' = unwanted \cup Cached
  /\ sessions' = [k \in Key |-> NoBox]
  /\ stale' = {}

SessionShutdown ==
  /\ backend = "open" /\ Cached # {}
  /\ TearDown
  /\ UNCHANGED <<keyOf, start, podman, backend, reloads>>

CloseAll ==
  /\ backend = "open"
  /\ backend' = "closing"
  /\ TearDown
  /\ UNCHANGED <<keyOf, start, podman, reloads>>

(* The container of a start that is over, one way or the other.              *)
Settled(b) == start[b] = "failed" \/ (start[b] = "ready" /\ podman[b] = "gone")

TornDown ==
  /\ reaped # {} \/ backend = "closing"
  /\ \A b \in reaped : Settled(b)
  /\ reaped' = {}
  /\ backend' = IF backend = "closing" THEN "closed" ELSE backend
  /\ UNCHANGED <<sessions, stale, keyOf, start, podman, unwanted, reloads>>

BackendNext ==
  \/ \E k \in Key : Command(k)
  \/ \E k \in Key : Reload(k)
  \/ \E b \in Box : PreparationFails(b)
  \/ \E b \in Box : Launched(b)
  \/ \E b \in Box : ExitsAtOnce(b)
  \/ \E b \in Box : IsReady(b)
  \/ \E b \in Box : StartTimesOut(b)
  \/ \E b \in Box : Dies(b)
  \/ \E b \in Box : Reaps(b)
  \/ SessionShutdown
  \/ CloseAll
  \/ TornDown

BackendSpec == BackendInit /\ [][BackendNext]_backendVars
-----------------------------------------------------------------------------
BackendTypeOK ==
  /\ sessions \in [Key -> Box \cup {NoBox}]
  /\ stale \subseteq Cached
  /\ keyOf \in [Box -> Key \cup {NoKey}]
  /\ start \in [Box -> {"unused", "preparing", "launched", "ready", "failed"}]
  /\ podman \in [Box -> {"none", "up", "gone"}]
  /\ unwanted \subseteq Box /\ reaped \subseteq unwanted
  /\ backend \in {"open", "closing", "closed"}
  /\ reloads \in 0..MaxReloads

(* Every container that is up or on its way is the cached one of its session *)
(* or will be closed, so that a reload, a session switch and the end of the  *)
(* runtime in the middle of a start leave none behind: no command starts a   *)
(* container that nothing reaps, and no start takes another's entry along.   *)
(* The exception is a start that timed out: nobody knows its container.      *)
NoneUnowned ==
  \A b \in Box :
    (start[b] \in {"preparing", "launched", "ready"} /\ podman[b] # "gone") =>
      sessions[keyOf[b]] = b \/ b \in unwanted
=============================================================================
