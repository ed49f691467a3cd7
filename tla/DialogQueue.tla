---------------------------- MODULE DialogQueue ----------------------------
(* The queue of modal dialogs (src/tui/dialog-queue.ts) as the prompts of    *)
(* select-with-message.ts and ask-user.ts use it.  Any tool call of the      *)
(* parent or of a child may ask for a dialog, with an abort signal and with  *)
(* an event bus or none; dialogs are shown one at a time in the order of     *)
(* arrival, a waiter whose signal aborts leaves, and each bus is told        *)
(* whether one of its dialogs is on screen.  An await that lets other code   *)
(* run separates two steps.                                                  *)
EXTENDS Naturals, Sequences, FiniteSets

CONSTANTS Dialog, Bus, NoBus

ASSUME DialogAssumption == NoBus \notin Bus

VARIABLES busOf,      \* the bus a dialog was asked for with
          pc,         \* where the call of withDialogQueue is
          aborted,    \* the signals that have fired
          line,       \* the dialogs in order of arrival: the chain dialogQueue
          released,   \* the dialogs that resolved their link of the chain
          pending,    \* pendingDialogs
          active,     \* dialogActiveStates
          working     \* the working indicator of the terminal is visible

dialogVars == <<busOf, pc, aborted, line, released, pending, active, working>>

Unasked == "unasked"
InLine == {"waiting", "granted", "refused"}
OnScreen == {"showing", "answered", "hidden"}
Position == {Unasked, "done"} \cup InLine \cup OnScreen

DialogInit ==
  /\ busOf \in [Dialog -> Bus \cup {NoBus}]
  /\ pc = [d \in Dialog |-> Unasked]
  /\ aborted = {}
  /\ line = <<>>
  /\ released = {}
  /\ pending = [b \in Bus |-> 0]
  /\ active = [b \in Bus |-> FALSE]
  /\ working = TRUE

Earlier(d) == {line[i] : i \in {j \in DOMAIN line : \E k \in DOMAIN line : j < k /\ line[k] = d}}

(* Counting a dialog in or out; without a bus nothing is counted.  A count   *)
(* never goes below zero.                                                    *)
Increment(d) == pending' = [b \in Bus |-> IF b = busOf[d] THEN pending[b] + 1 ELSE pending[b]]

(* The mistake of counting the shown dialog among those that wait.           *)
DecrementLate(d) == UNCHANGED pending

Decrement(d) ==
  pending' = [b \in Bus |-> IF b = busOf[d] /\ pending[b] > 0 THEN pending[b] - 1 ELSE pending[b]]

HasQueued(d) == busOf[d] \in Bus /\ pending[busOf[d]] > 0

(* The mistake of waiting only for the dialog that arrived last before it.   *)
TurnAfterLast(d) ==
  \A e \in Earlier(d) : (\A f \in Earlier(d) : e \notin Earlier(f)) => e \in released

(* The turn of a dialog comes when the whole chain before it has resolved.   *)
TurnOf(d) == Earlier(d) \subseteq released

(* The call: a caller that already aborted is answered at once.              *)
AskAborted(d) ==
  /\ pc[d] = Unasked /\ d \in aborted
  /\ pc' = [pc EXCEPT ![d] = "done"]
  /\ UNCHANGED <<busOf, aborted, line, released, pending, active, working>>

Ask(d) ==
  /\ pc[d] = Unasked /\ d \notin aborted
  /\ Increment(d)
  /\ line' = Append(line, d)
  /\ pc' = [pc EXCEPT ![d] = "waiting"]
  /\ UNCHANGED <<busOf, aborted, released, active, working>>

(* waitForTurn settles with the turn or with the signal, whichever is first. *)
TurnComes(d) ==
  /\ pc[d] = "waiting"
  /\ TurnOf(d)
  /\ pc' = [pc EXCEPT ![d] = "granted"]
  /\ UNCHANGED <<busOf, aborted, line, released, pending, active, working>>

AbortedTo(d) ==
  CASE pc[d] = "waiting" -> "refused"
    [] pc[d] = "showing" -> "answered"
    [] OTHER -> pc[d]

Abort(d) ==
  /\ d \notin aborted /\ pc[d] # "done"
  /\ aborted' = aborted \cup {d}
  /\ pc' = [pc EXCEPT ![d] = AbortedTo(d)]
  /\ UNCHANGED <<busOf, line, released, pending, active, working>>

(* The mistake of leaving without resolving the link of the chain.           *)
LeaveForgetting(d) ==
  /\ pc[d] = "refused" \/ (pc[d] = "granted" /\ d \in aborted)
  /\ Decrement(d)
  /\ pc' = [pc EXCEPT ![d] = "done"]
  /\ UNCHANGED <<busOf, aborted, line, released, active, working>>

(* The wait is over: a dialog whose signal fired by now leaves the line.     *)
Leave(d) ==
  /\ pc[d] = "refused" \/ (pc[d] = "granted" /\ d \in aborted)
  /\ Decrement(d)
  /\ released' = released \cup {d}
  /\ pc' = [pc EXCEPT ![d] = "done"]
  /\ UNCHANGED <<busOf, aborted, line, active, working>>

Show(d) ==
  /\ pc[d] = "granted" /\ d \notin aborted
  /\ Decrement(d)
  /\ active' = [b \in Bus |-> IF b = busOf[d] THEN TRUE ELSE active[b]]
  /\ working' = FALSE
  /\ pc' = [pc EXCEPT ![d] = "showing"]
  /\ UNCHANGED <<busOf, aborted, line, released>>

(* The user chooses, or the component fails.                                 *)
Answer(d) ==
  /\ pc[d] = "showing"
  /\ pc' = [pc EXCEPT ![d] = "answered"]
  /\ UNCHANGED <<busOf, aborted, line, released, pending, active, working>>

(* The end of show: the indicator comes back unless a dialog of the bus is   *)
(* queued, which would hide it again.                                        *)
Hide(d) ==
  /\ pc[d] = "answered"
  /\ working' = IF HasQueued(d) THEN working ELSE TRUE
  /\ pc' = [pc EXCEPT ![d] = "hidden"]
  /\ UNCHANGED <<busOf, aborted, line, released, pending, active>>

(* The end of withDialogQueue: the bus is told unless another of its dialogs *)
(* is queued, which would tell it otherwise at once.                         *)
Finish(d) ==
  /\ pc[d] = "hidden"
  /\ active' = [b \in Bus |-> IF b = busOf[d] /\ ~HasQueued(d) THEN FALSE ELSE active[b]]
  /\ released' = released \cup {d}
  /\ pc' = [pc EXCEPT ![d] = "done"]
  /\ UNCHANGED <<busOf, aborted, line, pending, working>>

DialogNext ==
  \E d \in Dialog :
    \/ AskAborted(d)
    \/ Ask(d)
    \/ TurnComes(d)
    \/ Abort(d)
    \/ Leave(d)
    \/ Show(d)
    \/ Answer(d)
    \/ Hide(d)
    \/ Finish(d)

(* Every step but the caller's and the signal's is a callback the event loop *)
(* runs in the end; the user answers, too.                                   *)
DialogProgress ==
  \E d \in Dialog : TurnComes(d) \/ Leave(d) \/ Show(d) \/ Answer(d) \/ Hide(d) \/ Finish(d)

DialogFairness == WF_dialogVars(DialogProgress)

DialogSpec == DialogInit /\ [][DialogNext]_dialogVars /\ DialogFairness
-----------------------------------------------------------------------------
DialogTypeOK ==
  /\ busOf \in [Dialog -> Bus \cup {NoBus}]
  /\ pc \in [Dialog -> Position]
  /\ aborted \subseteq Dialog
  /\ line \in Seq(Dialog)
  /\ released \subseteq Dialog
  /\ pending \in [Bus -> Nat]
  /\ active \in [Bus -> BOOLEAN]
  /\ working \in BOOLEAN

(* Two dialogs are never on screen together, whatever aborts while they      *)
(* wait, and one that waited longer is never overtaken: "Aborted queued      *)
(* callers return immediately without allowing later dialogs to overtake the *)
(* currently displayed one."                                                 *)
OneOnScreen ==
  \A d \in Dialog : pc[d] \in OnScreen =>
    /\ \A e \in Dialog \ {d} : pc[e] \notin OnScreen
    /\ \A e \in Earlier(d) : pc[e] = "done"

(* While a dialog is on screen its bus says so and the indicator is hidden,  *)
(* although dialogs of this and of other buses end, abort and queue up; with *)
(* nobody asking, and if no signal has fired, no bus believes that a dialog  *)
(* is on screen and the indicator is back.                                   *)
ScreenAnnounced ==
  /\ \A d \in Dialog :
       pc[d] \in {"showing", "answered"} =>
         ~working /\ (busOf[d] \in Bus => active[busOf[d]])
  /\ (aborted = {} /\ \A d \in Dialog : pc[d] \in {Unasked, "done"}) =>
       working /\ \A b \in Bus : ~active[b]

(* Everyone in line is served in the end, or leaves it: a dialog asks once,  *)
(* so that a line which empties whenever somebody is in it leaves nobody     *)
(* waiting, whoever aborted before or after them.                            *)
EveryoneServed ==
  (\E d \in Dialog : pc[d] \in InLine \cup OnScreen)
    ~> (\A d \in Dialog : pc[d] \in {Unasked, "done"})
=============================================================================
