--------------------------- MODULE DeviceActions ---------------------------
(***************************************************************************)
(* One visit to the page that configures a device: the queue of management *)
(* actions that DeviceActionExecutor builds, and the runs of it that the   *)
(* backend executes one action after the other.                            *)
(*                                                                         *)
(* Adding an action with a file reads the file first; the rest of the      *)
(* handler then goes on with the queue as it was at the click.  An answer  *)
(* may be lost while the backend goes on with its run.                     *)
(*                                                                         *)
(* Data: of a payload only the action it was given for is kept; of a       *)
(* result the item and whether it succeeded.  The profile's actions do not *)
(* change during the visit.                                                *)
(***************************************************************************)
EXTENDS Naturals, Sequences, SequencesExt

CONSTANTS PayloadType,   \* of each management action
          NONE,
          MaxItems,      \* bound on the items added
          MaxRuns        \* bound on the runs started

VARIABLES selectedAction,
          payload,       \* per input: the action it was given for, NONE when it is empty
          reading,       \* files being read: the item, and the queue at the click
          sequence,
          executing,     \* the run whose answer the page awaits, 0 for none
          results,
          runs,          \* what the backend was asked to run, and its results so far
          items,         \* items numbered so far
          changed        \* ghost: the queue has changed since the last run was started

vars == <<selectedAction, payload, reading, sequence, executing, results, runs, items, changed>>

Actions == DOMAIN PayloadType
Inputs == {"text/json", "text/plain", "file"}
Needs(a) == PayloadType[a] \in Inputs

NoPayload == [i \in Inputs |-> NONE]
Client == [item |-> 0, ok |-> FALSE]      \* the one result of a request that failed

Init ==
  /\ selectedAction = NONE /\ payload = NoPayload /\ reading = {}
  /\ sequence = <<>> /\ results = <<>>
  /\ executing = 0 /\ runs = <<>> /\ items = 0 /\ changed = FALSE

ResetInputs == selectedAction' = NONE /\ payload' = NoPayload

-----------------------------------------------------------------------------
(* The builder of the queue.                                               *)

\* Mutant: what was given for another action stays in the inputs.
SelectActionKeepsPayload(a) ==
  /\ selectedAction' = a
  /\ UNCHANGED <<payload, reading, sequence, executing, results, runs, items, changed>>

SelectAction(a) ==
  /\ selectedAction' = a /\ payload' = NoPayload
  /\ UNCHANGED <<reading, sequence, executing, results, runs, items, changed>>

(* The input that the selected action asks for.                            *)
GivePayload ==
  /\ selectedAction # NONE /\ Needs(selectedAction)
  /\ payload' = [payload EXCEPT ![PayloadType[selectedAction]] = selectedAction]
  /\ UNCHANGED <<selectedAction, reading, sequence, executing, results, runs, items, changed>>

NewItem == [id |-> items + 1, action |-> selectedAction,
            payload |-> IF Needs(selectedAction) THEN payload[PayloadType[selectedAction]] ELSE NONE]

CanAdd == /\ selectedAction # NONE /\ executing = 0 /\ items < MaxItems
          /\ Needs(selectedAction) => payload[PayloadType[selectedAction]] # NONE

AddToActionList ==
  /\ CanAdd /\ PayloadType[selectedAction] # "file"
  /\ sequence' = Append(sequence, NewItem) /\ items' = items + 1
  /\ ResetInputs /\ changed' = TRUE
  /\ UNCHANGED <<reading, executing, results, runs>>

(* The handler awaits the reader; the button stays enabled.                *)
StartReading ==
  /\ CanAdd /\ PayloadType[selectedAction] = "file"
  /\ reading' = reading \union {[item |-> NewItem, queue |-> sequence]} /\ items' = items + 1
  /\ UNCHANGED <<selectedAction, payload, sequence, executing, results, runs, changed>>

FileRead(r) ==
  /\ reading' = reading \ {r}
  /\ sequence' = Append(r.queue, r.item)
  /\ ResetInputs /\ changed' = TRUE
  /\ UNCHANGED <<executing, results, runs, items>>

FileUnreadable(r) ==
  /\ reading' = reading \ {r}
  /\ UNCHANGED <<selectedAction, payload, sequence, executing, results, runs, items, changed>>

(* The bin of an item works while the queue is executed, too.              *)
RemoveFromList(i) ==
  /\ sequence' = RemoveAt(sequence, i) /\ changed' = TRUE
  /\ UNCHANGED <<selectedAction, payload, reading, executing, results, runs, items>>

-----------------------------------------------------------------------------
(* The main button: it starts a run, or clears away the last one.          *)

ExecuteSequence ==
  /\ sequence # <<>> /\ executing = 0 /\ results = <<>> /\ Len(runs) < MaxRuns
  /\ runs' = Append(runs, [todo |-> sequence, done |-> <<>>])
  /\ executing' = Len(runs) + 1 /\ changed' = FALSE
  /\ UNCHANGED <<selectedAction, payload, reading, sequence, results, items>>

SetDefaultState ==
  /\ sequence # <<>> /\ executing = 0 /\ results # <<>>
  /\ results' = <<>> /\ sequence' = <<>> /\ ResetInputs /\ changed' = TRUE
  /\ UNCHANGED <<reading, executing, runs, items>>

(* The answer has all results; an error in its place is one failed result. *)
Answered ==
  /\ executing # 0 /\ runs[executing].todo = <<>> /\ runs[executing].done # <<>>
  /\ results' = runs[executing].done /\ executing' = 0
  /\ UNCHANGED <<selectedAction, payload, reading, sequence, runs, items, changed>>

AnswerLost ==
  /\ executing # 0
  /\ results' = <<Client>> /\ executing' = 0
  /\ UNCHANGED <<selectedAction, payload, reading, sequence, runs, items, changed>>

-----------------------------------------------------------------------------
(* ConfigController on run r: the next action; the first that fails (or    *)
(* that the profile does not have as a management action) is the last.     *)
Unfinished(r) == r \in DOMAIN runs /\ runs[r].todo # <<>>

\* Mutant: the run goes on after a failure.
ActionResultGoesOn(r, ok) ==
  [todo |-> Tail(runs[r].todo),
   done |-> Append(runs[r].done, [item |-> Head(runs[r].todo).id, ok |-> ok])]

ActionResult(r, ok) ==
  [todo |-> IF ok THEN Tail(runs[r].todo) ELSE <<>>,
   done |-> Append(runs[r].done, [item |-> Head(runs[r].todo).id, ok |-> ok])]

ExecuteAction(r) ==
  /\ Unfinished(r)
  /\ \E ok \in BOOLEAN : runs' = [runs EXCEPT ![r] = ActionResult(r, ok)]
  /\ UNCHANGED <<selectedAction, payload, reading, sequence, executing, results, items, changed>>

(* The device or its profile is gone: the request is refused.              *)
Refused(r) ==
  /\ Unfinished(r) /\ runs[r].done = <<>>
  /\ runs' = [runs EXCEPT ![r].todo = <<>>]
  /\ \/ executing = r /\ results' = <<Client>> /\ executing' = 0
     \/ executing # r /\ UNCHANGED <<results, executing>>
  /\ UNCHANGED <<selectedAction, payload, reading, sequence, items, changed>>

-----------------------------------------------------------------------------
Next ==
  \/ \E a \in Actions : SelectAction(a)
  \/ GivePayload \/ AddToActionList \/ StartReading
  \/ \E r \in reading : FileRead(r) \/ FileUnreadable(r)
  \/ \E i \in DOMAIN sequence : RemoveFromList(i)
  \/ ExecuteSequence \/ SetDefaultState \/ Answered \/ AnswerLost
  \/ \E r \in 1..MaxRuns : ExecuteAction(r) \/ Refused(r)

Spec == Init /\ [][Next]_vars

-----------------------------------------------------------------------------
(* Every item in the queue or under way to the device carries the payload  *)
(* that was given for its own action, although inputs of several actions   *)
(* share the form and a file arrives after the form was used for another.  *)
PayloadOfItsAction ==
  \A q \in {sequence} \union {runs[r].todo : r \in DOMAIN runs} :
    \A i \in DOMAIN q : q[i].payload = IF Needs(q[i].action) THEN q[i].action ELSE NONE

(* The results are listed under the queue by position: unless the queue    *)
(* was changed during the run, the i-th result is of the i-th item, all    *)
(* but the last are successes, and the run stopped early only at a failure.*)
ResultsLineUp ==
  (results # <<>> /\ results # <<Client>> /\ ~changed) =>
    /\ Len(results) <= Len(sequence)
    /\ \A i \in DOMAIN results : results[i].item = sequence[i].id
    /\ \A i \in 1..Len(results) - 1 : results[i].ok
    /\ Len(results) < Len(sequence) => ~Last(results).ok
=============================================================================
