---------------------------- MODULE DevicesPage ----------------------------
(***************************************************************************)
(* One visit to the Devices page of the console: the table of devices, the *)
(* dialog that adopts one, the dialog that edits one and the dialog that   *)
(* confirms a deletion.                                                    *)
(*                                                                         *)
(* The edit dialog asks for its device by id.  While the answer for a newly*)
(* chosen device is under way the query still returns the device shown     *)
(* before, and a save goes to the id of the device the query returns.  No  *)
(* tag is attached to that query, so nothing makes it run again; an entry  *)
(* nobody shows is dropped after a while.  The adoption dialog selects the *)
(* first network whenever the list of networks arrives changed.            *)
(*                                                                         *)
(* Data: of the edit form only the device that filled it and the fields    *)
(* typed since are kept; the profile to adopt with is selected as the      *)
(* network is.  What the monitor reports about the rows is in              *)
(* TopologyStore; validation only refuses a submission and is left out.    *)
(***************************************************************************)
EXTENDS Naturals, FiniteSets

CONSTANTS Devices, Networks,
          FirstNetwork,       \* the network the backend lists first
          NONE,               \* no device, no network
          MaxCalls            \* requests under way at once

VARIABLES adopted,            \* the devices the backend stores
          rows,               \* the devices the table shows
          rowsStale,          \* the table's query is to run again
          networksStale,      \* the query of the networks is to run again
          networksKnown,      \* the networks have been listed once
          deviceFromAction,
          editOpen, adoptOpen, confirmOpen,
          entries,            \* cached answers of the query by id
          device,             \* what that query returns to the edit dialog
          editForm,           \* who filled the edit form, and the fields typed since
          selectedNetwork,    \* of the adoption dialog
          calls               \* requests under way

vars == <<adopted, rows, rowsStale, networksStale, networksKnown, deviceFromAction, editOpen,
          adoptOpen, confirmOpen, entries, device, editForm, selectedNetwork, calls>>

server == <<adopted, rows, rowsStale>>
editing == <<deviceFromAction, editOpen, entries, device, editForm>>
adopting == <<networksStale, networksKnown, adoptOpen, selectedNetwork>>

EditFields == {"address", "rest"}
Form(d) == [of |-> d, typed |-> {}]

(* An earlier visit or the configure page may have left answers cached.    *)
Init ==
  /\ adopted \in SUBSET Devices /\ rows = adopted /\ rowsStale = FALSE
  /\ networksStale = TRUE /\ networksKnown = FALSE
  /\ deviceFromAction = NONE
  /\ editOpen = FALSE /\ adoptOpen = FALSE /\ confirmOpen = FALSE
  /\ entries \in SUBSET adopted /\ device = NONE /\ editForm = Form(NONE)
  /\ selectedNetwork = NONE /\ calls = {}

Idle == ~editOpen /\ ~adoptOpen /\ ~confirmOpen

Call(c) == Cardinality(calls) < MaxCalls /\ calls' = calls \union {c}

-----------------------------------------------------------------------------
(* The table and the deletion.                                             *)

(* Handing a device to the page points the edit dialog's query at it: a    *)
(* cached answer is returned at once, otherwise the last one stays.        *)
Hand(d) == /\ deviceFromAction' = d
           /\ device' = IF d \in entries THEN d ELSE device

\* The effect on [device, open].
Refill(d, otherwise) == editForm' = IF d # NONE THEN Form(d) ELSE otherwise

DeleteConfirmationRequired(d) ==
  /\ Idle /\ d \in rows
  /\ Hand(d) /\ confirmOpen' = TRUE
  /\ IF device' # device THEN Refill(device', editForm) ELSE UNCHANGED editForm
  /\ UNCHANGED <<server, adopting, editOpen, entries, calls>>

CloseConfirmation ==
  /\ confirmOpen /\ confirmOpen' = FALSE
  /\ UNCHANGED <<server, editing, adopting, calls>>

DeleteDevice ==
  /\ confirmOpen /\ confirmOpen' = FALSE
  /\ Call([op |-> "delete", device |-> deviceFromAction, stage |-> "sent"])
  /\ UNCHANGED <<server, editing, adopting>>

-----------------------------------------------------------------------------
(* The edit dialog.                                                        *)

OpenEdit(d) ==
  /\ Idle /\ d \in rows
  /\ Hand(d) /\ editOpen' = TRUE
  /\ Refill(device', editForm)
  /\ UNCHANGED <<server, adopting, confirmOpen, entries, calls>>

(* The query by id is answered; the effect refills the form, typed or not. *)
DeviceArrives ==
  /\ deviceFromAction \notin entries \union {NONE} /\ deviceFromAction \in adopted
  /\ entries' = entries \union {deviceFromAction}
  /\ device' = deviceFromAction
  /\ Refill(device', editForm)
  /\ UNCHANGED <<server, adopting, deviceFromAction, editOpen, confirmOpen, calls>>

(* keepUnusedDataFor has passed for an entry the page does not show.       *)
EntryDropped(d) ==
  /\ d \in entries \ {deviceFromAction}
  /\ entries' = entries \ {d}
  /\ UNCHANGED <<server, adopting, deviceFromAction, editOpen, device, editForm, confirmOpen, calls>>

(* The fields are shown once the query has returned some device.           *)
TypeEdit(f) ==
  /\ editOpen /\ device # NONE
  /\ editForm' = [editForm EXCEPT !.typed = @ \union {f}]
  /\ UNCHANGED <<server, adopting, deviceFromAction, editOpen, entries, device, confirmOpen, calls>>

(* setDefaultState and handleClose; the effect refills what they cleared.  *)
CloseEdit ==
  /\ editOpen /\ editOpen' = FALSE
  /\ Refill(device, Form(NONE))
  /\ UNCHANGED <<server, adopting, deviceFromAction, entries, device, confirmOpen, calls>>

\* Mutant: the save goes to the device whose icon was clicked.
SubmitEditOfClicked ==
  /\ editOpen /\ device # NONE
  /\ editForm.of # NONE \/ editForm.typed = EditFields
  /\ Call([op |-> "edit", device |-> deviceFromAction, stage |-> "sent"])
  /\ UNCHANGED <<server, editing, adopting, confirmOpen>>

(* Fields that are still empty are refused.                                *)
SubmitEdit ==
  /\ editOpen /\ device # NONE
  /\ editForm.of # NONE \/ editForm.typed = EditFields
  /\ Call([op |-> "edit", device |-> device, stage |-> "sent"])
  /\ UNCHANGED <<server, editing, adopting, confirmOpen>>

-----------------------------------------------------------------------------
(* The adoption dialog.                                                    *)

OpenAdoption ==
  /\ Idle /\ adoptOpen' = TRUE
  /\ UNCHANGED <<server, editing, networksStale, networksKnown, selectedNetwork, confirmOpen,
                 calls>>

SelectNetwork(n) ==
  /\ adoptOpen /\ networksKnown
  /\ selectedNetwork' = n
  /\ UNCHANGED <<server, editing, networksStale, networksKnown, adoptOpen, confirmOpen, calls>>

(* setDefaultState and handleClose.                                        *)
ClearAdoption == adoptOpen' = FALSE /\ selectedNetwork' = NONE

CloseAdoption ==
  /\ adoptOpen /\ ClearAdoption
  /\ UNCHANGED <<server, editing, networksStale, networksKnown, confirmOpen, calls>>

(* The button is disabled until the networks are known and while another   *)
(* adoption is under way; the schema demands a network.                    *)
SubmitAdoption ==
  /\ adoptOpen /\ networksKnown /\ selectedNetwork # NONE
  /\ ~\E c \in calls : c.op = "adopt"
  /\ \E d \in Devices :
       Call([op |-> "adopt", device |-> d, stage |-> "sent", network |-> selectedNetwork])
  /\ UNCHANGED <<server, editing, adopting, confirmOpen>>

(* The effect on the networks selects the first one, dialog open or not.   *)
NetworksArrive ==
  /\ networksStale /\ networksStale' = FALSE /\ networksKnown' = TRUE
  /\ selectedNetwork' = FirstNetwork
  /\ UNCHANGED <<server, editing, adoptOpen, confirmOpen, calls>>

-----------------------------------------------------------------------------
(* The backend's handlers (of them only whether they carry a request out), *)
(* and the answers.                                                        *)

Becomes(c, stage) == calls' = (calls \ {c}) \union {[c EXCEPT !.stage = stage]}

Serve(c) ==
  /\ c.stage = "sent" /\ Becomes(c, "done")
  /\ \/ c.op = "adopt" /\ c.device \notin adopted /\ adopted' = adopted \union {c.device}
     \/ c.op = "edit" /\ c.device \in adopted /\ UNCHANGED adopted
     \/ c.op = "delete" /\ c.device \in adopted /\ adopted' = adopted \ {c.device}
  /\ UNCHANGED <<rows, rowsStale, editing, adopting, confirmOpen>>

Refuse(c) ==
  /\ c.stage = "sent" /\ Becomes(c, "failed")
  /\ UNCHANGED <<server, editing, adopting, confirmOpen>>

(* A saved edit clears and closes the dialog, and invalidates nothing.     *)
EditSaved(c) ==
  /\ c.op = "edit" /\ c.stage = "done" /\ calls' = calls \ {c}
  /\ editOpen' = FALSE
  /\ IF editOpen THEN Refill(device, Form(NONE)) ELSE editForm' = Form(NONE)
  /\ UNCHANGED <<server, adopting, deviceFromAction, entries, device, confirmOpen>>

(* Adoptions and deletions make the table and the networks load again: the *)
(* networks list their devices, so their list has changed.                 *)
AdoptionDone(c) ==
  /\ c.op = "adopt" /\ c.stage = "done" /\ calls' = calls \ {c}
  /\ ClearAdoption /\ rowsStale' = TRUE /\ networksStale' = TRUE
  /\ UNCHANGED <<adopted, rows, editing, networksKnown, confirmOpen>>

DeletionDone(c) ==
  /\ c.op = "delete" /\ c.stage = "done" /\ calls' = calls \ {c}
  /\ rowsStale' = TRUE /\ networksStale' = TRUE
  /\ UNCHANGED <<adopted, rows, editing, networksKnown, adoptOpen, selectedNetwork,
                 confirmOpen>>

(* A message; the lists load again with what they already had.             *)
CallFails(c) ==
  /\ c.stage = "failed" /\ calls' = calls \ {c}
  /\ UNCHANGED <<server, editing, adopting, confirmOpen>>

RowsArrive ==
  /\ rowsStale /\ rowsStale' = FALSE /\ rows' = adopted
  /\ UNCHANGED <<adopted, editing, adopting, confirmOpen, calls>>

-----------------------------------------------------------------------------
Next ==
  \/ CloseConfirmation \/ DeleteDevice \/ DeviceArrives \/ CloseEdit \/ SubmitEdit
  \/ OpenAdoption \/ CloseAdoption \/ SubmitAdoption \/ NetworksArrive \/ RowsArrive
  \/ \E d \in Devices : DeleteConfirmationRequired(d) \/ OpenEdit(d) \/ EntryDropped(d)
  \/ \E f \in EditFields : TypeEdit(f)
  \/ \E n \in Networks : SelectNetwork(n)
  \/ \E c \in calls : \/ Serve(c) \/ Refuse(c) \/ EditSaved(c) \/ AdoptionDone(c)
                      \/ DeletionDone(c) \/ CallFails(c)

Spec == Init /\ [][Next]_vars

-----------------------------------------------------------------------------
Sent(op) == {c \in calls' \ calls : c.op = op /\ c.stage = "sent"}

(* An edit never mixes two devices: what the user did not type comes from  *)
(* the device the request is sent to.  That device is the one whose icon   *)
(* was clicked, unless its data had not arrived and the form still showed  *)
(* the device edited before.                                               *)
EditsOneDevice ==
  [][\A c \in Sent("edit") :
       /\ editForm.typed # EditFields => editForm.of = c.device
       /\ c.device = deviceFromAction \/ deviceFromAction \notin entries]_vars
=============================================================================
