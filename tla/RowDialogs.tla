----------------------------- MODULE RowDialogs -----------------------------
(***************************************************************************)
(* One visit to the Networks, the Profiles or the Organizations page of    *)
(* the console: a table of documents, one dialog that creates and edits    *)
(* them, and a dialog that confirms a deletion.  The three pages are       *)
(* written after one pattern, so they share their steps; what differs is   *)
(* the form of each dialog (its fields, what fills it, what clears it).    *)
(*                                                                         *)
(* The dialog component stays mounted while it is closed: its form outlives*)
(* closing, and is refilled by an effect whenever the row it was handed or *)
(* its open flag changes.  The answer to a request runs the rest of the    *)
(* handler that sent it, whatever the page shows by then.  A Backdrop      *)
(* hides some dialogs from the pointer while a request is under way, but   *)
(* not from the keyboard, so it disables nothing here.                     *)
(*                                                                         *)
(* Data: of a field's value only its origin is kept: nothing (Empty; for   *)
(* the type of a network the first option), what row r shows, or what the  *)
(* user has typed.  Versions of one row are therefore not told apart.      *)
(* Field validation only refuses a submission and is left out; the user's  *)
(* permission is one that enables the buttons.                             *)
(***************************************************************************)
EXTENDS Naturals, FiniteSets

CONSTANTS NumRows,      \* documents there may be
          MaxRequests   \* requests under way at once

ASSUME RowDialogsAssumption == NumRows \in Nat \ {0} /\ MaxRequests \in Nat

VARIABLES kind,         \* which page is visited
          stored,       \* the rows the backend stores
          listed,       \* the rows the table shows
          refetching,   \* the table's query is under way
          open,         \* open...Dialog of the page
          operation,    \* ...DialogOperation of the page
          original,     \* ...FromAction of the page: the row the dialogs are handed
          confirming,   \* confirmationDialogOpen
          form,         \* the fields of the dialog
          requests,     \* requests under way
          intent,       \* ghost: what the user has asked for since choosing a row or a new one
          leftover      \* ghost: a row was handed to the closed dialog, or a deletion closed it

vars == <<kind, stored, listed, refetching, open, operation, original, confirming, form,
          requests, intent, leftover>>

Rows == 1..NumRows
Empty == 0
Typed == NumRows + 1
Values == {Empty, Typed} \union Rows
NoRow == 0
Kinds == {"network", "profile", "organization"}

(* The fields of each dialog: the name stands for the plain text fields,   *)
(* the station table for its map of fields.                                *)
NetworkFields == {"name", "networkType"}
ProfileFields == {"name", "stationTable", "actions"}
OrganizationFields == {"name"}

Fields == [network |-> NetworkFields, profile |-> ProfileFields,
           organization |-> OrganizationFields][kind]

(* A field that must not be empty for the submit button to work.           *)
NetworkRequired == {"name"}
ProfileRequired == {"name", "stationTable", "actions"}
OrganizationRequired == {"name"}

Required == [network |-> NetworkRequired, profile |-> ProfileRequired,
             organization |-> OrganizationRequired][kind]

EmptyForm == [f \in Fields |-> Empty]

(* setDefaultState: the network's dialog keeps the type of the network.    *)
NetworkDefault == [f \in Fields |-> IF f = "networkType" THEN form[f] ELSE Empty]
\* Mutant: the station table's fields are not cleared.
ProfileDefaultKeepsTable == [f \in Fields |-> IF f = "stationTable" THEN form[f] ELSE Empty]

ProfileDefault == EmptyForm
OrganizationDefault == EmptyForm

DefaultState == /\ form' = [network |-> NetworkDefault, profile |-> ProfileDefault,
                            organization |-> OrganizationDefault][kind]
                /\ leftover' = FALSE

(* The effect on [original, open]: a row that is handed fills the form.    *)
Refill(row) == form' = IF row = NoRow THEN form ELSE [f \in Fields |-> row]

Intent(op, row) == [op |-> op, row |-> row, data |-> [f \in Fields |-> row]]
NewIntent == Intent("create", NoRow)

Init ==
  /\ kind \in Kinds
  /\ stored \in SUBSET Rows /\ listed = stored
  /\ refetching = FALSE /\ open = FALSE /\ confirming = FALSE
  /\ operation = "create" /\ original = NoRow
  /\ form = EmptyForm /\ requests = {}
  /\ intent = NewIntent /\ leftover = FALSE

Idle == ~open /\ ~confirming

-----------------------------------------------------------------------------
(* The page's handlers.                                                    *)

(* The button for a new document opens the dialog as it stands.            *)
OpenCreate ==
  /\ Idle
  /\ open' = TRUE
  /\ Refill(original)
  /\ intent' = NewIntent
  /\ UNCHANGED <<kind, stored, listed, refetching, operation, original, confirming, requests,
                 leftover>>

(* The edit icon of a row.                                                 *)
Edit(r) ==
  /\ Idle /\ r \in listed
  /\ original' = r /\ operation' = "edit" /\ open' = TRUE
  /\ Refill(r)
  /\ intent' = Intent("update", r)
  /\ UNCHANGED <<kind, stored, listed, refetching, confirming, requests, leftover>>

(* The delete icon of a row: the row is handed to the closed dialog too,   *)
(* whose effect fills its form.                                            *)
DeleteConfirmationRequired(r) ==
  /\ Idle /\ r \in listed
  /\ original' = r /\ confirming' = TRUE
  /\ Refill(r) /\ leftover' = TRUE
  /\ intent' = Intent("delete", r)
  /\ UNCHANGED <<kind, stored, listed, refetching, open, operation, requests>>

CloseConfirmation ==
  /\ confirming /\ confirming' = FALSE /\ intent' = NewIntent
  /\ UNCHANGED <<kind, stored, listed, refetching, open, operation, original, form, requests,
                 leftover>>

\* matches is a ghost: the request is what the user asked for.
Send(op, row) ==
  /\ Cardinality(requests) < MaxRequests
  /\ requests' = requests \union
       {[op |-> op, row |-> row, stage |-> "sent",
         matches |-> op = intent.op /\ row = intent.row /\ (op = "update" => form = intent.data)]}

(* The confirmation is closed first; when an answer has taken the row away *)
(* meanwhile, reading its id throws and nothing is sent.                   *)
ConfirmDelete ==
  /\ confirming /\ confirming' = FALSE /\ intent' = NewIntent
  /\ \/ original # NoRow /\ Send("delete", original)
     \/ original = NoRow /\ UNCHANGED requests
  /\ UNCHANGED <<kind, stored, listed, refetching, open, operation, original, form, leftover>>

\* Mutant: the page forgets that it was editing.
CloseDialogKeepsOperation ==
  /\ open' = FALSE /\ original' = NoRow /\ UNCHANGED operation
  /\ intent' = IF open THEN NewIntent ELSE intent

(* handleClose...Dialog of the page.                                       *)
CloseDialog == /\ open' = FALSE /\ original' = NoRow /\ operation' = "create"
               /\ intent' = IF open THEN NewIntent ELSE intent

-----------------------------------------------------------------------------
(* The dialog.                                                             *)

Type(f) ==
  /\ open /\ f \in Fields
  /\ form' = [form EXCEPT ![f] = Typed] /\ intent' = [intent EXCEPT !.data[f] = Typed]
  /\ UNCHANGED <<kind, stored, listed, refetching, open, operation, original, confirming,
                 requests, leftover>>

NetworkInputs == kind = "network" /\ \E f \in NetworkFields : Type(f)
ProfileInputs == kind = "profile" /\ Type("name")
FieldMapInputs == kind = "profile" /\ Type("stationTable")
ActionsInput == kind = "profile" /\ Type("actions")
OrganizationInputs == kind = "organization" /\ Type("name")

(* The cross, the Escape key or a click outside.                           *)
Close ==
  /\ open /\ DefaultState /\ CloseDialog
  /\ UNCHANGED <<kind, stored, listed, refetching, confirming, requests>>

Submit ==
  /\ open /\ \A f \in Required : form[f] # Empty
  /\ \/ operation = "create" /\ Send("create", NoRow)
     \/ operation = "edit" /\ Send("update", original)
  /\ UNCHANGED <<kind, stored, listed, refetching, open, operation, original, confirming, form,
                 intent, leftover>>

-----------------------------------------------------------------------------
(* The backend's handlers (of them only whether they carry a request out), *)
(* and the answers.                                                        *)

Handled(q, stage) == requests' = (requests \ {q}) \union {[q EXCEPT !.stage = stage]}

Serve(q) ==
  /\ q.stage = "sent"
  /\ \/ q.op = "create" /\ \E r \in Rows \ stored : stored' = stored \union {r}
     \/ q.op = "update" /\ q.row \in stored /\ UNCHANGED stored
     \/ q.op = "delete" /\ q.row \in stored /\ stored' = stored \ {q.row}
  /\ Handled(q, "done")
  /\ UNCHANGED <<kind, listed, refetching, open, operation, original, confirming, form,
                 intent, leftover>>

(* The request is refused, or is lost with its answer.                     *)
Refuse(q) ==
  /\ q.stage = "sent" /\ Handled(q, "failed")
  /\ UNCHANGED <<kind, stored, listed, refetching, open, operation, original, confirming, form,
                 intent, leftover>>

(* A save that succeeded clears the form and closes the dialog; a deletion *)
(* only closes it.  Either answer makes the table's query run again.       *)
Saved(q) ==
  /\ q.stage = "done" /\ q.op # "delete"
  /\ DefaultState /\ CloseDialog
  /\ requests' = requests \ {q} /\ refetching' = TRUE
  /\ UNCHANGED <<kind, stored, listed, confirming>>

Deleted(q) ==
  /\ q.stage = "done" /\ q.op = "delete"
  /\ CloseDialog
  /\ leftover' = TRUE
  /\ requests' = requests \ {q} /\ refetching' = TRUE
  /\ UNCHANGED <<kind, stored, listed, confirming, form>>

(* The message of a failed save is shown in the dialog, of a deletion in a *)
(* toast.                                                                  *)
Failed(q) ==
  /\ q.stage = "failed"
  /\ requests' = requests \ {q} /\ refetching' = TRUE
  /\ UNCHANGED <<kind, stored, listed, open, operation, original, confirming, form, intent, leftover>>

(* The table's query is answered.                                          *)
RowsArrive ==
  /\ refetching /\ refetching' = FALSE /\ listed' = stored
  /\ UNCHANGED <<kind, stored, open, operation, original, confirming, form, requests, intent, leftover>>

-----------------------------------------------------------------------------
Page == \/ OpenCreate \/ CloseConfirmation \/ ConfirmDelete
        \/ \E r \in Rows : Edit(r) \/ DeleteConfirmationRequired(r)
Dialog == Close \/ Submit
Backend == \E q \in requests : Serve(q) \/ Refuse(q)
Answer == RowsArrive \/ \E q \in requests : Saved(q) \/ Deleted(q) \/ Failed(q)

(* The steps of each page and of its dialog.                               *)
NetworksPage == kind = "network" /\ Page
NetworkDialog == NetworkInputs \/ (kind = "network" /\ Dialog)
ProfilesPage == kind = "profile" /\ Page
ProfileDialog == ProfileInputs \/ FieldMapInputs \/ ActionsInput \/ (kind = "profile" /\ Dialog)
OrganizationsPage == kind = "organization" /\ Page
OrganizationDialog == OrganizationInputs \/ (kind = "organization" /\ Dialog)

Next == \/ NetworksPage \/ NetworkDialog \/ ProfilesPage \/ ProfileDialog
        \/ OrganizationsPage \/ OrganizationDialog
        \/ Backend \/ Answer

Spec == Init /\ [][Next]_vars

-----------------------------------------------------------------------------
RowDialogsTypeOK ==
  /\ kind \in Kinds
  /\ stored \subseteq Rows /\ listed \subseteq Rows
  /\ {refetching, open, confirming, leftover} \subseteq BOOLEAN
  /\ operation \in {"create", "edit"} /\ original \in Rows \union {NoRow}
  /\ form \in [Fields -> Values]
  /\ intent \in [op : {"create", "update", "delete"}, row : Rows \union {NoRow},
                 data : [Fields -> Values]]
  /\ requests \subseteq [op : {"create", "update", "delete"}, row : Rows \union {NoRow},
                         stage : {"sent", "done", "failed"}, matches : BOOLEAN]

(* Whatever answers arrive in between, a request does what the user chose: *)
(* it creates, updates or deletes, the very row of the icon that was       *)
(* clicked, and an update carries that row as it was listed, changed only  *)
(* in the fields typed since.                                              *)
RequestsMatchChoice ==
  \A q \in requests : q.matches

(* A dialog opened for a new document shows what the user typed and        *)
(* otherwise empty fields, unless a deletion was asked for or answered     *)
(* since the form was last cleared: the row of the deletion was filled in  *)
(* and a deletion's answer does not clear the form.  The type of a network *)
(* survives even clearing.                                                 *)
NewStartsEmpty ==
  open /\ operation = "create" =>
    \A f \in Fields : form[f] = intent.data[f] \/ leftover \/ f = "networkType"
=============================================================================
