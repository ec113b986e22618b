--------------------------- MODULE ProfileEditor ---------------------------
(***************************************************************************)
(* The actions of the profile that is being edited: the list in the        *)
(* profile's dialog and the dialog that creates or edits one action.       *)
(* Nothing here talks to the backend; the profile is saved in RowDialogs.  *)
(*                                                                         *)
(* The action's dialog outlives its closing.  An effect prepares it when it*)
(* opens: all of it for a new action, but not the inputs of the mappings   *)
(* for one to edit.  The cross clears everything, the cancel button and a  *)
(* saved action clear nothing.                                             *)
(*                                                                         *)
(* Data: of an action its type, its protocol, which details it has, and    *)
(* whether one of its mappings was typed while another action was shown;   *)
(* of the two inputs of a mapping, whether they hold anything and whether   *)
(* some of it was typed before.  The other fields, their values and their  *)
(* validation are left out: the browser refuses to submit a required one   *)
(* that is empty.                                                          *)
(***************************************************************************)
EXTENDS Naturals, FiniteSets, Functions

CONSTANTS Names,          \* of actions
          NONE,           \* an empty name
          Mappings        \* which mapping inputs are considered

VARIABLES actions,        \* the profile's actions by name
          dialogOpen, dialogOperation,
          actionToEdit,   \* the name of the action to edit, NONE for a new one
          currentName, currentAction,
          pending         \* per mapping: its two inputs are empty, typed for this action, or one before

vars == <<actions, dialogOpen, dialogOperation, actionToEdit, currentName, currentAction, pending>>

Types == {"auth", "monitor", "manage"}
HttpDetails == {"absent", "own", "foreign"}     \* foreign: with a mapping typed for another action
Action == [actionType : Types, protocol : {"http", "ssh"}, http : HttpDetails, ssh : BOOLEAN]

DefaultAction == [actionType |-> "auth", protocol |-> "http", http |-> "own", ssh |-> FALSE]
NoPending == [m \in Mappings |-> "empty"]

(* What ActionSchema demands: the details of the protocol and no others,   *)
(* and authentication over HTTP.                                           *)
DetailsFit(a) ==
  /\ a.protocol = "http" => a.http # "absent" /\ ~a.ssh
  /\ a.protocol = "ssh" => a.ssh /\ a.http = "absent"

AuthOverSsh(a) == a.actionType = "auth" /\ a.protocol = "ssh"

ActionSchema(a) == DetailsFit(a) /\ ~AuthOverSsh(a)

(* The backend accepts any combination, so a stored action may lack its    *)
(* details or authenticate over SSH.  Details of the other protocol, which *)
(* nothing reads and loading drops, and actions without type or protocol   *)
(* are left out; mappings count as foreign from this visit on.             *)
Stored ==
  {a \in Action : /\ a.http \in IF a.protocol = "http" THEN {"own", "absent"} ELSE {"absent"}
                  /\ a.ssh => a.protocol = "ssh"}

Init ==
  /\ actions \in UNION {[N -> Stored] : N \in SUBSET Names}
  /\ dialogOpen = FALSE /\ dialogOperation = "create" /\ actionToEdit = NONE
  /\ currentName = NONE /\ currentAction = DefaultAction
  /\ pending = NoPending

-----------------------------------------------------------------------------
(* The list of actions.                                                    *)

\* Mutant: the inputs of the mappings are not cleared.
SetDefaultStateKeepsInputs ==
  /\ currentName' = NONE /\ currentAction' = DefaultAction
  /\ pending' = [m \in Mappings |-> IF pending[m] = "empty" THEN "empty" ELSE "before"]

SetDefaultState ==
  /\ currentName' = NONE /\ currentAction' = DefaultAction
  /\ pending' = NoPending

(* The effect of the dialog when it opens for a new action.                *)
OpenCreateDialog ==
  /\ ~dialogOpen /\ dialogOpen' = TRUE
  /\ dialogOperation' = "create" /\ actionToEdit' = NONE
  /\ SetDefaultState
  /\ UNCHANGED actions

(* The effect when it opens for an action to edit: missing details get     *)
(* their defaults, those of the other protocol are dropped.                *)
Loaded(a) == [a EXCEPT !.http = IF a.protocol = "ssh" THEN "absent"
                                ELSE IF @ = "absent" THEN "own" ELSE @,
                       !.ssh = (a.protocol = "ssh")]

OpenEditDialog(n) ==
  /\ ~dialogOpen /\ dialogOpen' = TRUE
  /\ dialogOperation' = "edit" /\ actionToEdit' = n
  /\ currentName' = n /\ currentAction' = Loaded(actions[n])
  /\ pending' = [m \in Mappings |-> IF pending[m] = "empty" THEN "empty" ELSE "before"]
  /\ UNCHANGED actions

CloseActionDialog == dialogOpen' = FALSE /\ actionToEdit' = NONE /\ UNCHANGED dialogOperation

DeleteAction(n) ==
  /\ ~dialogOpen
  /\ actions' = Restrict(actions, DOMAIN actions \ {n})
  /\ UNCHANGED <<dialogOpen, dialogOperation, actionToEdit, currentName, currentAction, pending>>

-----------------------------------------------------------------------------
(* The form of one action.                                                 *)

Edited == /\ dialogOpen
          /\ UNCHANGED <<actions, dialogOpen, dialogOperation, actionToEdit>>

NameChange(n) ==
  /\ Edited /\ currentName' = n
  /\ UNCHANGED <<currentAction, pending>>

(* The menu offers authentication over HTTP only.                          *)
SelectType(t) ==
  /\ Edited /\ t # currentAction.actionType
  /\ t = "auth" => currentAction.protocol # "ssh"
  /\ currentAction' = [currentAction EXCEPT !.actionType = t,
                                            !.protocol = IF t = "auth" THEN "http" ELSE @]
  /\ UNCHANGED <<currentName, pending>>

(* The menu offers SSH only for other actions; missing details are created,*)
(* those of the other protocol dropped.                                    *)
SelectProtocol(p) ==
  /\ Edited /\ p # currentAction.protocol
  /\ p = "ssh" => currentAction.actionType # "auth"
  /\ currentAction' = [currentAction EXCEPT
       !.protocol = p,
       !.http = IF p = "ssh" THEN "absent" ELSE IF @ = "absent" THEN "own" ELSE @,
       !.ssh = (p = "ssh")]
  /\ UNCHANGED <<currentName, pending>>

(* The mappings are shown with the HTTP details.                           *)
HttpFields == dialogOpen /\ currentAction.protocol = "http" /\ currentAction.http # "absent"

(* A mapping has an input for its key and one for its value; what was left *)
(* in the other one stays there.                                           *)
TypeInto(m) ==
  /\ HttpFields /\ Edited /\ m \in Mappings
  /\ \E since \in {"this", pending[m]} \ {"empty"} : pending' = [pending EXCEPT ![m] = since]
  /\ UNCHANGED <<currentName, currentAction>>

TypeMapping == TypeInto("responseMapping")
TypeHeaderMapping == TypeInto("responseHeaderMapping")
TypeQueryParamMapping == TypeInto("queryParameters")

(* The button below a mapping: a key that exists is refused with a message.*)
AddTo(m) ==
  /\ HttpFields /\ Edited /\ m \in Mappings /\ pending[m] # "empty"
  /\ currentAction' = [currentAction EXCEPT
                         !.http = IF pending[m] = "before" THEN "foreign" ELSE @]
  /\ pending' = [pending EXCEPT ![m] = "empty"]
  /\ UNCHANGED currentName

AddMapping == AddTo("responseMapping")
AddHeaderMapping == AddTo("responseHeaderMapping")
AddQueryParamMapping == AddTo("queryParameters")

(* An entry is removed, perhaps the one typed for another action.          *)
RemoveFrom(m) ==
  /\ HttpFields /\ Edited /\ m \in Mappings
  /\ \E left \in {"own", currentAction.http} :
       currentAction' = [currentAction EXCEPT !.http = left]
  /\ UNCHANGED <<currentName, pending>>

RemoveMapping == RemoveFrom("responseMapping")
RemoveHeaderMapping == RemoveFrom("responseHeaderMapping")
RemoveQueryParamMapping == RemoveFrom("queryParameters")

-----------------------------------------------------------------------------
(* Closing the dialog.                                                     *)

Close ==
  /\ dialogOpen /\ SetDefaultState /\ CloseActionDialog
  /\ UNCHANGED actions

Cancel ==
  /\ dialogOpen /\ CloseActionDialog
  /\ UNCHANGED <<actions, currentName, currentAction, pending>>

\* Mutants: the two checks are made for new actions only.
AnotherAuthWhenNew(n) ==
  /\ actionToEdit = NONE /\ currentAction.actionType = "auth"
  /\ \E k \in DOMAIN actions \ {n} : actions[k].actionType = "auth"

NameTakenWhenNew(n) == n \in DOMAIN actions /\ actionToEdit = NONE

(* handleUpsertAction: refused with a message, or stored under its name;   *)
(* the dialog closes either way.                                           *)
AnotherAuth(n) ==
  /\ currentAction.actionType = "auth"
  /\ \E k \in DOMAIN actions \ {n} : actions[k].actionType = "auth"

NameTaken(n) == n \in DOMAIN actions /\ n # actionToEdit

Upserted(n) ==
  LET kept == IF actionToEdit # n THEN DOMAIN actions \ {actionToEdit} ELSE DOMAIN actions
  IN  [k \in kept \union {n} |-> IF k = n THEN currentAction ELSE actions[k]]

UpsertAction(n) ==
  actions' = IF AnotherAuth(n) \/ NameTaken(n) THEN actions ELSE Upserted(n)

Submit ==
  /\ dialogOpen /\ currentName # NONE /\ ActionSchema(currentAction)
  /\ UpsertAction(currentName) /\ CloseActionDialog
  /\ UNCHANGED <<currentName, currentAction, pending>>

-----------------------------------------------------------------------------
Next ==
  \/ OpenCreateDialog \/ Close \/ Cancel \/ Submit
  \/ \E n \in DOMAIN actions : OpenEditDialog(n) \/ DeleteAction(n)
  \/ \E n \in Names \union {NONE} : NameChange(n)
  \/ \E t \in Types : SelectType(t)
  \/ \E p \in {"http", "ssh"} : SelectProtocol(p)
  \/ TypeMapping \/ TypeHeaderMapping \/ TypeQueryParamMapping
  \/ AddMapping \/ AddHeaderMapping \/ AddQueryParamMapping
  \/ RemoveMapping \/ RemoveHeaderMapping \/ RemoveQueryParamMapping

Spec == Init /\ [][Next]_vars

-----------------------------------------------------------------------------
Auths(f) == {n \in DOMAIN f : f[n].actionType = "auth"}

(* "Make sure only one action for auth exists": no sequence of creating,   *)
(* renaming, retyping and deleting actions makes a second one; a profile   *)
(* that was loaded with several never gains one.                           *)
AuthStaysSingle ==
  [][Cardinality(Auths(actions')) > Cardinality(Auths(actions)) => Auths(actions) = {}]_vars

(* Saving one action leaves every other as it is, also when the action is  *)
(* renamed to a name that is taken, and stores nothing the schema refuses. *)
SavesOneAction ==
  [][Submit => \A n \in DOMAIN actions \union DOMAIN actions' :
       \/ n \in DOMAIN actions /\ n \in DOMAIN actions' /\ actions'[n] = actions[n]
       \/ n = actionToEdit /\ currentName \in DOMAIN actions'
       \/ n = currentName /\ n \notin DOMAIN actions /\ actions'[n] = currentAction]_vars

(* Whatever was left in the inputs of the mappings, a new action contains  *)
(* only mappings typed for it.  Switching types and protocols never leaves *)
(* the form without the details it is about to read, and brings no         *)
(* authentication over SSH into an action that was stored without it.      *)
FreshDraft ==
  dialogOpen =>
    /\ dialogOperation = "create" => /\ currentAction.http # "foreign"
                                     /\ \A m \in Mappings : pending[m] # "before"
    /\ DetailsFit(currentAction)
    /\ AuthOverSsh(currentAction) =>
         actionToEdit \in DOMAIN actions /\ AuthOverSsh(actions[actionToEdit])
=============================================================================
