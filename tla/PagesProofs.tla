---------------------------- MODULE PagesProofs ----------------------------
(***************************************************************************)
(* Proofs about the pages of the console (Pages): whatever the number of   *)
(* devices, actions, profiles, users and requests under way.  A step of    *)
(* one page leaves the variables of the others alone, so each page has an  *)
(* invariant of its own.                                                   *)
(***************************************************************************)
EXTENDS Pages, FiniteSetTheorems, SequenceTheorems, TLAPS

(* A step of the console is one of the editor's or leaves its state.       *)
LEMMA EditorStep == [PagesNext]_pagesVars => [Editor!Next]_Editor!vars
BY DEF PagesNext, VisitRows, VisitDevices, VisitConfigure, VisitActions, VisitUsers, pagesVars,
       editorVars, Editor!vars

(* The same of the page of the devices.                                    *)
LEMMA DevicesStep == [PagesNext]_pagesVars => [DevicesOf!Next]_DevicesOf!vars
BY DEF PagesNext, VisitRows, VisitDevices, VisitConfigure, VisitActions, VisitUsers, pagesVars,
       devicesVars, DevicesOf!vars

(* The same of the page that configures a device.                          *)
LEMMA ExecutorStep == [PagesNext]_pagesVars => [Executor!Next]_Executor!vars
BY DEF PagesNext, VisitRows, VisitDevices, VisitConfigure, VisitActions, VisitUsers, pagesVars,
       executorVars, Executor!vars

(* The same of the pages about users.                                      *)
LEMMA UsersStep == [PagesNext]_pagesVars => [UsersOf!Next]_UsersOf!vars
BY DEF PagesNext, VisitRows, VisitDevices, VisitConfigure, VisitActions, VisitUsers, pagesVars,
       usersVars, UsersOf!vars

(* Each page behaves in the console as it does alone.                      *)
THEOREM PagesCompose ==
  PagesSpec => DevicesOf!Spec /\ Executor!Spec /\ Editor!Spec /\ UsersOf!Spec
<1>1. PagesInit => DevicesOf!Init /\ Executor!Init /\ Editor!Init /\ UsersOf!Init
  BY DEF PagesInit
<1> QED BY <1>1, EditorStep, DevicesStep, ExecutorStep, UsersStep, PTL
        DEF PagesSpec, DevicesOf!Spec, Executor!Spec, Editor!Spec, UsersOf!Spec

-----------------------------------------------------------------------------
(* Devices page.  The edit form is empty or was filled by the device that   *)
(* the query by id returns, which is the one clicked if that is cached.     *)
EditInv ==
  /\ NONE \notin entries
  /\ editForm = [of |-> editForm.of, typed |-> editForm.typed]
  /\ editForm.of \in {NONE, device}
  /\ deviceFromAction \in entries => device = deviceFromAction

(* The page of the devices begins with an empty form.                       *)
LEMMA EditInit == DevicesOf!Init => EditInv
BY PagesAssumption DEF DevicesOf!Init, DevicesOf!Form, EditInv, PagesAssumption

(* Hand, Refill and the answers of the query keep the form with one device. *)
LEMMA EditStep == EditInv /\ [DevicesOf!Next]_DevicesOf!vars => EditInv'
<1> USE DEF EditInv, DevicesOf!server, DevicesOf!editing, DevicesOf!adopting, DevicesOf!Form,
        DevicesOf!Refill
<1> SUFFICES ASSUME EditInv, [DevicesOf!Next]_DevicesOf!vars PROVE EditInv'
  OBVIOUS
<1>1. ASSUME NEW d \in Devices,
             DevicesOf!DeleteConfirmationRequired(d) \/ DevicesOf!OpenEdit(d)
      PROVE  EditInv'
  BY <1>1 DEF DevicesOf!DeleteConfirmationRequired, DevicesOf!OpenEdit, DevicesOf!Hand
<1>2. ASSUME NEW d \in Devices, DevicesOf!EntryDropped(d) PROVE EditInv'
  BY <1>2 DEF DevicesOf!EntryDropped
<1>3. CASE DevicesOf!DeviceArrives
  BY <1>3 DEF DevicesOf!DeviceArrives
<1>4. CASE DevicesOf!CloseEdit
  BY <1>4 DEF DevicesOf!CloseEdit
<1>5. ASSUME NEW f \in DevicesOf!EditFields, DevicesOf!TypeEdit(f) PROVE EditInv'
  BY <1>5 DEF DevicesOf!TypeEdit
<1>6. ASSUME NEW c \in calls, DevicesOf!EditSaved(c) PROVE EditInv'
  BY <1>6 DEF DevicesOf!EditSaved
<1>7. ASSUME UNCHANGED DevicesOf!editing PROVE EditInv'
  BY <1>7
<1>8. CASE DevicesOf!CloseConfirmation \/ DevicesOf!DeleteDevice \/ DevicesOf!SubmitEdit
  BY <1>7, <1>8 DEF DevicesOf!CloseConfirmation, DevicesOf!DeleteDevice, DevicesOf!SubmitEdit
<1>9. CASE DevicesOf!OpenAdoption \/ DevicesOf!CloseAdoption \/ DevicesOf!SubmitAdoption
        \/ DevicesOf!NetworksArrive \/ DevicesOf!RowsArrive
  BY <1>7, <1>9 DEF DevicesOf!OpenAdoption, DevicesOf!CloseAdoption, DevicesOf!SubmitAdoption,
                    DevicesOf!NetworksArrive, DevicesOf!RowsArrive
<1>10. ASSUME NEW n \in Networks, DevicesOf!SelectNetwork(n) PROVE EditInv'
  BY <1>7, <1>10 DEF DevicesOf!SelectNetwork
<1>11. ASSUME NEW c \in calls,
              \/ DevicesOf!Serve(c) \/ DevicesOf!Refuse(c) \/ DevicesOf!AdoptionDone(c)
              \/ DevicesOf!DeletionDone(c) \/ DevicesOf!CallFails(c)
       PROVE  EditInv'
  BY <1>7, <1>11 DEF DevicesOf!Serve, DevicesOf!Refuse, DevicesOf!AdoptionDone,
                     DevicesOf!DeletionDone, DevicesOf!CallFails
<1>12. CASE UNCHANGED DevicesOf!vars
  BY <1>12 DEF DevicesOf!vars
<1> QED BY <1>1, <1>2, <1>3, <1>4, <1>5, <1>6, <1>8, <1>9, <1>10, <1>11, <1>12
        DEF DevicesOf!Next

(* Only these steps bring new requests, or give one a new stage.           *)
LEMMA CallsShrink ==
  ASSUME [DevicesOf!Next]_DevicesOf!vars
  PROVE  \/ DevicesOf!DeleteDevice \/ DevicesOf!SubmitEdit \/ DevicesOf!SubmitAdoption
         \/ \E c \in calls : DevicesOf!Serve(c) \/ DevicesOf!Refuse(c)
         \/ calls' \subseteq calls
<1>1. ASSUME NEW c \in calls,
             DevicesOf!EditSaved(c) \/ DevicesOf!AdoptionDone(c) \/ DevicesOf!DeletionDone(c)
               \/ DevicesOf!CallFails(c)
      PROVE  calls' \subseteq calls
  BY <1>1 DEF DevicesOf!EditSaved, DevicesOf!AdoptionDone, DevicesOf!DeletionDone,
              DevicesOf!CallFails
<1>2. ASSUME NEW d \in Devices,
             DevicesOf!DeleteConfirmationRequired(d) \/ DevicesOf!OpenEdit(d)
               \/ DevicesOf!EntryDropped(d)
      PROVE  calls' = calls
  BY <1>2 DEF DevicesOf!DeleteConfirmationRequired, DevicesOf!OpenEdit, DevicesOf!EntryDropped
<1>3. ASSUME \/ \E f \in DevicesOf!EditFields : DevicesOf!TypeEdit(f)
             \/ \E n \in Networks : DevicesOf!SelectNetwork(n)
             \/ DevicesOf!CloseConfirmation \/ DevicesOf!DeviceArrives \/ DevicesOf!CloseEdit
             \/ DevicesOf!OpenAdoption \/ DevicesOf!CloseAdoption
             \/ DevicesOf!NetworksArrive \/ DevicesOf!RowsArrive
             \/ UNCHANGED DevicesOf!vars
      PROVE  calls' = calls
  BY <1>3 DEF DevicesOf!TypeEdit, DevicesOf!SelectNetwork, DevicesOf!CloseConfirmation,
       DevicesOf!DeviceArrives, DevicesOf!CloseEdit, DevicesOf!OpenAdoption,
       DevicesOf!CloseAdoption, DevicesOf!NetworksArrive, DevicesOf!RowsArrive, DevicesOf!vars
<1> QED BY <1>1, <1>2, <1>3 DEF DevicesOf!Next

(* Every request under way has a stage.                                    *)
Staged == \A c \in calls : "stage" \in DOMAIN c

(* A request keeps its stage or moves to another.                           *)
LEMMA StagedStep == Staged /\ [DevicesOf!Next]_DevicesOf!vars => Staged'
<1> SUFFICES ASSUME Staged, [DevicesOf!Next]_DevicesOf!vars PROVE Staged'
  OBVIOUS
<1>1. ASSUME calls' \subseteq calls PROVE Staged'
  BY <1>1 DEF Staged
<1>2. ASSUME NEW c, "stage" \in DOMAIN c, calls' \subseteq calls \cup {c} PROVE Staged'
  BY <1>2 DEF Staged
<1>3. ASSUME NEW c \in calls, NEW stage, DevicesOf!Becomes(c, stage) PROVE Staged'
  <2> DEFINE e == [c EXCEPT !.stage = stage]
  <2>1. calls' \subseteq calls \cup {e} /\ "stage" \in DOMAIN e
    BY <1>3 DEF DevicesOf!Becomes, Staged
  <2> QED BY <2>1, <1>2
<1>4. CASE DevicesOf!DeleteDevice
  <2> DEFINE e == [op |-> "delete", device |-> deviceFromAction, stage |-> "sent"]
  <2>1. calls' \subseteq calls \cup {e} /\ "stage" \in DOMAIN e
    BY <1>4 DEF DevicesOf!DeleteDevice, DevicesOf!Call
  <2> QED BY <2>1, <1>2
<1>5. CASE DevicesOf!SubmitEdit
  <2> DEFINE e == [op |-> "edit", device |-> device, stage |-> "sent"]
  <2>1. calls' \subseteq calls \cup {e} /\ "stage" \in DOMAIN e
    BY <1>5 DEF DevicesOf!SubmitEdit, DevicesOf!Call
  <2> QED BY <2>1, <1>2
<1>6. CASE DevicesOf!SubmitAdoption
  <2>1. PICK d \in Devices :
          DevicesOf!Call([op |-> "adopt", device |-> d, stage |-> "sent",
                          network |-> selectedNetwork])
    BY <1>6 DEF DevicesOf!SubmitAdoption
  <2> DEFINE e == [op |-> "adopt", device |-> d, stage |-> "sent", network |-> selectedNetwork]
  <2>2. calls' \subseteq calls \cup {e} /\ "stage" \in DOMAIN e
    BY <2>1 DEF DevicesOf!Call
  <2> QED BY <2>2, <1>2
<1>7. ASSUME NEW c \in calls, DevicesOf!Serve(c) \/ DevicesOf!Refuse(c) PROVE Staged'
  BY <1>3, <1>7 DEF DevicesOf!Serve, DevicesOf!Refuse
<1>8. \/ DevicesOf!DeleteDevice \/ DevicesOf!SubmitEdit \/ DevicesOf!SubmitAdoption
      \/ \E c \in calls : DevicesOf!Serve(c) \/ DevicesOf!Refuse(c)
      \/ calls' \subseteq calls
  BY CallsShrink
<1> QED BY <1>1, <1>4, <1>5, <1>6, <1>7, <1>8

(* The action of EditsOneDevice.                                           *)
OneDevice ==
  \A c \in DevicesOf!Sent("edit") :
    /\ editForm.typed # DevicesOf!EditFields => editForm.of = c.device
    /\ c.device = deviceFromAction \/ deviceFromAction \notin entries

(* A request that another step adds is no edit, or not one that is sent.   *)
LEMMA NoEditSent ==
  ASSUME NEW c, c.op # "edit" \/ c.stage # "sent", calls' \subseteq calls \cup {c}
  PROVE  OneDevice
BY DEF OneDevice, DevicesOf!Sent

(* The step that sends an edit takes the device and its data from one place. *)
LEMMA OneDeviceStep == EditInv /\ Staged /\ [DevicesOf!Next]_DevicesOf!vars => OneDevice
<1> SUFFICES ASSUME EditInv, Staged, [DevicesOf!Next]_DevicesOf!vars PROVE OneDevice
  OBVIOUS
<1>1. CASE DevicesOf!SubmitEdit
  <2> DEFINE e == [op |-> "edit", device |-> device, stage |-> "sent"]
  <2>1. calls' = calls \cup {e} /\ (editForm.of # NONE \/ editForm.typed = DevicesOf!EditFields)
    BY <1>1 DEF DevicesOf!SubmitEdit, DevicesOf!Call
  <2>2. \A c \in DevicesOf!Sent("edit") : c.device = device
    BY <2>1 DEF DevicesOf!Sent
  <2> QED BY <2>1, <2>2 DEF OneDevice, EditInv
<1>2. ASSUME calls' \subseteq calls PROVE OneDevice
  BY <1>2 DEF OneDevice, DevicesOf!Sent
<1>3. CASE DevicesOf!DeleteDevice
  <2> DEFINE e == [op |-> "delete", device |-> deviceFromAction, stage |-> "sent"]
  <2>1. calls' \subseteq calls \cup {e} /\ e.op # "edit"
    BY <1>3 DEF DevicesOf!DeleteDevice, DevicesOf!Call
  <2> QED BY <2>1, NoEditSent
<1>4. CASE DevicesOf!SubmitAdoption
  <2>1. PICK d \in Devices :
          DevicesOf!Call([op |-> "adopt", device |-> d, stage |-> "sent",
                          network |-> selectedNetwork])
    BY <1>4 DEF DevicesOf!SubmitAdoption
  <2> DEFINE e == [op |-> "adopt", device |-> d, stage |-> "sent", network |-> selectedNetwork]
  <2>2. calls' \subseteq calls \cup {e} /\ e.op # "edit"
    BY <2>1 DEF DevicesOf!Call
  <2> QED BY <2>2, NoEditSent
<1>5. ASSUME NEW c \in calls, DevicesOf!Serve(c) \/ DevicesOf!Refuse(c) PROVE OneDevice
  <2>1. PICK stage \in {"done", "failed"} : DevicesOf!Becomes(c, stage)
    BY <1>5 DEF DevicesOf!Serve, DevicesOf!Refuse
  <2> DEFINE e == [c EXCEPT !.stage = stage]
  <2>2. calls' \subseteq calls \cup {e}
    BY <2>1 DEF DevicesOf!Becomes
  <2>3. e.stage = stage /\ stage # "sent"
    BY DEF Staged
  <2> QED BY <2>2, <2>3, NoEditSent
<1> QED BY <1>1, <1>2, <1>3, <1>4, <1>5, CallsShrink

(* An edit never mixes two devices: what the user did not type comes from   *)
(* the device that is saved, which is the one whose icon was clicked unless *)
(* that device's data had not arrived.                                      *)
THEOREM EditNeverMixes == PagesSpec => EditsOneDevice
<1>1. DevicesOf!Init => EditInv /\ Staged
  BY EditInit DEF DevicesOf!Init, Staged
<1>2. EditInv /\ Staged /\ [DevicesOf!Next]_DevicesOf!vars
        => (EditInv /\ Staged)' /\ OneDevice
  BY EditStep, StagedStep, OneDeviceStep
<1>3. DevicesOf!Spec => [][OneDevice]_DevicesOf!vars
  BY <1>1, <1>2, PTL DEF DevicesOf!Spec
<1> QED BY <1>3, PagesCompose DEF OneDevice, EditsOneDevice, DevicesOf!EditsOneDevice

-----------------------------------------------------------------------------
(* The dialog of a profile's action.  Whatever it edits has the details of  *)
(* its protocol, authentication over SSH comes only from the stored action, *)
(* and a new one has no mapping typed for another.                          *)
EditorTypeInv ==
  /\ currentAction \in Editor!Action
  /\ pending \in [Mappings -> {"empty", "this", "before"}]
  /\ currentName \in Names \cup {NONE}
  /\ DOMAIN actions \subseteq Names
  /\ \A n \in DOMAIN actions : actions[n] \in Editor!Action

DraftInv ==
  /\ dialogOpen /\ dialogOperation = "create"
       => currentAction.http # "foreign" /\ \A m \in Mappings : pending[m] # "before"
  /\ Editor!DetailsFit(currentAction)
  /\ dialogOpen /\ Editor!AuthOverSsh(currentAction)
       => actionToEdit \in DOMAIN actions /\ Editor!AuthOverSsh(actions[actionToEdit])

EditorInv == EditorTypeInv /\ DraftInv

(* The form of a new action is empty and obeys the schema.                  *)
LEMMA DefaultDraft ==
  /\ Editor!DefaultAction \in Editor!Action
  /\ Editor!DetailsFit(Editor!DefaultAction) /\ ~Editor!AuthOverSsh(Editor!DefaultAction)
  /\ Editor!DefaultAction.http # "foreign"
  /\ Editor!NoPending \in [Mappings -> {"empty", "this", "before"}]
  /\ \A m \in Mappings : Editor!NoPending[m] # "before"
BY DEF Editor!DefaultAction, Editor!Action, Editor!Types, Editor!HttpDetails,
       Editor!DetailsFit, Editor!AuthOverSsh, Editor!NoPending

(* An action that is loaded to be edited gets what it lacks.                *)
LEMMA LoadedDraft ==
  ASSUME NEW a \in Editor!Action
  PROVE  /\ Editor!Loaded(a) \in Editor!Action /\ Editor!DetailsFit(Editor!Loaded(a))
         /\ Editor!AuthOverSsh(Editor!Loaded(a)) => Editor!AuthOverSsh(a)
BY DEF Editor!Loaded, Editor!Action, Editor!Types, Editor!HttpDetails, Editor!DetailsFit,
       Editor!AuthOverSsh

(* No dialog is open at first.                                              *)
LEMMA EditorInit == Editor!Init => EditorInv
<1> SUFFICES ASSUME Editor!Init PROVE EditorInv
  OBVIOUS
<1>1. PICK N \in SUBSET Names : actions \in [N -> Editor!Stored]
  BY DEF Editor!Init
<1>2. \A n \in DOMAIN actions : actions[n] \in Editor!Action
  BY <1>1 DEF Editor!Stored
<1> QED BY <1>1, <1>2, DefaultDraft DEF EditorInv, EditorTypeInv, DraftInv, Editor!Init

(* Steps that store or drop nothing: the draft must be looked at only.      *)
LEMMA DraftStep ==
  ASSUME EditorInv, UNCHANGED actions,
         currentName' \in Names \cup {NONE},
         currentAction' \in Editor!Action, Editor!DetailsFit(currentAction'),
         dialogOpen' /\ Editor!AuthOverSsh(currentAction')
           => actionToEdit' \in DOMAIN actions /\ Editor!AuthOverSsh(actions[actionToEdit']),
         pending' \in [Mappings -> {"empty", "this", "before"}],
         dialogOpen' /\ dialogOperation' = "create"
           => currentAction'.http # "foreign" /\ \A m \in Mappings : pending'[m] # "before"
  PROVE  EditorInv'
BY DEF EditorInv, EditorTypeInv, DraftInv, Editor!DetailsFit, Editor!AuthOverSsh

(* Saving a draft stores it under a name and closes the dialog.             *)
LEMMA SubmitDraft == ASSUME EditorInv, Editor!Submit PROVE EditorInv'
<1>1. /\ currentName \in Names /\ dialogOpen' = FALSE
      /\ actions' \in {actions, Editor!Upserted(currentName)}
      /\ UNCHANGED <<currentName, currentAction, pending>>
  BY DEF Editor!Submit, Editor!UpsertAction, Editor!CloseActionDialog, EditorInv, EditorTypeInv
<1>2. /\ DOMAIN actions' \subseteq Names
      /\ \A n \in DOMAIN actions' :
           actions'[n] = currentAction \/ (n \in DOMAIN actions /\ actions'[n] = actions[n])
  BY <1>1 DEF Editor!Upserted, EditorInv, EditorTypeInv
<1> QED BY <1>1, <1>2 DEF EditorInv, EditorTypeInv, DraftInv, Editor!DetailsFit

(* Deleting an action leaves the draft and the other actions.               *)
LEMMA DeleteDraft ==
  ASSUME EditorInv, NEW n \in DOMAIN actions, Editor!DeleteAction(n)
  PROVE  EditorInv'
<1>1. /\ actions' = [k \in DOMAIN actions \ {n} |-> actions[k]] /\ dialogOpen' = FALSE
      /\ UNCHANGED <<dialogOperation, currentName, currentAction, pending>>
  BY DEF Editor!DeleteAction, Editor!Restrict
<1> QED BY <1>1 DEF EditorInv, EditorTypeInv, DraftInv, Editor!DetailsFit

(* Everything that changes the draft keeps it proper.                       *)
LEMMA EditorKeeps == EditorInv /\ [Editor!Next]_Editor!vars => EditorInv'
<1> SUFFICES ASSUME EditorInv, [Editor!Next]_Editor!vars PROVE EditorInv'
  OBVIOUS
<1> USE DEF EditorInv, EditorTypeInv
<1>1. CASE Editor!OpenCreateDialog \/ Editor!Close
  BY <1>1, DefaultDraft, DraftStep
     DEF Editor!OpenCreateDialog, Editor!Close, Editor!SetDefaultState, Editor!CloseActionDialog
<1>2. ASSUME NEW n \in DOMAIN actions, Editor!OpenEditDialog(n) PROVE EditorInv'
  <2>1. /\ currentName' = n /\ currentAction' = Editor!Loaded(actions[n])
        /\ dialogOperation' = "edit" /\ actionToEdit' = n /\ actions' = actions
        /\ pending' \in [Mappings -> {"empty", "this", "before"}]
    BY <1>2 DEF Editor!OpenEditDialog
  <2>2. /\ Editor!Loaded(actions[n]) \in Editor!Action
        /\ Editor!DetailsFit(Editor!Loaded(actions[n]))
        /\ Editor!AuthOverSsh(Editor!Loaded(actions[n])) => Editor!AuthOverSsh(actions[n])
    BY LoadedDraft
  <2> QED BY <2>1, <2>2, DraftStep
<1>3. CASE Editor!Cancel
  BY <1>3, DraftStep DEF Editor!Cancel, Editor!CloseActionDialog, DraftInv
<1>4. ASSUME NEW n \in Names \cup {NONE}, Editor!NameChange(n) PROVE EditorInv'
  BY <1>4, DraftStep DEF Editor!NameChange, Editor!Edited, DraftInv
<1>5. ASSUME NEW t \in Editor!Types, Editor!SelectType(t) PROVE EditorInv'
  <2>1. /\ currentAction' \in Editor!Action /\ Editor!DetailsFit(currentAction')
        /\ ~Editor!AuthOverSsh(currentAction')
        /\ currentAction'.http = currentAction.http
    BY <1>5 DEF Editor!SelectType, Editor!Action, Editor!DetailsFit, Editor!AuthOverSsh,
                Editor!Types, DraftInv
  <2> QED BY <1>5, <2>1, DraftStep DEF Editor!SelectType, Editor!Edited, DraftInv
<1>6. ASSUME NEW p \in {"http", "ssh"}, Editor!SelectProtocol(p) PROVE EditorInv'
  <2>1. /\ currentAction' \in Editor!Action /\ Editor!DetailsFit(currentAction')
        /\ ~Editor!AuthOverSsh(currentAction')
        /\ currentAction'.http \in {currentAction.http, "absent", "own"}
    BY <1>6 DEF Editor!SelectProtocol, Editor!Action, Editor!DetailsFit, Editor!AuthOverSsh,
                Editor!HttpDetails, DraftInv
  <2> QED BY <1>6, <2>1, DraftStep DEF Editor!SelectProtocol, Editor!Edited, DraftInv
<1>7. ASSUME NEW m, Editor!TypeInto(m) PROVE EditorInv'
  BY <1>7, DraftStep DEF Editor!TypeInto, Editor!Edited, DraftInv
<1>8. ASSUME NEW m, Editor!AddTo(m) PROVE EditorInv'
  <2>1. /\ m \in Mappings
        /\ currentAction' = [currentAction EXCEPT
             !.http = IF pending[m] = "before" THEN "foreign" ELSE currentAction.http]
        /\ pending' = [pending EXCEPT ![m] = "empty"]
        /\ currentAction.protocol = "http" /\ currentAction.http # "absent"
        /\ UNCHANGED <<actions, dialogOpen, dialogOperation, currentName>>
    BY <1>8 DEF Editor!AddTo, Editor!HttpFields, Editor!Edited
  <2>2. /\ currentAction' \in Editor!Action /\ Editor!DetailsFit(currentAction')
        /\ ~Editor!AuthOverSsh(currentAction')
        /\ currentAction'.http = currentAction.http \/ pending[m] = "before"
    BY <2>1 DEF Editor!Action, Editor!DetailsFit, Editor!AuthOverSsh, Editor!HttpDetails, DraftInv
  <2> QED BY <2>1, <2>2, DraftStep DEF DraftInv
<1>9. ASSUME NEW m, Editor!RemoveFrom(m) PROVE EditorInv'
  <2>1. PICK left \in {"own", currentAction.http} :
          currentAction' = [currentAction EXCEPT !.http = left]
    BY <1>9 DEF Editor!RemoveFrom
  <2>2. /\ currentAction' \in Editor!Action /\ Editor!DetailsFit(currentAction')
        /\ ~Editor!AuthOverSsh(currentAction')
        /\ currentAction'.http = left
    BY <1>9, <2>1 DEF Editor!RemoveFrom, Editor!HttpFields, Editor!Action, Editor!DetailsFit,
                      Editor!AuthOverSsh, Editor!HttpDetails, DraftInv
  <2> QED BY <1>9, <2>2, DraftStep DEF Editor!RemoveFrom, Editor!Edited, DraftInv
<1>10. ASSUME NEW n \in DOMAIN actions, Editor!DeleteAction(n) PROVE EditorInv'
  BY <1>10, DeleteDraft
<1>11. CASE Editor!Submit BY <1>11, SubmitDraft
<1>12. CASE UNCHANGED Editor!vars
  BY <1>12, DraftStep DEF Editor!vars, DraftInv
<1> QED BY <1>1, <1>2, <1>3, <1>4, <1>5, <1>6, <1>7, <1>8, <1>9, <1>10, <1>11, <1>12
        DEF Editor!Next, Editor!TypeMapping, Editor!TypeHeaderMapping,
            Editor!TypeQueryParamMapping, Editor!AddMapping, Editor!AddHeaderMapping,
            Editor!AddQueryParamMapping, Editor!RemoveMapping, Editor!RemoveHeaderMapping,
            Editor!RemoveQueryParamMapping

(* The draft has the details of its protocol, and a new draft no mapping    *)
(* typed for another, in every state of the console.                        *)
THEOREM EditorInvariant == PagesSpec => []EditorInv
BY EditorInit, EditorKeeps, PagesCompose, PTL DEF Editor!Spec

(* A new action contains only mappings typed for it; switching types and    *)
(* protocols never leaves the form without the details it reads, nor brings *)
(* authentication over SSH into an action stored without it.                *)
THEOREM DraftIsFresh == PagesSpec => []FreshDraft
<1>1. EditorInv => FreshDraft
  BY DEF EditorInv, DraftInv, FreshDraft, Editor!FreshDraft
<1> QED BY <1>1, EditorInvariant, PTL

(* Saving one action leaves every other as it is.                           *)
THEOREM SubmitSavesOne == PagesSpec => SavesOneAction
<1> DEFINE OthersKept ==
      Editor!Submit => \A n \in DOMAIN actions \union DOMAIN actions' :
       \/ n \in DOMAIN actions /\ n \in DOMAIN actions' /\ actions'[n] = actions[n]
       \/ n = actionToEdit /\ currentName \in DOMAIN actions'
       \/ n = currentName /\ n \notin DOMAIN actions /\ actions'[n] = currentAction
<1>1. OthersKept
  <2> SUFFICES ASSUME Editor!Submit PROVE OthersKept
    OBVIOUS
  <2>1. CASE actions' = actions
    BY <2>1
  <2>2. CASE actions' = Editor!Upserted(currentName) /\ ~Editor!NameTaken(currentName)
    BY <2>2 DEF Editor!Upserted, Editor!NameTaken
  <2> QED BY <2>1, <2>2 DEF Editor!Submit, Editor!UpsertAction
<1>2. Editor!Spec => [][OthersKept]_Editor!vars
  BY <1>1, PTL
<1> QED BY <1>2, PagesCompose DEF OthersKept, SavesOneAction, Editor!SavesOneAction

(* What is for authentication is there already, or there was none.          *)
LEMMA AuthsStep ==
  ASSUME EditorInv, [Editor!Next]_Editor!vars
  PROVE  Editor!Auths(actions') \subseteq Editor!Auths(actions) \/ Editor!Auths(actions) = {}
           \/ \E n : Editor!Auths(actions') = {n} /\ Editor!Auths(actions) = {n}
<1>1. ASSUME NEW n \in DOMAIN actions, Editor!DeleteAction(n)
      PROVE  Editor!Auths(actions') \subseteq Editor!Auths(actions)
  BY <1>1 DEF Editor!DeleteAction, Editor!Restrict, Editor!Auths
<1>2. CASE Editor!Submit
  <2> DEFINE n == currentName
  <2>1. CASE actions' = actions
    BY <2>1
  <2>2. CASE actions' = Editor!Upserted(n) /\ ~Editor!AnotherAuth(n)
    <3>1. CASE currentAction.actionType = "auth"
      <4>1. \A k \in DOMAIN actions : actions[k].actionType = "auth" => k = n
        BY <2>2, <3>1 DEF Editor!AnotherAuth
      <4>2. Editor!Auths(actions) \subseteq {n} /\ Editor!Auths(actions') \subseteq {n}
        BY <2>2, <4>1 DEF Editor!Upserted, Editor!Auths
      <4> QED BY <4>2
    <3>2. CASE currentAction.actionType # "auth"
      BY <2>2, <3>2 DEF Editor!Upserted, Editor!Auths
    <3> QED BY <3>1, <3>2
  <2> QED BY <1>2, <2>1, <2>2 DEF Editor!Submit, Editor!UpsertAction
<1>3. \/ Editor!Submit \/ \E n \in DOMAIN actions : Editor!DeleteAction(n)
      \/ actions' = actions
  BY DEF Editor!Next, Editor!vars, Editor!OpenCreateDialog, Editor!Close, Editor!Cancel,
         Editor!OpenEditDialog, Editor!Edited, Editor!NameChange, Editor!SelectType,
         Editor!SelectProtocol, Editor!TypeInto, Editor!AddTo, Editor!RemoveFrom,
         Editor!TypeMapping, Editor!TypeHeaderMapping, Editor!TypeQueryParamMapping,
         Editor!AddMapping, Editor!AddHeaderMapping, Editor!AddQueryParamMapping,
         Editor!RemoveMapping, Editor!RemoveHeaderMapping, Editor!RemoveQueryParamMapping
<1> QED BY <1>1, <1>2, <1>3

(* The editor counts as every other module does.                            *)
LEMMA EditorCounts == ASSUME NEW S PROVE Editor!Cardinality(S) = Cardinality(S)
BY DEF Editor!Cardinality, Cardinality

(* No sequence of creating, renaming, retyping and deleting actions makes a *)
(* second one for authentication.                                           *)
THEOREM OneAuthOnly == PagesSpec => AuthStaysSingle
<1> DEFINE Single ==
      Editor!Cardinality(Editor!Auths(actions')) > Editor!Cardinality(Editor!Auths(actions))
        => Editor!Auths(actions) = {}
<1>1. ASSUME EditorInv, [Editor!Next]_Editor!vars PROVE Single
  <2>1. IsFiniteSet(Editor!Auths(actions))
    <3>1. Editor!Auths(actions) \subseteq Names
      BY <1>1 DEF Editor!Auths, EditorInv, EditorTypeInv
    <3> QED BY <3>1, PagesAssumption, FS_Subset DEF PagesAssumption
  <2>2. Cardinality(Editor!Auths(actions)) \in Nat
    BY <2>1, FS_CardinalityType
  <2>3. CASE Editor!Auths(actions') \subseteq Editor!Auths(actions)
    <3>1. /\ Cardinality(Editor!Auths(actions')) \in Nat
          /\ Cardinality(Editor!Auths(actions')) <= Cardinality(Editor!Auths(actions))
      BY <2>1, <2>3, FS_Subset, FS_CardinalityType
    <3> QED BY <2>2, <3>1, EditorCounts
  <2>4. CASE Editor!Auths(actions') = Editor!Auths(actions)
    BY <2>2, <2>4, EditorCounts
  <2> QED BY <1>1, <2>3, <2>4, AuthsStep
<1>2. Editor!Spec => [][Single]_Editor!vars
  BY <1>1, EditorInit, EditorKeeps, PTL DEF Editor!Spec
<1> QED BY <1>2, PagesCompose DEF Single, AuthStaysSingle, Editor!AuthStaysSingle

-----------------------------------------------------------------------------
(* Configuration page.  An item carries the payload of its own action; the  *)
(* inputs of the form are empty or were filled for the action selected.     *)
GoodItem ==
  {x \in [id : Nat, action : Executor!Actions, payload : Executor!Actions \cup {NONE}] :
     x.payload = IF Executor!Needs(x.action) THEN x.action ELSE NONE}
Result == [item : Nat, ok : BOOLEAN]
Run == [todo : Seq(GoodItem), done : Seq(Result)]

FormInv ==
  /\ selectedAction \in Executor!Actions \cup {NONE}
  /\ payload \in [Executor!Inputs -> {NONE, selectedAction}]

QueueInv ==
  /\ items \in Nat
  /\ sequence \in Seq(GoodItem)
  /\ reading \subseteq [item : GoodItem, queue : Seq(GoodItem)]

RunsInv ==
  /\ runs \in Seq(Run)
  /\ executing \in 0..Len(runs)
  /\ results \in Seq(Result)

(* A run keeps step with queue s: its results are of the first items, its   *)
(* rest are the others; or it ended at a failure.                           *)
InStep(q, s) ==
  /\ \A i \in 1..Len(q.done) : q.done[i].item = s[i].id
  /\ \/ /\ Len(q.done) + Len(q.todo) = Len(s)
        /\ \A i \in 1..Len(q.todo) : q.todo[i].id = s[Len(q.done) + i].id
        /\ \A i \in 1..Len(q.done) : q.done[i].ok
     \/ /\ q.todo = <<>> /\ q.done # <<>>
        /\ Len(q.done) <= Len(s)
        /\ \A i \in 1..Len(q.done) - 1 : q.done[i].ok
        /\ ~q.done[Len(q.done)].ok

RunInStep == executing # 0 /\ ~changed => InStep(runs[executing], sequence)

ExecutorInv == FormInv /\ QueueInv /\ RunsInv /\ RunInStep /\ ResultsLineUp

(* The page of a device begins with an empty queue.                         *)
LEMMA ExecutorInit == Executor!Init => ExecutorInv
<1> SUFFICES ASSUME Executor!Init PROVE ExecutorInv
  OBVIOUS
<1> USE DEF Executor!Init
<1>1. FormInv
  BY DEF FormInv, Executor!NoPayload
<1>2. QueueInv /\ RunsInv
  BY EmptySeq DEF QueueInv, RunsInv
<1>3. RunInStep /\ ResultsLineUp
  BY DEF RunInStep, ResultsLineUp, Executor!ResultsLineUp
<1> QED BY <1>1, <1>2, <1>3 DEF ExecutorInv

(* What the add button takes from the form.                                 *)
LEMMA NewItemGood ==
  ASSUME ExecutorInv, Executor!CanAdd
  PROVE  Executor!NewItem \in GoodItem
<1>1. /\ selectedAction \in Executor!Actions
      /\ items + 1 \in Nat
  BY DEF ExecutorInv, FormInv, QueueInv, Executor!CanAdd
<1> DEFINE p == IF Executor!Needs(selectedAction) THEN payload[PayloadType[selectedAction]] ELSE NONE
<1>2. p = IF Executor!Needs(selectedAction) THEN selectedAction ELSE NONE
  BY DEF ExecutorInv, FormInv, Executor!CanAdd, Executor!Needs
<1>3. Executor!NewItem = [id |-> items + 1, action |-> selectedAction, payload |-> p]
  BY DEF Executor!NewItem
<1> HIDE DEF p
<1> QED BY <1>1, <1>2, <1>3 DEF GoodItem

(* A queue without one of its items.                                        *)
LEMMA RemovedGood ==
  ASSUME NEW s \in Seq(GoodItem), NEW i \in DOMAIN s
  PROVE  Executor!RemoveAt(s, i) \in Seq(GoodItem)
<1>1. i \in 1..Len(s) /\ Len(s) \in Nat /\ \A j \in 1..Len(s) : s[j] \in GoodItem
  BY ElementOfSeq
<1>2. SubSeq(s, 1, i-1) \in Seq(GoodItem)
  BY <1>1, SubSeqProperties
<1>3. SubSeq(s, i+1, Len(s)) \in Seq(GoodItem)
  BY <1>1, SubSeqProperties
<1> QED BY <1>2, <1>3, ConcatProperties DEF Executor!RemoveAt

(* A step that leaves the runs alone, marks a change of the queue and keeps *)
(* the form and the queue proper.                                           *)
LEMMA QueueStep ==
  ASSUME ExecutorInv, FormInv', QueueInv', changed' = TRUE,
         UNCHANGED <<executing, runs>>, results' \in {results, <<>>}
  PROVE  ExecutorInv'
<1>1. RunsInv'
  BY EmptySeq DEF ExecutorInv, RunsInv
<1>2. RunInStep' /\ ResultsLineUp'
  BY DEF RunInStep, ResultsLineUp, Executor!ResultsLineUp
<1> QED BY <1>1, <1>2 DEF ExecutorInv

(* A step that leaves the runs and the queue alone.                         *)
LEMMA FormStep ==
  ASSUME ExecutorInv, FormInv', QueueInv',
         UNCHANGED <<sequence, executing, results, runs, changed>>
  PROVE  ExecutorInv'
BY DEF ExecutorInv, RunsInv, RunInStep, ResultsLineUp, Executor!ResultsLineUp

(* Inputs that are reset hold nothing.                                      *)
LEMMA ResetForm == Executor!ResetInputs => FormInv'
BY DEF Executor!ResetInputs, Executor!NoPayload, FormInv

(* One more result keeps the run in step with its queue.                    *)
LEMMA ResultInStep ==
  ASSUME NEW r \in DOMAIN runs, RunsInv, runs[r].todo # <<>>, NEW ok \in BOOLEAN
  PROVE  /\ Executor!ActionResult(r, ok) \in Run
         /\ \A s \in Seq(GoodItem) :
              InStep(runs[r], s) => InStep(Executor!ActionResult(r, ok), s)
<1> DEFINE q == runs[r]
           x == [item |-> Head(q.todo).id, ok |-> ok]
           n == Executor!ActionResult(r, ok)
           D == q.done
           T == q.todo
           D2 == n.done
           T2 == Tail(T)
<1>1. T \in Seq(GoodItem) /\ D \in Seq(Result)
  <2>1. q \in Run
    BY ElementOfSeq DEF RunsInv
  <2> QED BY <2>1 DEF Run
<1>2. T # <<>>
  OBVIOUS
<1>3. n.todo = (IF ok THEN T2 ELSE <<>>) /\ D2 = Append(D, x)
  BY DEF Executor!ActionResult
<1>4. n = [todo |-> n.todo, done |-> n.done]
  BY DEF Executor!ActionResult
<1>5. x.item = Head(T).id /\ x.ok = ok /\ (Head(T) \in GoodItem => x \in Result)
  BY DEF Result, GoodItem
<1> HIDE DEF q, x, n, D, T, D2, T2
<1>6. /\ Head(T) \in GoodItem /\ T2 \in Seq(GoodItem)
      /\ Len(T2) = Len(T) - 1
      /\ \A i \in 1..Len(T2) : T2[i] = T[i+1]
  BY <1>1, <1>2, HeadTailProperties DEF T2
<1>7. Len(T) \in Nat \ {0} /\ Len(D) \in Nat
  BY <1>1, <1>2, EmptySeq
<1>8. Head(T) = T[1]
  BY <1>1
<1>9. /\ D2 \in Seq(Result) /\ D2 # <<>> /\ Len(D2) = Len(D) + 1
      /\ \A i \in 1..Len(D) : D2[i] = D[i]
      /\ D2[Len(D) + 1] = x
  BY <1>1, <1>3, <1>5, <1>6, AppendProperties
<1>10. n \in Run
  BY <1>3, <1>4, <1>6, <1>9, EmptySeq DEF Run, D2
<1>11. ASSUME NEW s \in Seq(GoodItem), InStep(q, s) PROVE InStep(n, s)
  <2>1. Len(D) + Len(T) = Len(s)
    BY <1>2, <1>11 DEF InStep, D, T
  <2>2. \A i \in 1..Len(D) : D[i].item = s[i].id
    BY <1>11 DEF InStep, D
  <2>3. \A i \in 1..Len(T) : T[i].id = s[Len(D) + i].id
    BY <1>2, <1>11 DEF InStep, D, T
  <2>4. \A i \in 1..Len(D) : D[i].ok
    BY <1>2, <1>11 DEF InStep, D, T
  <2>5. /\ \A i \in 1..Len(D2) : D2[i].item = s[i].id
        /\ \A i \in 1..Len(T2) : T2[i].id = s[Len(D2) + i].id
    <3>1. x.item = s[Len(D) + 1].id
      BY <1>5, <1>7, <1>8, <2>3
    <3>2. ASSUME NEW i \in 1..Len(D2) PROVE D2[i].item = s[i].id
      <4>1. i \in 1..Len(D) \/ i = Len(D) + 1
        BY <1>7, <1>9
      <4> QED BY <1>9, <2>2, <3>1, <4>1
    <3>3. ASSUME NEW i \in 1..Len(T2) PROVE T2[i].id = s[Len(D2) + i].id
      <4>1. i+1 \in 1..Len(T)
        BY <1>6, <1>7
      <4>2. T2[i] = T[i+1]
        BY <1>6
      <4>3. T[i+1].id = s[Len(D) + (i+1)].id
        BY <2>3, <4>1
      <4>4. Len(D2) + i = Len(D) + (i+1)
        BY <1>7, <1>9
      <4> QED BY <4>2, <4>3, <4>4
    <3> QED BY <3>2, <3>3
  <2>10. Len(D2) + Len(T2) = Len(s)
    <3>1. Len(D2) = Len(D) + 1
      BY <1>9
    <3>2. Len(T2) = Len(T) - 1
      BY <1>6
    <3> QED BY <1>7, <2>1, <3>1, <3>2
  <2>6. Len(D2) - 1 = Len(D) /\ \A i \in 1..Len(D2) - 1 : D2[i].ok
    BY <1>7, <1>9, <2>4
  <2>7. D2[Len(D2)].ok = ok
    BY <1>5, <1>9
  <2>8. CASE ok
    <3>1. n.todo = T2
      BY <1>3, <2>8
    <3>2. ASSUME NEW i \in 1..Len(D2) PROVE D2[i].ok
      <4>1. i \in 1..Len(D2) - 1 \/ i = Len(D2)
        BY <1>7, <1>9
      <4> QED BY <2>6, <2>7, <2>8, <4>1
    <3> QED BY <2>5, <2>10, <3>1, <3>2 DEF InStep, D2
  <2>9. CASE ~ok
    <3>1. n.todo = <<>>
      BY <1>3, <2>9
    <3>2. Len(D2) <= Len(s)
      <4>1. Len(T2) \in Nat /\ Len(D2) \in Nat
        BY <1>6, <1>9, EmptySeq
      <4> QED BY <2>10, <4>1
    <3> QED BY <1>9, <2>5, <2>6, <2>7, <2>9, <3>1, <3>2 DEF InStep, D2
  <2> QED BY <2>8, <2>9
<1> QED BY <1>10, <1>11 DEF q, n

(* The results of a run that is over stand below its items.                 *)
LEMMA AnswerLinesUp ==
  ASSUME ExecutorInv, Executor!Answered
  PROVE  ExecutorInv'
<1> DEFINE q == runs[executing]
<1>1. /\ q.todo = <<>> /\ q.done # <<>>
      /\ results' = q.done /\ executing' = 0
      /\ executing \in 1..Len(runs)
      /\ UNCHANGED <<selectedAction, payload, reading, sequence, runs, items, changed>>
  BY DEF Executor!Answered, ExecutorInv, RunsInv
<1>2. q \in Run
  BY <1>1, ElementOfSeq DEF ExecutorInv, RunsInv
<1>3. q.done \in Seq(Result) /\ Len(q.done) \in Nat \ {0} /\ Len(sequence) \in Nat
  BY <1>1, <1>2, EmptySeq DEF Run, ExecutorInv, QueueInv
<1>4. FormInv' /\ QueueInv' /\ RunsInv' /\ RunInStep'
  BY <1>1, <1>3 DEF ExecutorInv, FormInv, QueueInv, RunsInv, RunInStep
<1>5. ASSUME ~changed
      PROVE  /\ Len(q.done) <= Len(sequence)
             /\ \A i \in DOMAIN q.done : q.done[i].item = sequence[i].id
             /\ \A i \in 1..Len(q.done) - 1 : q.done[i].ok
             /\ Len(q.done) < Len(sequence) => ~q.done[Len(q.done)].ok
  <2>1. InStep(q, sequence)
    BY <1>1, <1>5 DEF ExecutorInv, RunInStep
  <2>2. Len(q.todo) = 0 /\ DOMAIN q.done = 1..Len(q.done)
    BY <1>1, <1>3
  <2> QED BY <1>3, <2>1, <2>2 DEF InStep
<1>6. ResultsLineUp'
  BY <1>1, <1>5 DEF ResultsLineUp, Executor!ResultsLineUp, Executor!Last
<1> QED BY <1>4, <1>6 DEF ExecutorInv

(* A run begins in step with the queue that it copies.                      *)
LEMMA RunStarts ==
  ASSUME ExecutorInv, Executor!ExecuteSequence
  PROVE  ExecutorInv'
<1> DEFINE q == [todo |-> sequence, done |-> <<>>]
<1>1. /\ runs' = Append(runs, q) /\ executing' = Len(runs) + 1 /\ results = <<>>
      /\ UNCHANGED <<selectedAction, payload, reading, sequence, results, items>>
  BY DEF Executor!ExecuteSequence
<1>2. q \in Run
  BY EmptySeq DEF Run, ExecutorInv, QueueInv
<1>3. runs' \in Seq(Run) /\ Len(runs') = Len(runs) + 1 /\ runs'[Len(runs) + 1] = q
  BY <1>1, <1>2, AppendProperties DEF ExecutorInv, RunsInv
<1>4. FormInv' /\ QueueInv' /\ RunsInv'
  BY <1>1, <1>3 DEF ExecutorInv, FormInv, QueueInv, RunsInv
<1>5. InStep(q, sequence)
  BY DEF InStep, ExecutorInv, QueueInv
<1>6. RunInStep' /\ ResultsLineUp'
  BY <1>1, <1>3, <1>5 DEF RunInStep, ResultsLineUp, Executor!ResultsLineUp
<1> QED BY <1>4, <1>6 DEF ExecutorInv

(* A request that fails shows one failed result in place of the run's.      *)
LEMMA ClientResult ==
  ASSUME ExecutorInv, results' = <<Executor!Client>>, executing' = 0,
         Len(runs') = Len(runs), runs' \in Seq(Run),
         UNCHANGED <<selectedAction, payload, reading, sequence, items, changed>>
  PROVE  ExecutorInv'
<1>1. Executor!Client \in Result
  BY DEF Executor!Client, Result
<1>2. FormInv' /\ QueueInv' /\ RunsInv'
  BY <1>1 DEF ExecutorInv, FormInv, QueueInv, RunsInv
<1>3. RunInStep' /\ ResultsLineUp'
  BY DEF RunInStep, ResultsLineUp, Executor!ResultsLineUp
<1> QED BY <1>2, <1>3 DEF ExecutorInv

(* The backend goes on with a run; the page sees nothing of it.             *)
LEMMA RunGoesOn ==
  ASSUME ExecutorInv, NEW r, Executor!ExecuteAction(r)
  PROVE  ExecutorInv'
<1>1. PICK ok \in BOOLEAN : runs' = [runs EXCEPT ![r] = Executor!ActionResult(r, ok)]
  BY DEF Executor!ExecuteAction
<1>2. /\ r \in DOMAIN runs /\ runs[r].todo # <<>>
      /\ UNCHANGED <<selectedAction, payload, reading, sequence, executing, results, items,
                     changed>>
  BY DEF Executor!ExecuteAction, Executor!Unfinished
<1> DEFINE n == Executor!ActionResult(r, ok)
<1>3. n \in Run /\ (InStep(runs[r], sequence) => InStep(n, sequence))
  BY <1>2, ResultInStep DEF ExecutorInv, QueueInv
<1> HIDE DEF n
<1>4. runs' \in Seq(Run) /\ Len(runs') = Len(runs)
  BY <1>1, <1>2, <1>3, ExceptSeq DEF n, ExecutorInv, RunsInv
<1>5. FormInv' /\ QueueInv' /\ RunsInv'
  BY <1>2, <1>4 DEF ExecutorInv, FormInv, QueueInv, RunsInv
<1>6. \A k \in DOMAIN runs : runs'[k] = IF k = r THEN n ELSE runs[k]
  BY <1>1 DEF n, ExecutorInv, RunsInv
<1>7. executing # 0 => executing \in DOMAIN runs
  BY DEF ExecutorInv, RunsInv
<1>8. RunInStep'
  BY <1>2, <1>3, <1>6, <1>7 DEF ExecutorInv, RunInStep
<1>9. ResultsLineUp'
  BY <1>2 DEF ExecutorInv, ResultsLineUp, Executor!ResultsLineUp
<1> QED BY <1>5, <1>8, <1>9 DEF ExecutorInv

(* The backend refuses a run: only the page that awaits it is told.         *)
LEMMA RunRefused ==
  ASSUME ExecutorInv, NEW r, Executor!Refused(r)
  PROVE  ExecutorInv'
<1>1. /\ r \in DOMAIN runs
      /\ runs' = [runs EXCEPT ![r] = [runs[r] EXCEPT !.todo = <<>>]]
      /\ UNCHANGED <<selectedAction, payload, reading, sequence, items, changed>>
  BY DEF Executor!Refused, Executor!Unfinished
<1> DEFINE n == [runs[r] EXCEPT !.todo = <<>>]
<1>2. n \in Run
  <2>1. runs[r] \in Run
    BY <1>1, ElementOfSeq DEF ExecutorInv, RunsInv
  <2> QED BY <2>1, EmptySeq DEF Run
<1> HIDE DEF n
<1>3. runs' \in Seq(Run) /\ Len(runs') = Len(runs)
  BY <1>1, <1>2, ExceptSeq DEF n, ExecutorInv, RunsInv
<1>4. CASE results' = <<Executor!Client>> /\ executing' = 0
  BY <1>1, <1>3, <1>4, ClientResult
<1>5. CASE executing # r /\ UNCHANGED <<results, executing>>
  <2>1. FormInv' /\ QueueInv' /\ RunsInv'
    BY <1>1, <1>3, <1>5 DEF ExecutorInv, FormInv, QueueInv, RunsInv
  <2>2. executing # 0 => runs'[executing] = runs[executing]
    BY <1>1, <1>5 DEF ExecutorInv, RunsInv
  <2>3. RunInStep' /\ ResultsLineUp'
    BY <1>1, <1>5, <2>2 DEF ExecutorInv, RunInStep, ResultsLineUp, Executor!ResultsLineUp
  <2> QED BY <2>1, <2>3 DEF ExecutorInv
<1> QED BY <1>4, <1>5 DEF Executor!Refused

(* Every step of the page or of a run keeps the invariant.                  *)
LEMMA ExecutorKeeps == ExecutorInv /\ [Executor!Next]_Executor!vars => ExecutorInv'
<1> SUFFICES ASSUME ExecutorInv, [Executor!Next]_Executor!vars PROVE ExecutorInv'
  OBVIOUS
<1>1. ASSUME NEW a \in Executor!Actions, Executor!SelectAction(a) PROVE ExecutorInv'
  <2>1. FormInv' /\ QueueInv'
    BY <1>1 DEF Executor!SelectAction, Executor!NoPayload, ExecutorInv, FormInv, QueueInv
  <2> QED BY <1>1, <2>1, FormStep DEF Executor!SelectAction
<1>2. CASE Executor!GivePayload
  <2>1. FormInv' /\ QueueInv'
    BY <1>2 DEF Executor!GivePayload, ExecutorInv, FormInv, QueueInv
  <2> QED BY <1>2, <2>1, FormStep DEF Executor!GivePayload
<1>3. CASE Executor!AddToActionList
  <2>1. QueueInv'
    BY <1>3, NewItemGood, AppendProperties DEF Executor!AddToActionList, ExecutorInv, QueueInv
  <2> QED BY <1>3, <2>1, ResetForm, QueueStep DEF Executor!AddToActionList
<1>4. CASE Executor!StartReading
  <2>1. QueueInv'
    BY <1>4, NewItemGood DEF Executor!StartReading, ExecutorInv, QueueInv
  <2>2. FormInv'
    BY <1>4 DEF Executor!StartReading, ExecutorInv, FormInv
  <2> QED BY <1>4, <2>1, <2>2, FormStep DEF Executor!StartReading
<1>5. ASSUME NEW r \in reading, Executor!FileRead(r) PROVE ExecutorInv'
  <2>1. r.queue \in Seq(GoodItem) /\ r.item \in GoodItem
    BY DEF ExecutorInv, QueueInv
  <2>2. QueueInv'
    BY <1>5, <2>1, AppendProperties DEF Executor!FileRead, ExecutorInv, QueueInv
  <2> QED BY <1>5, <2>2, ResetForm, QueueStep DEF Executor!FileRead
<1>6. ASSUME NEW r \in reading, Executor!FileUnreadable(r) PROVE ExecutorInv'
  <2>1. FormInv' /\ QueueInv'
    BY <1>6 DEF Executor!FileUnreadable, ExecutorInv, FormInv, QueueInv
  <2> QED BY <1>6, <2>1, FormStep DEF Executor!FileUnreadable
<1>7. ASSUME NEW i \in DOMAIN sequence, Executor!RemoveFromList(i) PROVE ExecutorInv'
  <2>1. FormInv' /\ QueueInv'
    BY <1>7, RemovedGood DEF Executor!RemoveFromList, ExecutorInv, FormInv, QueueInv
  <2> QED BY <1>7, <2>1, QueueStep DEF Executor!RemoveFromList
<1>8. CASE Executor!SetDefaultState
  <2>1. QueueInv'
    BY <1>8, EmptySeq DEF Executor!SetDefaultState, ExecutorInv, QueueInv
  <2> QED BY <1>8, <2>1, ResetForm, QueueStep DEF Executor!SetDefaultState
<1>9. CASE Executor!AnswerLost
  BY <1>9, ClientResult DEF Executor!AnswerLost, ExecutorInv, RunsInv
<1>10. CASE UNCHANGED Executor!vars
  <2>1. FormInv' /\ QueueInv'
    BY <1>10 DEF Executor!vars, ExecutorInv, FormInv, QueueInv
  <2> QED BY <1>10, <2>1, FormStep DEF Executor!vars
<1> QED BY <1>1, <1>2, <1>3, <1>4, <1>5, <1>6, <1>7, <1>8, <1>9, <1>10, RunStarts, AnswerLinesUp,
           RunGoesOn, RunRefused DEF Executor!Next

(* Payloads, queue, runs and results keep in step in every state of the     *)
(* console.                                                                 *)
THEOREM ExecutorInvariant == PagesSpec => []ExecutorInv
BY ExecutorInit, ExecutorKeeps, PagesCompose, PTL DEF Executor!Spec

(* Every item in the queue or under way to the device carries the payload   *)
(* that was given for its own action, however the one form is reused while  *)
(* files are being read.                                                    *)
THEOREM PayloadsStayTheirs == PagesSpec => []PayloadOfItsAction
<1>1. ASSUME ExecutorInv PROVE PayloadOfItsAction
  <2>1. ASSUME NEW q \in Seq(GoodItem), NEW i \in DOMAIN q
        PROVE  q[i].payload = IF Executor!Needs(q[i].action) THEN q[i].action ELSE NONE
    <3>1. q[i] \in GoodItem
      BY ElementOfSeq
    <3> QED BY <3>1 DEF GoodItem
  <2>2. \A r \in DOMAIN runs : runs[r].todo \in Seq(GoodItem)
    <3>1. ASSUME NEW r \in DOMAIN runs PROVE runs[r] \in Run
      BY <1>1, ElementOfSeq DEF ExecutorInv, RunsInv
    <3> QED BY <3>1 DEF Run
  <2>3. sequence \in Seq(GoodItem)
    BY <1>1 DEF ExecutorInv, QueueInv
  <2> QED BY <2>1, <2>2, <2>3 DEF PayloadOfItsAction, Executor!PayloadOfItsAction
<1> QED BY <1>1, ExecutorInvariant, PTL

(* The results stand below the items they belong to, unless the queue was   *)
(* changed during the run; and a run stops early only at a failure.         *)
THEOREM ResultsStayInLine == PagesSpec => []ResultsLineUp
<1>1. ExecutorInv => ResultsLineUp
  BY DEF ExecutorInv
<1> QED BY <1>1, ExecutorInvariant, PTL

-----------------------------------------------------------------------------
(* Pages about users.  What the pages, the requests and the store hold.     *)
SomeUser == Users \cup {NONE}
SomeOrg == Orgs \cup {NONE}
PasswordCall == [kind : {"check", "reset"}, user : SomeUser]
PasswordRec == [open : BOOLEAN, step : {1, 2}, calls : SUBSET PasswordCall,
                verified : SomeUser, stray : BOOLEAN]
ManageRec == [address : SomeUser, shown : SomeUser, form : SomeUser, org : SomeOrg,
              changed : BOOLEAN, isLoading : BOOLEAN, switched : BOOLEAN,
              password : PasswordRec]
ListingRec == [rows : SUBSET Users, creating : {"closed", "form", "registering", "credentials"},
               confirm : SomeUser]
SessionRec == [id : Users, org : SomeOrg]
UpdateRec == [by : {"form", "tabs"}, target : SomeUser, data : SomeUser, org : SomeOrg,
              permission : BOOLEAN, me : SessionRec, mounted : BOOLEAN, switched : BOOLEAN,
              stage : {"create", "sent", "checked", "done"}]

(* The users there are or were: nobody becomes one of them a second time.   *)
Known == users \cup deleted

(* The form shows the user it was filled with, unless the address changed   *)
(* under it; before it is there nothing happens to a password.              *)
FormShown(m) ==
  /\ m.form # NONE => m.switched \/ (m.form = m.shown /\ m.shown = m.address)
  /\ m.form = NONE => ~m.password.open /\ m.password.step = 1 /\ m.password.calls = {}

(* A check under way is of the user shown, and of the dialog that is open,  *)
(* unless the dialog noted that it went astray.                             *)
ChecksShown(m) ==
  /\ \A c \in m.password.calls :
       c.kind = "check" => /\ m.switched \/ c.user = m.shown
                           /\ m.password.open \/ m.password.stray
  /\ m.password.step = 2 => \/ m.password.stray \/ m.switched
                            \/ m.password.open /\ m.password.verified = m.shown

ManageOK(m) == m \in ManageRec /\ FormShown(m) /\ ChecksShown(m)

(* A request saves the data of its user, or follows a change of address;    *)
(* one of the tabs is about the session's user at the time.                 *)
UpdateOK(q) ==
  /\ q \in UpdateRec
  /\ q.by = "form" => q.data = q.target \/ q.switched
  /\ q.by = "tabs" => q.target = q.me.id

(* Unless updates overlapped there is at most one; while it has not been    *)
(* served the session agrees with the backend, and from then on it would    *)
(* but for the user and the organization of the update.                     *)
Agrees == session.org = memberOf[session.id]

SessionFollows ==
  ~overlapped =>
    /\ \A p, q \in updates : p = q
    /\ \A q \in updates : q.stage = "done" => /\ memberOf[q.target] = q.org
                                              /\ session.id = q.target \/ Agrees
    /\ (\A q \in updates : q.stage # "done") => Agrees

BackendInv ==
  /\ users \subseteq Users /\ deleted \subseteq Users /\ orgs \subseteq Orgs
  /\ memberOf \in [Users -> SomeOrg]
  /\ listing \in ListingRec
  /\ selectedOrg \in SomeOrg

ManageInv ==
  /\ ManageOK(manage)
  /\ manage.form # NONE => manage.shown \in Known

UpdatesInv ==
  /\ session \in SessionRec /\ session.id \in Known
  /\ overlapped \in BOOLEAN
  /\ \A q \in updates : UpdateOK(q) /\ q.target \in Known /\ q.me.id \in Known

UsersInv == BackendInv /\ ManageInv /\ UpdatesInv /\ SessionFollows

-----------------------------------------------------------------------------
(* A page of a user that is not shown, or just shown, has no form yet.      *)
LEMMA NoManageOK ==
  /\ ManageOK(UsersOf!NoManage) /\ UsersOf!NoManage.form = NONE
  /\ \A u \in Users : ManageOK(UsersOf!Visit(u)) /\ UsersOf!Visit(u).form = NONE
<1>1. UsersOf!NoPassword \in PasswordRec
  BY DEF UsersOf!NoPassword, PasswordRec, SomeUser
<1>2. UsersOf!NoManage \in ManageRec
  BY <1>1 DEF UsersOf!NoManage, ManageRec, SomeUser, SomeOrg
<1>3. ASSUME NEW u \in Users PROVE UsersOf!Visit(u) \in ManageRec
  BY <1>2 DEF UsersOf!Visit, ManageRec, SomeUser
<1>4. ASSUME NEW m \in ManageRec, m.form = NONE, m.password = UsersOf!NoPassword
      PROVE  ManageOK(m)
  BY <1>4 DEF ManageOK, FormShown, ChecksShown, UsersOf!NoPassword
<1>5. UsersOf!NoManage.form = NONE /\ UsersOf!NoManage.password = UsersOf!NoPassword
  BY DEF UsersOf!NoManage
<1>6. ASSUME NEW u \in Users
      PROVE  UsersOf!Visit(u).form = NONE /\ UsersOf!Visit(u).password = UsersOf!NoPassword
  BY DEF UsersOf!Visit, UsersOf!NoManage
<1> QED BY <1>2, <1>3, <1>4, <1>5, <1>6

(* The pages about users begin without requests.                            *)
LEMMA UsersInit == UsersOf!Init => UsersInv
<1> SUFFICES ASSUME UsersOf!Init PROVE UsersInv
  OBVIOUS
<1> USE DEF UsersOf!Init
<1>1. memberOf \in [Users -> SomeOrg] /\ orgs \subseteq Orgs
  BY PagesAssumption DEF PagesAssumption, SomeOrg
<1>2. BackendInv
  BY <1>1, PagesAssumption
     DEF BackendInv, PagesAssumption, ListingRec, UsersOf!NoListing, SomeUser, SomeOrg
<1>3. ManageInv
  BY NoManageOK DEF ManageInv
<1>4. UpdatesInv /\ SessionFollows
  BY <1>1, PagesAssumption
     DEF UpdatesInv, SessionFollows, Agrees, PagesAssumption, SessionRec, Known
<1> QED BY <1>2, <1>3, <1>4 DEF UsersInv

(* Nothing of the session, the requests and the memberships changes; users  *)
(* may come and go in the backend.                                          *)
LEMMA RequestsKept ==
  ASSUME UsersInv, UNCHANGED <<session, updates, overlapped>>, Known \subseteq Known',
         \A u \in Known : memberOf'[u] = memberOf[u]
  PROVE  UpdatesInv' /\ SessionFollows'
<1>1. UpdatesInv'
  BY DEF UsersInv, UpdatesInv
<1>2. Agrees' <=> Agrees
  BY DEF UsersInv, UpdatesInv, Agrees
<1>3. \A q \in updates : memberOf'[q.target] = memberOf[q.target]
  BY DEF UsersInv, UpdatesInv
<1>4. SessionFollows'
  BY <1>2, <1>3 DEF UsersInv, SessionFollows
<1> QED BY <1>1, <1>4

(* A step that changes nobody's membership keeps the page of a user proper. *)
LEMMA ManageKept ==
  ASSUME UsersInv, UNCHANGED manage, Known \subseteq Known'
  PROVE  ManageInv'
BY DEF UsersInv, ManageInv

(* The Users page: only a new user gets a membership.                       *)
LEMMA Registered ==
  ASSUME UsersInv, NEW u, UsersOf!Register(u)
  PROVE  /\ Known \subseteq Known' /\ \A v \in Known : memberOf'[v] = memberOf[v]
         /\ users' \subseteq Users /\ deleted' = deleted /\ orgs' = orgs
         /\ memberOf' \in [Users -> SomeOrg]
BY DEF UsersOf!Register, UsersInv, BackendInv, Known, SomeOrg

(* The list of users and its dialogs.                                       *)
LEMMA ListStep == ASSUME UsersInv, UsersOf!List PROVE UsersInv'
<1>1. UNCHANGED <<session, updates, manage, selectedOrg, overlapped>>
  BY DEF UsersOf!List, UsersOf!RowsArrive, UsersOf!OpenUserCreationDialog,
         UsersOf!CloseUserCreationDialog, UsersOf!RegisterUser, UsersOf!RegistrationFails,
         UsersOf!CloseConfirmation, UsersOf!DeleteUser,
         UsersOf!DeleteUserConfirmationRequired, UsersOf!UserRegistered, UsersOf!OnList
<1>2. \/ UNCHANGED UsersOf!backend
      \/ \E u \in Users : UsersOf!Register(u)
      \/ /\ listing.confirm # NONE /\ users' = users \ {listing.confirm}
         /\ deleted' = deleted \cup {listing.confirm} /\ UNCHANGED <<orgs, memberOf>>
  BY DEF UsersOf!List, UsersOf!RowsArrive, UsersOf!OpenUserCreationDialog,
         UsersOf!CloseUserCreationDialog, UsersOf!RegisterUser, UsersOf!RegistrationFails,
         UsersOf!CloseConfirmation, UsersOf!DeleteUser,
         UsersOf!DeleteUserConfirmationRequired, UsersOf!UserRegistered, UsersOf!backend
<1>3. /\ Known \subseteq Known' /\ \A v \in Known : memberOf'[v] = memberOf[v]
      /\ users' \subseteq Users /\ deleted' \subseteq Users /\ orgs' \subseteq Orgs
      /\ memberOf' \in [Users -> SomeOrg]
  <2>1. CASE UNCHANGED UsersOf!backend
    BY <2>1 DEF UsersOf!backend, Known, UsersInv, BackendInv
  <2>2. CASE \E u \in Users : UsersOf!Register(u)
    BY <2>2, Registered DEF UsersInv, BackendInv
  <2>3. CASE /\ listing.confirm # NONE /\ users' = users \ {listing.confirm}
             /\ deleted' = deleted \cup {listing.confirm} /\ UNCHANGED <<orgs, memberOf>>
    BY <2>3 DEF Known, UsersInv, BackendInv, ListingRec, SomeUser
  <2> QED BY <1>2, <2>1, <2>2, <2>3
<1>4. listing' \in ListingRec
  BY DEF UsersOf!List, UsersOf!RowsArrive, UsersOf!OpenUserCreationDialog,
         UsersOf!CloseUserCreationDialog, UsersOf!RegisterUser, UsersOf!RegistrationFails,
         UsersOf!CloseConfirmation, UsersOf!DeleteUser,
         UsersOf!DeleteUserConfirmationRequired, UsersOf!UserRegistered, UsersInv, BackendInv,
         ListingRec, SomeUser
<1>5. BackendInv'
  BY <1>1, <1>3, <1>4 DEF UsersInv, BackendInv
<1> QED BY <1>1, <1>3, <1>5, RequestsKept, ManageKept DEF UsersInv

-----------------------------------------------------------------------------
(* Going to another page: the requests run on, unmounted.                   *)
LEMMA Unmounted ==
  ASSUME NEW q, UpdateOK(q)
  PROVE  LET n == [q EXCEPT !.mounted = FALSE]
         IN  /\ UpdateOK(n)
             /\ n.target = q.target /\ n.org = q.org /\ n.stage = q.stage /\ n.me = q.me
BY DEF UpdateOK, UpdateRec

(* Going from one page about users to another.                              *)
LEMMA GotoStep ==
  ASSUME UsersInv, NEW p, NEW m, UsersOf!Goto(p, m), ManageOK(m), m.form = NONE,
         UNCHANGED <<users, deleted, orgs, memberOf, session, overlapped>>
  PROVE  UsersInv'
<1>1. /\ listing' = UsersOf!NoListing /\ manage' = m /\ selectedOrg' = NONE
      /\ updates' = {[q EXCEPT !.mounted = FALSE] : q \in updates}
  BY DEF UsersOf!Goto
<1>2. BackendInv'
  BY <1>1 DEF UsersInv, BackendInv, UsersOf!NoListing, ListingRec, SomeUser, SomeOrg
<1>3. ManageInv'
  BY <1>1 DEF ManageInv
<1>4. Known' = Known /\ (Agrees' <=> Agrees)
  BY DEF Known, Agrees
<1>5. \A n \in updates' : \E q \in updates :
        /\ n = [q EXCEPT !.mounted = FALSE] /\ UpdateOK(n)
        /\ n.target = q.target /\ n.org = q.org /\ n.stage = q.stage /\ n.me = q.me
  <2> TAKE n \in updates'
  <2>1. PICK q \in updates : n = [q EXCEPT !.mounted = FALSE]
    BY <1>1
  <2>2. UpdateOK(q)
    BY DEF UsersInv, UpdatesInv
  <2>3. /\ UpdateOK(n)
        /\ n.target = q.target /\ n.org = q.org /\ n.stage = q.stage /\ n.me = q.me
    BY <2>1, <2>2, Unmounted
  <2> QED BY <2>1, <2>3
<1>6. UpdatesInv'
  BY <1>4, <1>5 DEF UsersInv, UpdatesInv
<1>7. SessionFollows'
  <2> SUFFICES ASSUME ~overlapped
               PROVE  /\ \A a, b \in updates' : a = b
                      /\ \A n \in updates' : n.stage = "done" => /\ memberOf[n.target] = n.org
                                                                 /\ session.id = n.target \/ Agrees
                      /\ (\A n \in updates' : n.stage # "done") => Agrees
    BY <1>4 DEF SessionFollows
  <2>1. \A a, b \in updates : a = b
    BY DEF UsersInv, SessionFollows
  <2>2. \A a, b \in updates' : a = b
    BY <1>1, <2>1
  <2>3. \A n \in updates' : n.stage = "done" => /\ memberOf[n.target] = n.org
                                                /\ session.id = n.target \/ Agrees
    BY <1>5 DEF UsersInv, SessionFollows
  <2>4. (\A n \in updates' : n.stage # "done") => Agrees
    <3> SUFFICES ASSUME \A n \in updates' : n.stage # "done" PROVE Agrees
      OBVIOUS
    <3>1. ASSUME NEW q \in updates PROVE q.stage # "done"
      <4>1. [q EXCEPT !.mounted = FALSE] \in updates'
        BY <1>1
      <4>2. [q EXCEPT !.mounted = FALSE].stage = q.stage
        BY Unmounted DEF UsersInv, UpdatesInv
      <4> QED BY <4>1, <4>2
    <3> QED BY <3>1 DEF UsersInv, SessionFollows
  <2> QED BY <2>2, <2>3, <2>4
<1> QED BY <1>2, <1>3, <1>6, <1>7 DEF UsersInv

(* The ways from page to page.                                              *)
LEMMA VisitsStep ==
  ASSUME UsersInv,
         \/ UsersOf!SideMenu \/ UsersOf!MyAccount \/ UsersOf!SentAway \/ UsersOf!LogoutTimer
         \/ \E u \in Users : UsersOf!HandleEditUser(u)
  PROVE  UsersInv'
<1> USE DEF UsersOf!backend
<1>1. ASSUME UsersOf!SideMenu \/ UsersOf!SentAway \/ UsersOf!LogoutTimer PROVE UsersInv'
  BY <1>1, GotoStep, NoManageOK DEF UsersOf!SideMenu, UsersOf!SentAway, UsersOf!LogoutTimer
<1>2. ASSUME NEW u \in Users, UsersOf!HandleEditUser(u) PROVE UsersInv'
  BY <1>2, GotoStep, NoManageOK DEF UsersOf!HandleEditUser
<1>3. CASE UsersOf!MyAccount
  <2>1. CASE UsersOf!Goto("manage", UsersOf!Visit(Me))
    BY <1>3, <2>1, GotoStep, NoManageOK, PagesAssumption DEF UsersOf!MyAccount, PagesAssumption
  <2>2. CASE /\ manage' = [manage EXCEPT !.address = Me,
                             !.switched = (manage.switched \/ manage.form # NONE)]
             /\ UNCHANGED <<updates, place, listing, selectedOrg>>
    <3>1. UNCHANGED <<users, deleted, orgs, memberOf, session, overlapped>>
      BY <1>3 DEF UsersOf!MyAccount
    <3>2. /\ manage' \in ManageRec /\ manage'.form = manage.form /\ manage'.shown = manage.shown
          /\ manage'.password = manage.password
          /\ manage'.switched = (manage.switched \/ manage.form # NONE)
      BY <2>2, PagesAssumption DEF UsersInv, ManageInv, ManageOK, ManageRec, SomeUser,
           PagesAssumption
    <3>3. ManageOK(manage')
      BY <3>2 DEF UsersInv, ManageInv, ManageOK, FormShown, ChecksShown
    <3>4. ManageInv'
      BY <3>1, <3>2, <3>3 DEF UsersInv, ManageInv, Known
    <3> QED BY <2>2, <3>1, <3>4, RequestsKept DEF UsersInv, BackendInv, Known
  <2> QED BY <1>3, <2>1, <2>2 DEF UsersOf!MyAccount
<1> QED BY <1>1, <1>2, <1>3

-----------------------------------------------------------------------------
(* The page of one user: its form and its dialog; no request is sent.       *)
LEMMA StillManagedStep ==
  ASSUME UsersInv, UsersOf!StillManaged, ManageOK(manage'),
         manage'.form # NONE => manage'.shown \in Known
  PROVE  UsersInv'
<1>1. UNCHANGED <<users, deleted, orgs, memberOf, session, updates, overlapped, listing,
                  selectedOrg>>
  BY DEF UsersOf!StillManaged, UsersOf!OnManage, UsersOf!backend
<1>2. BackendInv' /\ ManageInv'
  BY <1>1 DEF UsersInv, BackendInv, ManageInv, Known
<1> QED BY <1>1, <1>2, RequestsKept DEF UsersInv, Known

(* What happens to the form of one user.                                    *)
LEMMA FormStepOfUser ==
  ASSUME UsersInv,
         \/ UsersOf!UserInfoArrives \/ UsersOf!FieldChange
         \/ \E o \in Orgs : UsersOf!SelectOrgOfUser(o)
  PROVE  UsersInv'
<1>1. manage \in ManageRec /\ FormShown(manage) /\ ChecksShown(manage)
  BY DEF UsersInv, ManageInv, ManageOK
<1>2. CASE UsersOf!UserInfoArrives
  <2>1. /\ UsersOf!StillManaged /\ manage.shown # manage.address
        /\ manage.address \in users
    BY <1>2 DEF UsersOf!UserInfoArrives
  <2>2. CASE manage.form = NONE
    <3>1. manage' = [manage EXCEPT !.shown = manage.address, !.form = manage.address,
                                   !.org = memberOf[manage.address]]
      BY <1>2, <2>2 DEF UsersOf!UserInfoArrives
    <3>2. manage.address \in Users /\ memberOf[manage.address] \in SomeOrg
      BY <2>1 DEF UsersInv, BackendInv
    <3>3. /\ manage' \in ManageRec /\ manage'.form = manage.address
          /\ manage'.shown = manage.address /\ manage'.address = manage.address
          /\ manage'.password = manage.password
      BY <1>1, <3>1, <3>2 DEF ManageRec, SomeUser
    <3>4. ManageOK(manage')
      BY <1>1, <2>2, <3>3 DEF ManageOK, FormShown, ChecksShown
    <3> QED BY <2>1, <3>3, <3>4, StillManagedStep DEF Known
  <2>3. CASE manage.form # NONE
    <3>1. manage' = [manage EXCEPT !.shown = manage.address]
      BY <1>2, <2>3 DEF UsersOf!UserInfoArrives
    <3>2. /\ manage' \in ManageRec /\ manage'.form = manage.form
          /\ manage'.shown = manage.address /\ manage'.switched = manage.switched
          /\ manage'.password = manage.password
      BY <1>1, <3>1 DEF ManageRec
    <3>3. manage.switched
      BY <1>1, <2>1, <2>3 DEF FormShown
    <3>4. ManageOK(manage')
      BY <1>1, <2>3, <3>2, <3>3 DEF ManageOK, FormShown, ChecksShown
    <3> QED BY <2>1, <3>2, <3>4, StillManagedStep DEF Known
  <2> QED BY <2>2, <2>3
<1>3. CASE UsersOf!FieldChange \/ \E o \in Orgs : UsersOf!SelectOrgOfUser(o)
  <2>1. PICK o \in SomeOrg : manage' = [manage EXCEPT !.changed = TRUE, !.org = o]
    <3>1. CASE UsersOf!FieldChange
      <4>1. manage' = [manage EXCEPT !.changed = TRUE]
        BY <3>1 DEF UsersOf!FieldChange
      <4>2. manage.org \in SomeOrg /\ manage' = [manage EXCEPT !.changed = TRUE, !.org = manage.org]
        BY <1>1, <4>1 DEF ManageRec
      <4> QED BY <4>2
    <3>2. CASE \E o \in Orgs : UsersOf!SelectOrgOfUser(o)
      BY <3>2 DEF UsersOf!SelectOrgOfUser, SomeOrg
    <3> QED BY <1>3, <3>1, <3>2
  <2>2. /\ manage' \in ManageRec /\ manage'.form = manage.form /\ manage'.shown = manage.shown
        /\ manage'.address = manage.address /\ manage'.switched = manage.switched
        /\ manage'.password = manage.password
    BY <1>1, <2>1 DEF ManageRec
  <2>3. ManageOK(manage')
    BY <1>1, <2>2 DEF ManageOK, FormShown, ChecksShown
  <2>4. UsersOf!StillManaged
    BY <1>3 DEF UsersOf!FieldChange, UsersOf!SelectOrgOfUser
  <2> QED BY <2>2, <2>3, <2>4, StillManagedStep DEF UsersInv, ManageInv
<1> QED BY <1>2, <1>3

-----------------------------------------------------------------------------
(* The dialog that changes a password, d its new state.                     *)
DialogOK(d) ==
  /\ d \in PasswordRec
  /\ \A c \in d.calls :
       c.kind = "check" => (manage.switched \/ c.user = manage.shown) /\ (d.open \/ d.stray)
  /\ d.step = 2 => \/ d.stray \/ manage.switched
                   \/ d.open /\ d.verified = manage.shown

(* The password dialog of the page is proper.                               *)
LEMMA DialogIsOK == ASSUME UsersInv PROVE DialogOK(manage.password)
<1>1. manage \in ManageRec
  BY DEF UsersInv, ManageInv, ManageOK
<1>2. manage.password \in PasswordRec
  BY <1>1 DEF ManageRec
<1> QED BY <1>2 DEF UsersInv, ManageInv, ManageOK, ChecksShown, DialogOK

(* A step that leaves a proper dialog leaves a proper page.                 *)
LEMMA PasswordStep ==
  ASSUME UsersInv, NEW d, UsersOf!Password(d), manage.form # NONE, DialogOK(d)
  PROVE  UsersInv'
<1>1. manage' = [manage EXCEPT !.password = d] /\ UsersOf!StillManaged
  BY DEF UsersOf!Password
<1>2. manage \in ManageRec /\ FormShown(manage)
  BY DEF UsersInv, ManageInv, ManageOK
<1>3. /\ manage' \in ManageRec /\ manage'.password = d
      /\ manage'.form = manage.form /\ manage'.shown = manage.shown
      /\ manage'.address = manage.address /\ manage'.switched = manage.switched
  BY <1>1, <1>2 DEF ManageRec, DialogOK
<1>4. FormShown(manage')
  BY <1>2, <1>3 DEF FormShown
<1>5. ChecksShown(manage')
  BY <1>3 DEF ChecksShown, DialogOK
<1> QED BY <1>1, <1>3, <1>4, <1>5, StillManagedStep DEF ManageOK, UsersInv, ManageInv

(* The dialog, closed: a check that is under way has gone astray.           *)
LEMMA ClosedOK ==
  ASSUME UsersInv
  PROVE  /\ DialogOK(UsersOf!Closed(manage.password))
         /\ UsersOf!Closed(manage.password).calls = manage.password.calls
<1> DEFINE p == manage.password
           s == p.stray \/ \E c \in p.calls : c.kind = "check"
           d == [p EXCEPT !.open = FALSE, !.step = 1, !.verified = NONE, !.stray = s]
<1>1. DialogOK(p)
  BY DialogIsOK
<1>2. s \in BOOLEAN
  BY <1>1 DEF DialogOK, PasswordRec
<1>3. UsersOf!Closed(p) = d
  BY DEF UsersOf!Closed
<1>4. p \in PasswordRec
  BY <1>1 DEF DialogOK
<1>5. (p.stray \/ \E c \in p.calls : c.kind = "check") <=> s
  OBVIOUS
<1> HIDE DEF p, s
<1>6. d \in PasswordRec /\ d.calls = p.calls /\ d.step = 1 /\ d.stray = s
  BY <1>2, <1>4 DEF PasswordRec, SomeUser
<1> HIDE DEF d
<1>7. DialogOK(d)
  BY <1>1, <1>5, <1>6 DEF DialogOK
<1> QED BY <1>3, <1>6, <1>7 DEF p

(* Dropping a call that was answered keeps a dialog proper.                 *)
LEMMA DropCall ==
  ASSUME NEW d, DialogOK(d), NEW c
  PROVE  DialogOK([d EXCEPT !.calls = d.calls \ {c}])
<1> DEFINE n == [d EXCEPT !.calls = d.calls \ {c}]
<1>1. /\ n \in PasswordRec /\ n.calls = d.calls \ {c} /\ n.open = d.open /\ n.step = d.step
      /\ n.stray = d.stray /\ n.verified = d.verified
  BY DEF DialogOK, PasswordRec
<1> HIDE DEF n
<1>2. DialogOK(n)
  BY <1>1 DEF DialogOK
<1> QED BY <1>2 DEF n

(* The current password was accepted: the user checked is the one shown, or *)
(* the dialog knows that it may be another.                                 *)
LEMMA CheckedOK ==
  ASSUME UsersInv, NEW c \in manage.password.calls, c.kind = "check", NEW valid \in BOOLEAN
  PROVE  DialogOK(UsersOf!Checked(c, valid))
<1> DEFINE p == manage.password
           n == [p EXCEPT !.step = 2, !.calls = p.calls \ {c}, !.verified = c.user]
<1>1. DialogOK(p)
  BY DialogIsOK
<1>2. c.user \in SomeUser
  BY <1>1 DEF DialogOK, PasswordRec, PasswordCall
<1>3. CASE valid
  <2>1. UsersOf!Checked(c, valid) = n
    BY <1>3 DEF UsersOf!Checked, UsersOf!Dialog
  <2>2. manage.switched \/ c.user = manage.shown
    BY <1>1 DEF DialogOK
  <2>3. p.open \/ p.stray
    BY <1>1 DEF DialogOK
  <2>4. \A b \in p.calls : b.kind = "check" => manage.switched \/ b.user = manage.shown
    BY <1>1 DEF DialogOK
  <2>5. p \in PasswordRec
    BY <1>1 DEF DialogOK
  <2> HIDE DEF p
  <2>6. /\ n \in PasswordRec /\ n.calls = p.calls \ {c} /\ n.open = p.open
        /\ n.stray = p.stray /\ n.verified = c.user
    BY <1>2, <2>5 DEF PasswordRec
  <2> HIDE DEF n
  <2>7. DialogOK(n)
    BY <2>2, <2>3, <2>4, <2>6 DEF DialogOK
  <2> QED BY <2>1, <2>7
<1>4. CASE ~valid
  BY <1>1, <1>4, DropCall DEF UsersOf!Checked, UsersOf!Dialog
<1> QED BY <1>3, <1>4

(* The password dialog, its checks and their answers.                       *)
LEMMA PasswordDialogStep == ASSUME UsersInv, UsersOf!PasswordDialog PROVE UsersInv'
<1> DEFINE p == manage.password
<1>1. DialogOK(p) /\ p \in PasswordRec
  BY DialogIsOK DEF DialogOK
<1>2. FormShown(manage) /\ manage.shown \in SomeUser
  BY DEF UsersInv, ManageInv, ManageOK, ManageRec
<1>3. p.open \/ p.calls # {} => manage.form # NONE
  BY <1>2 DEF FormShown
<1> USE DEF UsersOf!Dialog
<1>4. CASE UsersOf!OpenPasswordResetDialog
  <2> DEFINE d == [p EXCEPT !.open = TRUE]
  <2>1. /\ d \in PasswordRec /\ d.calls = p.calls /\ d.open = TRUE /\ d.step = p.step
        /\ d.stray = p.stray /\ d.verified = p.verified
    BY <1>1 DEF PasswordRec
  <2>2. ~p.open /\ UsersOf!Password(d) /\ manage.form # NONE
    BY <1>4 DEF UsersOf!OpenPasswordResetDialog
  <2> HIDE DEF d
  <2>3. DialogOK(d)
    BY <1>1, <2>1, <2>2 DEF DialogOK
  <2> QED BY <2>2, <2>3, PasswordStep
<1>5. CASE UsersOf!ClosePasswordResetDialog
  BY <1>3, <1>5, ClosedOK, PasswordStep DEF UsersOf!ClosePasswordResetDialog
<1>6. CASE UsersOf!HandleValidateStep1 \/ UsersOf!HandleResetStep2
  <2>1. PICK kind_ \in {"check", "reset"} :
          UsersOf!Password([p EXCEPT !.calls = p.calls \cup {[kind |-> kind_, user |-> manage.shown]}])
    BY <1>6 DEF UsersOf!HandleValidateStep1, UsersOf!HandleResetStep2
  <2> DEFINE c == [kind |-> kind_, user |-> manage.shown]
             d == [p EXCEPT !.calls = p.calls \cup {c}]
  <2>2. p.open
    BY <1>6 DEF UsersOf!HandleValidateStep1, UsersOf!HandleResetStep2, UsersOf!CanCall
  <2>3. c \in PasswordCall /\ c.user = manage.shown
    BY <1>2 DEF PasswordCall
  <2> HIDE DEF c
  <2>4. /\ d \in PasswordRec /\ d.calls = p.calls \cup {c} /\ d.open = p.open /\ d.step = p.step
        /\ d.stray = p.stray /\ d.verified = p.verified
    BY <1>1, <2>3 DEF PasswordRec
  <2> HIDE DEF d
  <2>5. DialogOK(d)
    BY <1>1, <2>2, <2>3, <2>4 DEF DialogOK
  <2> QED BY <1>3, <2>1, <2>2, <2>5, PasswordStep DEF d, c
<1>7. ASSUME NEW c \in p.calls, UsersOf!PasswordChecked(c) PROVE UsersInv'
  BY <1>3, <1>7, CheckedOK, PasswordStep DEF UsersOf!PasswordChecked
<1>8. ASSUME NEW c \in p.calls, UsersOf!PasswordReset(c) PROVE UsersInv'
  <2>1. CASE UsersOf!Password([p EXCEPT !.calls = p.calls \ {c}])
    BY <1>1, <1>3, <2>1, DropCall, PasswordStep
  <2>2. CASE UsersOf!Password([UsersOf!Closed(p) EXCEPT !.calls = UsersOf!Closed(p).calls \ {c}])
    BY <1>3, <2>2, ClosedOK, DropCall, PasswordStep
  <2> QED BY <1>8, <2>1, <2>2 DEF UsersOf!PasswordReset
<1> QED BY <1>4, <1>5, <1>6, <1>7, <1>8 DEF UsersOf!PasswordDialog

-----------------------------------------------------------------------------
(* A request that is sent: the first, or updates overlap from now on.       *)
LEMMA CallStep ==
  ASSUME UsersInv, NEW q, UsersOf!Call(q), UpdateOK(q), q.target \in Known, q.me.id \in Known,
         q.stage # "done",
         UNCHANGED <<users, deleted, orgs, memberOf, session>>
  PROVE  UpdatesInv' /\ SessionFollows'
<1>1. updates' = updates \cup {q} /\ overlapped' = (overlapped \/ updates # {})
  BY DEF UsersOf!Call
<1>2. UpdatesInv'
  BY <1>1 DEF UsersInv, UpdatesInv, Known
<1>3. SessionFollows'
  <2>1. CASE updates = {} /\ ~overlapped
    BY <1>1, <2>1 DEF UsersInv, SessionFollows, Agrees
  <2>2. CASE overlapped \/ updates # {}
    BY <1>1, <2>2 DEF SessionFollows
  <2> QED BY <2>1, <2>2 DEF UsersInv, UpdatesInv
<1> QED BY <1>2, <1>3

(* The request of the form is a proper one.                                 *)
LEMMA FormUpdateMade ==
  ASSUME UsersInv, NEW t \in Known, NEW d \in SomeUser, NEW o \in SomeOrg, NEW p \in BOOLEAN,
         d = t \/ manage.switched
  PROVE  LET q == UsersOf!Update("form", t, d, o, p)
         IN  /\ UpdateOK(q) /\ q.target = t /\ q.me = session /\ q.stage = "sent"
<1> DEFINE q == UsersOf!Update("form", t, d, o, p)
<1>1. t \in SomeUser /\ session \in SessionRec /\ manage.switched \in BOOLEAN
  BY DEF UsersInv, BackendInv, UpdatesInv, ManageInv, ManageOK, ManageRec, Known, SomeUser
<1>2. /\ q.by = "form" /\ q.target = t /\ q.data = d /\ q.me = session /\ q.stage = "sent"
      /\ q.switched = manage.switched
  BY DEF UsersOf!Update
<1>3. q \in UpdateRec
  BY <1>1 DEF UsersOf!Update, UpdateRec
<1> HIDE DEF q
<1>4. UpdateOK(q)
  BY <1>2, <1>3 DEF UpdateOK
<1> QED BY <1>2, <1>4 DEF q

(* So is that of the tabs, which is about the session's user.               *)
LEMMA TabsUpdateMade ==
  ASSUME UsersInv, NEW o \in SomeOrg
  PROVE  LET q == UsersOf!Update("tabs", session.id, session.id, o, FALSE)
         IN  /\ UpdateOK(q) /\ q.target = session.id /\ q.me = session /\ q.stage = "sent"
<1> DEFINE q == UsersOf!Update("tabs", session.id, session.id, o, FALSE)
<1>1. session.id \in SomeUser /\ session \in SessionRec /\ manage.switched \in BOOLEAN
  BY DEF UsersInv, UpdatesInv, SessionRec, ManageInv, ManageOK, ManageRec, SomeUser
<1>2. /\ q.by = "tabs" /\ q.target = session.id /\ q.me = session /\ q.stage = "sent"
  BY DEF UsersOf!Update
<1>3. q \in UpdateRec
  BY <1>1 DEF UsersOf!Update, UpdateRec
<1> HIDE DEF q
<1>4. UpdateOK(q)
  BY <1>2, <1>3 DEF UpdateOK
<1> QED BY <1>2, <1>4 DEF q

(* A save of the form sends the data of the user it was filled with.        *)
LEMMA SaveStep == ASSUME UsersInv, NEW p \in BOOLEAN, UsersOf!SaveUser(p) PROVE UsersInv'
<1> DEFINE q == UsersOf!Update("form", manage.shown, manage.form, manage.org, p)
<1>1. /\ manage.form # NONE /\ UsersOf!Call(q) /\ manage' = [manage EXCEPT !.isLoading = TRUE]
      /\ UNCHANGED <<users, deleted, orgs, memberOf, session, listing, selectedOrg>>
  BY DEF UsersOf!SaveUser, UsersOf!OnManage, UsersOf!backend
<1>2. manage \in ManageRec /\ FormShown(manage) /\ ChecksShown(manage)
  BY DEF UsersInv, ManageInv, ManageOK
<1>3. manage.shown \in Known /\ manage.form \in SomeUser /\ manage.org \in SomeOrg
  BY <1>1, <1>2 DEF UsersInv, ManageInv, ManageRec
<1>4. manage.form = manage.shown \/ manage.switched
  BY <1>1, <1>2 DEF FormShown
<1>5. UpdateOK(q) /\ q.target = manage.shown /\ q.me = session /\ q.stage = "sent"
  BY <1>3, <1>4, FormUpdateMade
<1> HIDE DEF q
<1>6. UpdatesInv' /\ SessionFollows'
  BY <1>1, <1>3, <1>5, CallStep DEF UsersInv, UpdatesInv
<1>7. /\ manage' \in ManageRec /\ manage'.form = manage.form /\ manage'.shown = manage.shown
      /\ manage'.address = manage.address /\ manage'.switched = manage.switched
      /\ manage'.password = manage.password
  BY <1>1, <1>2 DEF ManageRec
<1>8. ManageInv'
  BY <1>1, <1>2, <1>7 DEF UsersInv, ManageInv, ManageOK, FormShown, ChecksShown, Known
<1>9. BackendInv'
  BY <1>1 DEF UsersInv, BackendInv
<1> QED BY <1>6, <1>8, <1>9 DEF UsersInv

(* Joining or leaving an organization is an update of the session's user.   *)
LEMMA TabsStep ==
  ASSUME UsersInv, UsersOf!HandleSelectOrg \/ UsersOf!CreateOrganization
  PROVE  UsersInv'
<1>1. UNCHANGED <<users, deleted, orgs, memberOf, session, listing, selectedOrg, manage>>
  BY DEF UsersOf!HandleSelectOrg, UsersOf!CreateOrganization, UsersOf!backend, UsersOf!pages
<1>2. BackendInv' /\ ManageInv'
  BY <1>1 DEF UsersInv, BackendInv, ManageInv, Known
<1>3. session.id \in Known /\ session.id \in SomeUser
  BY DEF UsersInv, BackendInv, UpdatesInv, Known, SomeUser
<1>4. CASE UsersOf!HandleSelectOrg
  <2> DEFINE q == UsersOf!Update("tabs", session.id, session.id, selectedOrg, FALSE)
  <2>1. UpdateOK(q) /\ q.target = session.id /\ q.me = session /\ q.stage = "sent"
    <3>1. selectedOrg \in SomeOrg
      BY DEF UsersInv, BackendInv
    <3> QED BY <1>3, <3>1, TabsUpdateMade
  <2>2. UsersOf!Call(q)
    BY <1>4 DEF UsersOf!HandleSelectOrg
  <2> HIDE DEF q
  <2> QED BY <1>1, <1>2, <1>3, <2>1, <2>2, CallStep DEF UsersInv
<1>5. CASE UsersOf!CreateOrganization
  <2> DEFINE u == UsersOf!Update("tabs", session.id, session.id, NONE, FALSE)
             q == [u EXCEPT !.stage = "create"]
  <2>1. UpdateOK(u) /\ u.target = session.id /\ u.me = session /\ u.stage = "sent"
    <3>1. NONE \in SomeOrg
      BY DEF SomeOrg
    <3> QED BY <1>3, <3>1, TabsUpdateMade
  <2>2. UsersOf!Call(q)
    BY <1>5 DEF UsersOf!CreateOrganization
  <2> HIDE DEF u
  <2>3. UpdateOK(q) /\ q.target = session.id /\ q.me = session /\ q.stage = "create"
    BY <2>1 DEF UpdateOK, UpdateRec
  <2> HIDE DEF q
  <2> QED BY <1>1, <1>2, <1>3, <2>2, <2>3, CallStep DEF UsersInv
<1> QED BY <1>4, <1>5

-----------------------------------------------------------------------------
(* An update goes on: n takes the place of q.                               *)
LEMMA UpdateReplaced ==
  ASSUME UsersInv, NEW q \in updates, NEW n, updates' = (updates \ {q}) \cup {n},
         UpdateOK(n), n.target = q.target, n.me = q.me,
         Known \subseteq Known', UNCHANGED <<session, overlapped>>
  PROVE  /\ UpdatesInv'
         /\ ~overlapped => updates = {q} /\ updates' = {n}
<1>1. UpdatesInv'
  BY DEF UsersInv, UpdatesInv
<1>2. ~overlapped => updates = {q}
  BY DEF UsersInv, SessionFollows
<1> QED BY <1>1, <1>2

(* An organization that was created is joined by an update.                 *)
LEMMA CreatedStep ==
  ASSUME UsersInv, NEW q \in updates, NEW o \in Orgs, UsersOf!OrganizationCreated(q, o)
  PROVE  UsersInv'
<1> DEFINE n == [q EXCEPT !.org = o, !.stage = "sent"]
<1>1. /\ updates' = (updates \ {q}) \cup {n} /\ orgs' = orgs \cup {o} /\ q.stage = "create"
      /\ UNCHANGED <<users, deleted, memberOf, session, overlapped, listing, selectedOrg, manage>>
  BY DEF UsersOf!OrganizationCreated, UsersOf!pages
<1>2. UpdateOK(n) /\ n.target = q.target /\ n.me = q.me /\ n.stage = "sent"
  BY DEF UsersInv, UpdatesInv, UpdateOK, UpdateRec, SomeOrg
<1> HIDE DEF n
<1>3. BackendInv' /\ ManageInv'
  BY <1>1 DEF UsersInv, BackendInv, ManageInv, Known
<1>4. UpdatesInv' /\ (~overlapped => updates = {q} /\ updates' = {n})
  BY <1>1, <1>2, UpdateReplaced DEF Known
<1>5. SessionFollows'
  BY <1>1, <1>2, <1>4 DEF UsersInv, SessionFollows, Agrees
<1> QED BY <1>3, <1>4, <1>5 DEF UsersInv

(* An update that was found permissible changes nothing yet.                *)
LEMMA CheckedStep ==
  ASSUME UsersInv, NEW q \in updates, UsersOf!CheckUpdate(q)
  PROVE  UsersInv'
<1> DEFINE n == [q EXCEPT !.stage = "checked"]
<1>1. /\ updates' = (updates \ {q}) \cup {n} /\ q.stage = "sent"
      /\ UNCHANGED <<users, deleted, orgs, memberOf, session, overlapped, listing, selectedOrg,
                     manage>>
  BY DEF UsersOf!CheckUpdate, UsersOf!Reaches, UsersOf!backend, UsersOf!pages
<1>2. UpdateOK(n) /\ n.target = q.target /\ n.me = q.me /\ n.stage = "checked"
  BY DEF UsersInv, UpdatesInv, UpdateOK, UpdateRec
<1> HIDE DEF n
<1>3. BackendInv' /\ ManageInv'
  BY <1>1 DEF UsersInv, BackendInv, ManageInv, Known
<1>4. UpdatesInv' /\ (~overlapped => updates = {q} /\ updates' = {n})
  BY <1>1, <1>2, UpdateReplaced DEF Known
<1>5. SessionFollows'
  BY <1>1, <1>2, <1>4 DEF UsersInv, SessionFollows, Agrees
<1> QED BY <1>3, <1>4, <1>5 DEF UsersInv

(* The backend stores the organization of an update, which is not answered yet. *)
LEMMA WrittenStep ==
  ASSUME UsersInv, NEW q \in updates, UsersOf!WriteUpdate(q)
  PROVE  UsersInv'
<1> DEFINE n == [q EXCEPT !.stage = "done"]
<1>1. /\ updates' = (updates \ {q}) \cup {n} /\ q.stage = "checked"
      /\ q.target \in users
      /\ memberOf' = [memberOf EXCEPT ![q.target] = q.org]
      /\ UNCHANGED <<users, deleted, orgs, session, overlapped, listing, selectedOrg, manage>>
  BY DEF UsersOf!WriteUpdate, UsersOf!Reaches, UsersOf!pages
<1>2. UpdateOK(n) /\ n.target = q.target /\ n.me = q.me /\ n.stage = "done" /\ n.org = q.org
  BY DEF UsersInv, UpdatesInv, UpdateOK, UpdateRec
<1> HIDE DEF n
<1>3. q.target \in Users /\ q.org \in SomeOrg /\ session.id \in Users
  BY <1>1 DEF UsersInv, BackendInv, UpdatesInv, UpdateOK, UpdateRec, SessionRec
<1>4. /\ memberOf' \in [Users -> SomeOrg] /\ memberOf'[q.target] = q.org
      /\ session.id # q.target => memberOf'[session.id] = memberOf[session.id]
  BY <1>1, <1>3 DEF UsersInv, BackendInv
<1>5. BackendInv' /\ ManageInv'
  BY <1>1, <1>4 DEF UsersInv, BackendInv, ManageInv, Known
<1>6. UpdatesInv' /\ (~overlapped => updates = {q} /\ updates' = {n})
  BY <1>1, <1>2, UpdateReplaced DEF Known
<1>7. SessionFollows'
  <2>1. CASE overlapped
    BY <1>1, <2>1 DEF SessionFollows
  <2>2. CASE ~overlapped
    <3>1. Agrees
      BY <1>1, <1>6, <2>2 DEF UsersInv, SessionFollows
    <3>2. session.id = q.target \/ Agrees'
      BY <1>1, <1>4, <3>1 DEF Agrees
    <3> QED BY <1>1, <1>2, <1>4, <1>6, <2>2, <3>2 DEF SessionFollows
  <2> QED BY <2>1, <2>2
<1> QED BY <1>5, <1>6, <1>7 DEF UsersInv

(* The form learns that its request was answered.                           *)
LEMMA AnsweredKeeps ==
  ASSUME UsersInv, NEW q, UsersOf!Answered(q), UNCHANGED <<users, deleted>>
  PROVE  ManageInv'
<1>1. CASE manage' = manage
  BY <1>1 DEF UsersInv, ManageInv, Known
<1>2. CASE manage' = [manage EXCEPT !.isLoading = FALSE]
  <2>1. manage \in ManageRec /\ FormShown(manage) /\ ChecksShown(manage)
    BY DEF UsersInv, ManageInv, ManageOK
  <2>2. /\ manage' \in ManageRec /\ manage'.form = manage.form /\ manage'.shown = manage.shown
        /\ manage'.address = manage.address /\ manage'.switched = manage.switched
        /\ manage'.password = manage.password
    BY <1>2, <2>1 DEF ManageRec
  <2> QED BY <2>1, <2>2 DEF UsersInv, ManageInv, ManageOK, FormShown, ChecksShown, Known
<1> QED BY <1>1, <1>2 DEF UsersOf!Answered

(* The store takes over the user of an update that was served.              *)
LEMMA UpdatedStep ==
  ASSUME UsersInv, NEW q \in updates, UsersOf!UserUpdated(q)
  PROVE  UsersInv'
<1>1. /\ updates' = updates \ {q} /\ q.stage = "done" /\ UsersOf!Answered(q)
      /\ session' = IF q.by = "form" THEN [id |-> q.target, org |-> q.org]
                                     ELSE [q.me EXCEPT !.org = q.org]
      /\ UNCHANGED <<users, deleted, orgs, memberOf, overlapped, listing, selectedOrg>>
  BY DEF UsersOf!UserUpdated, UsersOf!backend
<1>2. /\ UpdateOK(q) /\ q.target \in Known /\ q.me.id \in Known /\ q.target \in Users
      /\ q.by \in {"form", "tabs"} /\ q.org \in SomeOrg /\ q.me \in SessionRec
  BY DEF UsersInv, BackendInv, UpdatesInv, UpdateOK, UpdateRec, Known
<1>3. session' \in SessionRec /\ session'.id = q.target /\ session'.org = q.org
  <2>1. CASE q.by = "form"
    BY <1>1, <1>2, <2>1 DEF SessionRec
  <2>2. CASE q.by = "tabs"
    BY <1>1, <1>2, <2>2 DEF SessionRec, UpdateOK
  <2> QED BY <1>2, <2>1, <2>2
<1>4. BackendInv' /\ ManageInv'
  BY <1>1, AnsweredKeeps DEF UsersInv, BackendInv
<1>5. UpdatesInv'
  BY <1>1, <1>2, <1>3 DEF UsersInv, UpdatesInv, Known
<1>6. SessionFollows'
  <2>1. CASE overlapped
    BY <1>1, <2>1 DEF SessionFollows
  <2>2. CASE ~overlapped
    <3>1. memberOf[q.target] = q.org /\ updates' = {}
      BY <1>1, <2>2 DEF UsersInv, SessionFollows
    <3> QED BY <1>1, <1>3, <3>1 DEF SessionFollows, Agrees
  <2> QED BY <2>1, <2>2
<1> QED BY <1>4, <1>5, <1>6 DEF UsersInv

(* An update or its answer is lost: after it was served nobody learns of it.*)
LEMMA UpdateFailsStep ==
  ASSUME UsersInv, NEW q \in updates, UsersOf!UpdateFails(q)
  PROVE  UsersInv'
<1>1. /\ updates' = updates \ {q} /\ UsersOf!Answered(q)
      /\ overlapped' = (overlapped \/ q.stage = "done")
      /\ UNCHANGED <<users, deleted, orgs, memberOf, session, listing, selectedOrg>>
  BY DEF UsersOf!UpdateFails, UsersOf!backend
<1>2. BackendInv' /\ ManageInv'
  BY <1>1, AnsweredKeeps DEF UsersInv, BackendInv
<1>3. UpdatesInv'
  BY <1>1 DEF UsersInv, UpdatesInv, Known
<1>4. SessionFollows'
  <2>1. CASE overlapped \/ q.stage = "done"
    BY <1>1, <2>1 DEF SessionFollows
  <2>2. CASE ~overlapped /\ q.stage # "done"
    BY <1>1, <2>2 DEF UsersInv, SessionFollows, Agrees
  <2> QED BY <2>1, <2>2
<1> QED BY <1>2, <1>3, <1>4 DEF UsersInv

(* The rows of the tabs.                                                    *)
LEMMA SelectedStep ==
  ASSUME UsersInv, UsersOf!OrganizationsArrive \/ \E o \in Orgs : UsersOf!SelectRow(o)
  PROVE  UsersInv'
<1>1. /\ selectedOrg' \in orgs
      /\ UNCHANGED <<users, deleted, orgs, memberOf, session, updates, listing, manage, overlapped>>
  BY DEF UsersOf!OrganizationsArrive, UsersOf!SelectRow, UsersOf!backend
<1>2. BackendInv'
  BY <1>1 DEF UsersInv, BackendInv, SomeOrg
<1> QED BY <1>1, <1>2, RequestsKept, ManageKept DEF UsersInv, Known

(* Every step of the pages about users keeps the invariant.                 *)
LEMMA UsersKeep == UsersInv /\ [UsersOf!Next]_UsersOf!vars => UsersInv'
<1> SUFFICES ASSUME UsersInv, [UsersOf!Next]_UsersOf!vars PROVE UsersInv'
  OBVIOUS
<1>1. CASE UNCHANGED UsersOf!vars
  <2>1. UNCHANGED <<users, deleted, orgs, memberOf, session, updates, listing, manage,
                    selectedOrg, overlapped>>
    BY <1>1 DEF UsersOf!vars
  <2>2. BackendInv'
    BY <2>1 DEF UsersInv, BackendInv
  <2> QED BY <2>1, <2>2, RequestsKept, ManageKept DEF UsersInv, Known
<1>2. CASE UsersOf!Next
  BY <1>2, VisitsStep, ListStep, PasswordDialogStep, FormStepOfUser, SaveStep, TabsStep,
     CreatedStep, CheckedStep, WrittenStep, UpdatedStep, UpdateFailsStep, SelectedStep DEF UsersOf!Next
<1> QED BY <1>1, <1>2

(* Forms, dialogs, requests and the session of the pages about users agree  *)
(* in every state of the console.                                           *)
THEOREM UsersInvariant == PagesSpec => []UsersInv
BY UsersInit, UsersKeep, PagesCompose, PTL DEF UsersOf!Spec

(* A save of the form sends the data of the very user it saves, unless the  *)
(* address changed under the mounted form.                                  *)
THEOREM SaveIsOfShown == PagesSpec => []SavesShownUser
<1>1. UsersInv => SavesShownUser
  BY DEF UsersInv, UpdatesInv, UpdateOK, SavesShownUser, UsersOf!SavesShownUser
<1> QED BY <1>1, UsersInvariant, PTL

(* No new password without the current one of the user shown, unless the    *)
(* dialog was closed during a check or the address changed under it.        *)
THEOREM CheckComesFirst == PagesSpec => []SecondStepAfterCheck
<1>1. UsersInv => SecondStepAfterCheck
  BY DEF UsersInv, ManageInv, ManageOK, ChecksShown, SecondStepAfterCheck,
         UsersOf!SecondStepAfterCheck, UsersOf!Dialog
<1> QED BY <1>1, UsersInvariant, PTL

(* While no update is under way the session shows the organization that the *)
(* backend has, unless updates overlapped or an answer was lost.            *)
THEOREM SessionKnowsItsOrganization == PagesSpec => []SessionOrganization
<1>1. UsersInv => SessionOrganization
  BY DEF UsersInv, SessionFollows, Agrees, SessionOrganization, UsersOf!SessionOrganization
<1> QED BY <1>1, UsersInvariant, PTL

=============================================================================
