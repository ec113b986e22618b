------------------------------- MODULE Pages -------------------------------
(***************************************************************************)
(* A visit to one of the console's pages, each a component with its own    *)
(* state: the pages with a table and a dialog (RowDialogs), the page of    *)
(* the devices, the page that configures one, the editor of a profile's    *)
(* actions, and the pages about users.  The router shows one page at a     *)
(* time and mounts it afresh, so only the page visited takes steps.        *)
(***************************************************************************)
EXTENDS RowDialogs

CONSTANTS Devices, Networks, FirstNetwork, MaxCalls,            \* DevicesPage
          PayloadType, MaxItems, MaxRuns,                       \* DeviceActions
          Names, Mappings,                                      \* ProfileEditor
          Users, Me, Orgs, FirstOrg, MaxUpdates,                \* UserPages
          NONE

(* A profile names finitely many actions, who is signed in is a user, the   *)
(* organization listed first is one, and NONE is no device.                 *)
ASSUME PagesAssumption ==
  IsFiniteSet(Names) /\ Me \in Users /\ FirstOrg \in Orgs /\ NONE \notin Devices

VARIABLES page,
          adopted, rows, rowsStale, networksStale, networksKnown, deviceFromAction, editOpen,
          adoptOpen, confirmOpen, entries, device, editForm, selectedNetwork, calls,
          selectedAction, payload, reading, sequence, executing, results, runs, items, changed,
          actions, dialogOpen, dialogOperation, actionToEdit, currentName, currentAction, pending,
          users, deleted, orgs, memberOf, master, session, updates, expelled, place, listing,
          manage, selectedOrg, overlapped

DevicesOf == INSTANCE DevicesPage
Executor == INSTANCE DeviceActions
Editor == INSTANCE ProfileEditor
UsersOf == INSTANCE UserPages

devicesVars == <<adopted, rows, rowsStale, networksStale, networksKnown, deviceFromAction, editOpen,
                 adoptOpen, confirmOpen, entries, device, editForm, selectedNetwork, calls>>
executorVars == <<selectedAction, payload, reading, sequence, executing, results, runs, items,
                  changed>>
editorVars == <<actions, dialogOpen, dialogOperation, actionToEdit, currentName, currentAction,
                pending>>
usersVars == <<users, deleted, orgs, memberOf, master, session, updates, expelled, place, listing,
               manage, selectedOrg, overlapped>>

pagesVars == <<page, vars, devicesVars, executorVars, editorVars, usersVars>>

(* The visited page starts from whatever the backend stores; the state of  *)
(* the others, which nothing reads, is fixed.                              *)
PagesInit ==
  /\ page \in {"rows", "devices", "configure", "actions", "users"}
  /\ Init /\ DevicesOf!Init /\ Executor!Init /\ Editor!Init /\ UsersOf!Init
  /\ page # "rows" => kind = "network" /\ stored = {}
  /\ page # "devices" => adopted = {}
  /\ page # "actions" => DOMAIN actions = {}
  /\ page # "users" => orgs = {} /\ ~master

(* A page not visited keeps the state it would be mounted with.            *)
VisitRows == /\ page = "rows" /\ Next
             /\ UNCHANGED <<page, devicesVars, executorVars, editorVars, usersVars>>
VisitDevices == /\ page = "devices" /\ DevicesOf!Next
                /\ UNCHANGED <<page, vars, executorVars, editorVars, usersVars>>
VisitConfigure == /\ page = "configure" /\ Executor!Next
                  /\ UNCHANGED <<page, vars, devicesVars, editorVars, usersVars>>
VisitActions == /\ page = "actions" /\ Editor!Next
                /\ UNCHANGED <<page, vars, devicesVars, executorVars, usersVars>>
VisitUsers == /\ page = "users" /\ UsersOf!Next
              /\ UNCHANGED <<page, vars, devicesVars, executorVars, editorVars>>

PagesNext == VisitRows \/ VisitDevices \/ VisitConfigure \/ VisitActions \/ VisitUsers

PagesSpec == PagesInit /\ [][PagesNext]_pagesVars

-----------------------------------------------------------------------------
(* Devices page: an edit never mixes two devices (DevicesPage.tla).        *)
EditsOneDevice == DevicesOf!EditsOneDevice

(* Configuration page: each queued action carries the payload given for it *)
(* (DeviceActions.tla).                                                    *)
PayloadOfItsAction == Executor!PayloadOfItsAction

(* Configuration page: results stand below the action they belong to       *)
(* (DeviceActions.tla).                                                    *)
ResultsLineUp == Executor!ResultsLineUp

(* Profile's dialog: no second action for authentication                   *)
(* (ProfileEditor.tla).                                                    *)
AuthStaysSingle == Editor!AuthStaysSingle

(* Profile's dialog: saving one action leaves the others alone             *)
(* (ProfileEditor.tla).                                                    *)
SavesOneAction == Editor!SavesOneAction

(* Profile's dialog: a new action starts afresh (ProfileEditor.tla).       *)
FreshDraft == Editor!FreshDraft

(* User's page: a save sends the data of the user it saves                 *)
(* (UserPages.tla).                                                        *)
SavesShownUser == UsersOf!SavesShownUser

(* User's page: no new password without the current one (UserPages.tla).   *)
SecondStepAfterCheck == UsersOf!SecondStepAfterCheck

(* The session knows the organization of its user (UserPages.tla).         *)
SessionOrganization == UsersOf!SessionOrganization
=============================================================================
