----------------------------- MODULE UserPages -----------------------------
(***************************************************************************)
(* Users and their organization in one tab of the console: the Users page, *)
(* the page of one user with the dialog that changes a password, and the   *)
(* dashboard as it looks for a user without an organization.  Where the    *)
(* user goes from one page to another, what the pages share goes along:    *)
(* the session's user in the store, and requests still under way.          *)
(*                                                                         *)
(* The form of one user takes its fields when it is mounted and stays      *)
(* mounted when only the name in the address changes.  Leaving a page      *)
(* unmounts it; handlers waiting for an answer run on and find nothing of  *)
(* the page to change, but the store is still there.                       *)
(*                                                                         *)
(* Data: of a form only whose data filled it and the organization chosen;  *)
(* of a password, whether it was accepted.  Validation that refuses a      *)
(* submission is left out.  Whoever is signed in may open other users; the *)
(* backend lets only the master change them.                               *)
(***************************************************************************)
EXTENDS Naturals, FiniteSets

CONSTANTS Users, Me, Orgs, FirstOrg, NONE,
          MaxUpdates            \* bound on the updates and password requests under way at once

VARIABLES users,                \* the users the backend stores
          deleted,              \* those it has deleted: ids are not used again
          orgs,                 \* the organizations it stores
          memberOf,             \* the organization of each user
          master,               \* whether Me has the master permission
          session,              \* the user of the store: id and organization
          updates,              \* updateUser and createNewOrganization calls under way
          expelled,             \* a timer will log the user out
          place,                \* the page shown, or the login page
          listing,              \* Users page: rows, creation dialog, deletion dialog
          manage,               \* page of one user: address, form and password dialog
          selectedOrg,          \* dashboard: the row that is checked
          overlapped            \* ghost: updates overlapped, or an answer got lost

vars == <<users, deleted, orgs, memberOf, master, session, updates, expelled, place, listing, manage,
          selectedOrg, overlapped>>

backend == <<users, deleted, orgs, memberOf, master>>
pages == <<place, listing, manage, selectedOrg>>

NoListing == [rows |-> {}, creating |-> "closed", confirm |-> NONE]
NoPassword == [open |-> FALSE, step |-> 1, calls |-> {}, verified |-> NONE, stray |-> FALSE]
NoManage == [address |-> NONE, shown |-> NONE, form |-> NONE, org |-> NONE, changed |-> FALSE,
             isLoading |-> FALSE, switched |-> FALSE, password |-> NoPassword]

Init ==
  /\ users = {Me} /\ deleted = {}
  /\ orgs \in {{}, {FirstOrg}}
  /\ \E o \in orgs \union {NONE} : memberOf = [u \in Users |-> IF u = Me THEN o ELSE NONE]
  /\ master \in BOOLEAN
  /\ session = [id |-> Me, org |-> memberOf[Me]]
  /\ updates = {} /\ expelled = FALSE /\ overlapped = FALSE
  /\ place = "dashboard" /\ listing = NoListing /\ manage = NoManage /\ selectedOrg = NONE

-----------------------------------------------------------------------------
(* Going from page to page: the page left is unmounted, and a form mounted *)
(* later does not show that an earlier one is still saving.                *)

\* Mutant: the form of a user survives the page.
GotoKeepsForm(p, m) ==
  /\ place # "auth" /\ place' = p
  /\ listing' = NoListing /\ selectedOrg' = NONE
  /\ manage' = [m EXCEPT !.form = manage.form]
  /\ updates' = {[q EXCEPT !.mounted = FALSE] : q \in updates}

Goto(p, m) ==
  /\ place # "auth" /\ place' = p
  /\ listing' = NoListing /\ manage' = m /\ selectedOrg' = NONE
  /\ updates' = {[q EXCEPT !.mounted = FALSE] : q \in updates}

SideMenu == /\ \E p \in {"users", "dashboard"} \ {place} : Goto(p, NoManage)
            /\ UNCHANGED <<backend, session, expelled, overlapped>>

Visit(u) == [NoManage EXCEPT !.address = u]

HandleEditUser(u) ==
  /\ place = "users" /\ u \in listing.rows /\ Goto("manage", Visit(u))
  /\ UNCHANGED <<backend, session, expelled, overlapped>>

(* "Minha conta" in the header; on the page of another user only the       *)
(* address changes.                                                        *)
MyAccount ==
  /\ \/ place # "manage" /\ Goto("manage", Visit(Me))
     \/ /\ place = "manage" /\ manage.address # Me
        /\ manage' = [manage EXCEPT !.address = Me, !.switched = (@ \/ manage.form # NONE)]
        /\ UNCHANGED <<updates, place, listing, selectedOrg>>
  /\ UNCHANGED <<backend, session, expelled, overlapped>>

(* The session's user is not the one of the address any more and may lack  *)
(* the permission to be here; the permission of other users is left open.  *)
SentAway ==
  /\ place = "manage" /\ session.id \notin {Me, manage.address} /\ Goto("dashboard", NoManage)
  /\ UNCHANGED <<backend, session, expelled, overlapped>>

-----------------------------------------------------------------------------
(* The Users page.                                                         *)

OnList == place = "users" /\ UNCHANGED <<session, updates, expelled, place, manage, selectedOrg, overlapped>>

RowsArrive == OnList /\ listing' = [listing EXCEPT !.rows = users] /\ UNCHANGED backend

OpenUserCreationDialog ==
  /\ OnList /\ listing.creating = "closed" /\ listing.confirm = NONE
  /\ listing' = [listing EXCEPT !.creating = "form"] /\ UNCHANGED backend

Register(u) ==
  /\ u \in Users \ (users \union deleted)
  /\ users' = users \union {u}
  /\ \E o \in orgs : memberOf' = [memberOf EXCEPT ![u] = o]
  /\ UNCHANGED <<deleted, orgs, master>>

(* The form is unmounted.  A user registered by a request under way has a  *)
(* generated password that nobody is shown.                                *)
CloseUserCreationDialog ==
  /\ OnList /\ listing.creating # "closed"
  /\ listing' = [listing EXCEPT !.creating = "closed"]
  /\ \/ UNCHANGED backend
     \/ listing.creating = "registering" /\ \E u \in Users : Register(u)

RegisterUser ==
  /\ OnList /\ listing.creating = "form" /\ orgs # {}
  /\ listing' = [listing EXCEPT !.creating = "registering"] /\ UNCHANGED backend

UserRegistered(u) ==
  /\ OnList /\ listing.creating = "registering" /\ Register(u)
  /\ listing' = [listing EXCEPT !.creating = "credentials"]

RegistrationFails ==
  /\ OnList /\ listing.creating = "registering"
  /\ listing' = [listing EXCEPT !.creating = "form"] /\ UNCHANGED backend

DeleteUserConfirmationRequired(u) ==
  /\ OnList /\ listing.creating = "closed" /\ listing.confirm = NONE
  /\ u \in listing.rows \ {session.id}
  /\ listing' = [listing EXCEPT !.confirm = u] /\ UNCHANGED backend

CloseConfirmation ==
  /\ OnList /\ listing.confirm # NONE
  /\ listing' = [listing EXCEPT !.confirm = NONE] /\ UNCHANGED backend

(* The answer changes nothing but the list; the backend serves the master. *)
DeleteUser ==
  /\ OnList /\ listing.confirm # NONE
  /\ listing' = [listing EXCEPT !.confirm = NONE]
  /\ \/ /\ master /\ listing.confirm # Me
        /\ users' = users \ {listing.confirm} /\ deleted' = deleted \union {listing.confirm}
     \/ UNCHANGED <<users, deleted>>
  /\ UNCHANGED <<orgs, memberOf, master>>

-----------------------------------------------------------------------------
(* The page of one user.                                                   *)

OnManage == place = "manage" /\ UNCHANGED <<place, listing, selectedOrg>>
StillManaged == OnManage /\ UNCHANGED <<backend, session, updates, expelled, overlapped>>

(* The query is answered: the first answer mounts the form.                *)
UserInfoArrives ==
  /\ StillManaged /\ manage.shown # manage.address /\ manage.address \in users
  /\ manage' = IF manage.form = NONE
               THEN [manage EXCEPT !.shown = manage.address, !.form = manage.address,
                                   !.org = memberOf[manage.address]]
               ELSE [manage EXCEPT !.shown = manage.address]

FieldChange ==
  /\ StillManaged /\ manage.form # NONE /\ ~manage.password.open
  /\ manage' = [manage EXCEPT !.changed = TRUE]

SelectOrgOfUser(o) ==
  /\ StillManaged /\ manage.form # NONE /\ ~manage.password.open /\ o \in orgs
  /\ manage' = [manage EXCEPT !.changed = TRUE, !.org = o]

Update(by, target, data, o, p) ==
  [by |-> by, target |-> target, data |-> data, org |-> o, permission |-> p, me |-> session,
   mounted |-> TRUE, switched |-> manage.switched, stage |-> "sent"]

Dialog == manage.password
UnderWay == Cardinality(updates) + Cardinality(Dialog.calls)

Call(q) ==
  /\ UnderWay < MaxUpdates /\ q \notin updates
  /\ updates' = updates \union {q}
  /\ overlapped' = (overlapped \/ updates # {})

(* handleSubmit: p tells whether the permission of the user changes; that  *)
(* of a master cannot be changed.                                          *)
SaveUser(p) ==
  /\ OnManage /\ manage.form # NONE /\ ~manage.password.open
  /\ manage.changed /\ ~manage.isLoading /\ manage.org # NONE
  /\ p => ~(master /\ manage.shown = Me)
  /\ Call(Update("form", manage.shown, manage.form, manage.org, p))
  /\ manage' = [manage EXCEPT !.isLoading = TRUE]
  /\ UNCHANGED <<backend, session, expelled>>

-----------------------------------------------------------------------------
(* The dialog that changes a password: step 1 checks the current password, *)
(* step 2 sets the new one.                                                *)

Password(new) == StillManaged /\ manage' = [manage EXCEPT !.password = new]

OpenPasswordResetDialog ==
  /\ manage.form # NONE /\ ~Dialog.open
  /\ Password([Dialog EXCEPT !.open = TRUE])

(* setDefaultState and onClose.                                            *)
Closed(d) == [d EXCEPT !.open = FALSE, !.step = 1, !.verified = NONE,
                       !.stray = (@ \/ \E c \in d.calls : c.kind = "check")]

ClosePasswordResetDialog == Dialog.open /\ Password(Closed(Dialog))

CanCall == Dialog.open /\ UnderWay < MaxUpdates

HandleValidateStep1 ==
  /\ CanCall /\ Dialog.step = 1
  /\ Password([Dialog EXCEPT !.calls = @ \union {[kind |-> "check", user |-> manage.shown]}])

HandleResetStep2 ==
  /\ CanCall /\ Dialog.step = 2
  /\ Password([Dialog EXCEPT !.calls = @ \union {[kind |-> "reset", user |-> manage.shown]}])

\* Mutant: the answer is not looked at.
CheckedAnyway(c, valid) == [Dialog EXCEPT !.step = 2, !.calls = @ \ {c}]

Checked(c, valid) ==
  IF valid THEN [Dialog EXCEPT !.step = 2, !.calls = @ \ {c}, !.verified = c.user]
           ELSE [Dialog EXCEPT !.calls = @ \ {c}]

PasswordChecked(c) ==
  /\ place = "manage" /\ c \in Dialog.calls /\ c.kind = "check"
  /\ \E valid \in BOOLEAN : Password(Checked(c, valid))

PasswordReset(c) ==
  /\ place = "manage" /\ c \in Dialog.calls /\ c.kind = "reset"
  /\ \/ Password([Closed(Dialog) EXCEPT !.calls = @ \ {c}])
     \/ Password([Dialog EXCEPT !.calls = @ \ {c}])

-----------------------------------------------------------------------------
(* The dashboard of a user without an organization.                        *)

OrganizationTabs == place = "dashboard" /\ session.org = NONE

(* Whenever the list of organizations arrives its first row is selected.   *)
OrganizationsArrive ==
  /\ OrganizationTabs /\ orgs # {}
  /\ selectedOrg' = IF FirstOrg \in orgs THEN FirstOrg ELSE CHOOSE o \in orgs : TRUE
  /\ UNCHANGED <<backend, session, updates, expelled, place, listing, manage, overlapped>>

SelectRow(o) ==
  /\ OrganizationTabs /\ selectedOrg # NONE /\ o \in orgs /\ selectedOrg' = o
  /\ UNCHANGED <<backend, session, updates, expelled, place, listing, manage, overlapped>>

HandleSelectOrg ==
  /\ OrganizationTabs /\ selectedOrg # NONE
  /\ Call(Update("tabs", session.id, session.id, selectedOrg, FALSE))
  /\ UNCHANGED <<backend, session, expelled, pages>>

(* The organization is created first and joined with a second request.     *)
CreateOrganization ==
  /\ OrganizationTabs
  /\ Call([Update("tabs", session.id, session.id, NONE, FALSE) EXCEPT !.stage = "create"])
  /\ UNCHANGED <<backend, session, expelled, pages>>

OrganizationCreated(q, o) ==
  /\ q.stage = "create" /\ o \in Orgs \ orgs
  /\ orgs' = orgs \union {o}
  /\ updates' = (updates \ {q}) \union {[q EXCEPT !.org = o, !.stage = "sent"]}
  /\ UNCHANGED <<users, deleted, memberOf, master, session, expelled, pages, overlapped>>

-----------------------------------------------------------------------------
(* The backend on an update, and what follows its answer.  edit_user reads *)
(* the user and the organization before it writes; what it refuses, and an *)
(* update of a user deleted in between, ends in UpdateFails.  The lists of *)
(* members that it moves the user between afterwards are left out.         *)

Reaches(q, stage) == updates' = (updates \ {q}) \union {[q EXCEPT !.stage = stage]}

CheckUpdate(q) ==
  /\ q.stage = "sent" /\ q.target \in users /\ q.org \in orgs
  /\ master \/ q.target = Me
  /\ Reaches(q, "checked")
  /\ UNCHANGED <<backend, session, expelled, pages, overlapped>>

WriteUpdate(q) ==
  /\ q.stage = "checked" /\ q.target \in users
  /\ memberOf' = [memberOf EXCEPT ![q.target] = q.org]
  /\ Reaches(q, "done")
  /\ UNCHANGED <<users, deleted, orgs, master, session, expelled, pages, overlapped>>

Answered(q) ==
  manage' = IF q.by = "form" /\ q.mounted
            THEN [manage EXCEPT !.isLoading = FALSE] ELSE manage

\* Mutant: the tabs store the user as it was.
UserUpdatedKeepsOrganization(q) ==
  /\ q.stage = "done" /\ updates' = updates \ {q}
  /\ session' = IF q.by = "form" THEN [id |-> q.target, org |-> q.org] ELSE q.me
  /\ expelled' = (expelled \/ (q.permission /\ q.target = q.me.id))
  /\ Answered(q)
  /\ UNCHANGED <<backend, place, listing, selectedOrg, overlapped>>

(* The form stores the user it saved as the session's, whoever that is;    *)
(* the tabs store the user they were shown with.                           *)
UserUpdated(q) ==
  /\ q.stage = "done" /\ updates' = updates \ {q}
  /\ session' = IF q.by = "form" THEN [id |-> q.target, org |-> q.org]
                                 ELSE [q.me EXCEPT !.org = q.org]
  /\ expelled' = (expelled \/ (q.permission /\ q.target = q.me.id))
  /\ Answered(q)
  /\ UNCHANGED <<backend, place, listing, selectedOrg, overlapped>>

(* The request is lost or refused; or the answer to one that was written   *)
(* is lost, or an error, as the move between the organizations failed.     *)
UpdateFails(q) ==
  /\ updates' = updates \ {q}
  /\ overlapped' = (overlapped \/ q.stage = "done")
  /\ Answered(q)
  /\ UNCHANGED <<backend, session, expelled, place, listing, selectedOrg>>

(* The permissions of the session's user have changed.                     *)
LogoutTimer ==
  /\ expelled /\ expelled' = FALSE /\ Goto("auth", NoManage)
  /\ UNCHANGED <<backend, session, overlapped>>

-----------------------------------------------------------------------------
List == \/ RowsArrive \/ OpenUserCreationDialog \/ CloseUserCreationDialog
        \/ RegisterUser \/ RegistrationFails
        \/ CloseConfirmation \/ DeleteUser
        \/ \E u \in Users : DeleteUserConfirmationRequired(u) \/ UserRegistered(u)

PasswordDialog ==
  \/ OpenPasswordResetDialog \/ ClosePasswordResetDialog
  \/ HandleValidateStep1 \/ HandleResetStep2
  \/ \E c \in Dialog.calls : PasswordChecked(c) \/ PasswordReset(c)

Next ==
  \/ SideMenu \/ MyAccount \/ SentAway \/ \E u \in Users : HandleEditUser(u)
  \/ List \/ PasswordDialog
  \/ UserInfoArrives \/ FieldChange
  \/ \E o \in Orgs : SelectOrgOfUser(o) \/ SelectRow(o)
  \/ \E p \in BOOLEAN : SaveUser(p)
  \/ OrganizationsArrive \/ HandleSelectOrg \/ CreateOrganization
  \/ \E q \in updates : \/ \E o \in Orgs : OrganizationCreated(q, o)
                        \/ CheckUpdate(q) \/ WriteUpdate(q)
                        \/ UserUpdated(q) \/ UpdateFails(q)
  \/ LogoutTimer

Spec == Init /\ [][Next]_vars

-----------------------------------------------------------------------------
(* A save of the form sends the data of the very user it saves.  The one   *)
(* way around is the address: when it changes from one user to another     *)
(* under a mounted form, the fields stay and the user to save changes.     *)
SavesShownUser ==
  \A q \in updates : q.by = "form" => q.data = q.target \/ q.switched

(* A new password can be given only after the current one of that user was *)
(* accepted since the dialog was opened; unless the dialog was closed      *)
(* while a check was under way, whose late answer moves the closed dialog  *)
(* on, or the address changed under it.                                    *)
SecondStepAfterCheck ==
  Dialog.step = 2 =>
    Dialog.stray \/ manage.switched \/ (Dialog.open /\ Dialog.verified = manage.shown)

(* While no update is under way, the session shows the organization that   *)
(* the backend has for its user, unless updates overlapped or the answer   *)
(* to one was lost.                                                        *)
SessionOrganization ==
  updates = {} /\ ~overlapped => session.org = memberOf[session.id]
=============================================================================
