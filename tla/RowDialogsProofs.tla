-------------------------- MODULE RowDialogsProofs --------------------------
(***************************************************************************)
(* Proofs about RowDialogs, for any number of rows and of requests under   *)
(* way: RequestsMatchChoice and NewStartsEmpty.  Neither is inductive;     *)
(* Choice and Leftovers say how what the page keeps relates to what the    *)
(* user has chosen, whichever answers have arrived since.                  *)
(***************************************************************************)
EXTENDS RowDialogs, TLAPS

(* What the open dialog, or the open confirmation, holds is what the user  *)
(* chose; an answer may only take the row away.                            *)
Choice ==
  /\ ~(open /\ confirming)
  /\ ~open => operation = "create"
  /\ open /\ operation = "create" => intent.op = "create" /\ intent.row = NoRow
  /\ open /\ operation = "edit" =>
       intent.op = "update" /\ intent.row = original /\ intent.data = form
  /\ confirming => intent.op = "delete" /\ original \in {NoRow, intent.row}

(* A closed dialog that no deletion has touched is clear and has no row.   *)
Leftovers ==
  /\ ~open /\ ~leftover => /\ original = NoRow
                           /\ \A f \in Fields : form[f] = Empty \/ f = "networkType"
  /\ NewStartsEmpty

DialogInv == RowDialogsTypeOK /\ Choice /\ Leftovers /\ RequestsMatchChoice

(* The steps by who takes them.                                            *)
Opens == OpenCreate \/ \E r \in Rows : Edit(r) \/ DeleteConfirmationRequired(r)
Types == \E f \in Fields : Type(f)
Closes == Close \/ CloseConfirmation
Sends == Submit \/ ConfirmDelete
Serves == \E q \in requests : Serve(q) \/ Refuse(q)
Answers == \E q \in requests : Saved(q) \/ Deleted(q) \/ Failed(q)

(* Every step is one of these, whatever the page.                          *)
LEMMA StepCases ==
  ASSUME kind \in Kinds, Next
  PROVE  Opens \/ Types \/ Closes \/ Sends \/ Serves \/ Answers \/ RowsArrive
<1>1. NetworkInputs \/ ProfileInputs \/ FieldMapInputs \/ ActionsInput \/ OrganizationInputs => Types
  BY DEF NetworkInputs, ProfileInputs, FieldMapInputs, ActionsInput, OrganizationInputs, Types,
         Fields, NetworkFields, ProfileFields, OrganizationFields
<1>2. Page => Opens \/ Closes \/ Sends
  BY DEF Page, Opens, Closes, Sends
<1>3. Dialog => Closes \/ Sends
  BY DEF Dialog, Closes, Sends
<1> QED
  BY <1>1, <1>2, <1>3 DEF Next, NetworksPage, NetworkDialog, ProfilesPage, ProfileDialog,
     OrganizationsPage, OrganizationDialog, Backend, Answer, Serves, Answers

(* The row of the data that a new document, or row r, starts from.         *)
LEMMA IntentType ==
  ASSUME NEW op \in {"create", "update", "delete"}, NEW r \in Rows \union {NoRow}
  PROVE  /\ Intent(op, r) \in [op : {"create", "update", "delete"}, row : Rows \union {NoRow},
                               data : [Fields -> Values]]
         /\ Intent(op, r).op = op /\ Intent(op, r).row = r
         /\ Intent(op, r).data = [f \in Fields |-> r]
BY DEF Intent, Values, NoRow, Empty

(* What the dialog's setDefaultState leaves.                               *)
LEMMA DefaultClears ==
  ASSUME kind \in Kinds, form \in [Fields -> Values], DefaultState, kind' = kind
  PROVE  /\ form' \in [Fields -> Values]
         /\ \A f \in Fields : form'[f] = Empty \/ f = "networkType"
         /\ leftover' = FALSE
<1>1. EmptyForm \in [Fields -> Values] /\ \A f \in Fields : EmptyForm[f] = Empty
  BY DEF EmptyForm, Values
<1>2. /\ NetworkDefault \in [Fields -> Values]
      /\ \A f \in Fields : NetworkDefault[f] = Empty \/ f = "networkType"
  BY DEF NetworkDefault, Values
<1>3. form' \in {NetworkDefault, EmptyForm}
  BY DEF DefaultState, ProfileDefault, OrganizationDefault, Kinds
<1> QED
  BY <1>1, <1>2, <1>3 DEF DefaultState

-----------------------------------------------------------------------------
LEMMA InitHolds == Init => DialogInv
<1> SUFFICES ASSUME Init PROVE DialogInv
  OBVIOUS
<1> USE DEF Init
<1>1. Empty \in Values /\ form = [f \in Fields |-> Empty]
  BY DEF EmptyForm, Values
<1>2. /\ intent \in [op : {"create", "update", "delete"}, row : Rows \union {NoRow},
                     data : [Fields -> Values]]
      /\ intent.op = "create"
  BY IntentType DEF NewIntent
<1>3. RowDialogsTypeOK
  BY <1>1, <1>2 DEF RowDialogsTypeOK
<1>4. Choice /\ Leftovers /\ RequestsMatchChoice
  BY <1>1 DEF Choice, Leftovers, NewStartsEmpty, RequestsMatchChoice
<1> QED
  BY <1>3, <1>4 DEF DialogInv

(* Opening a dialog or the confirmation: the row handed is the row chosen. *)
LEMMA OpensKeep ==
  ASSUME DialogInv, Opens
  PROVE  DialogInv'
<1> USE DEF DialogInv
<1>1. CASE OpenCreate
  <2>1. Fields' = Fields /\ Values' = Values /\ Rows' = Rows
    BY <1>1 DEF OpenCreate, Fields
  <2>2. operation = "create" /\ ~open /\ ~confirming
    BY <1>1 DEF OpenCreate, Idle, Choice
  <2>3. /\ intent' \in [op : {"create", "update", "delete"}, row : Rows \union {NoRow},
                        data : [Fields -> Values]]
        /\ intent'.op = "create" /\ intent'.row = NoRow
        /\ intent'.data = [f \in Fields |-> NoRow]
    <3>1. intent' = Intent("create", NoRow)
      BY <1>1 DEF OpenCreate, NewIntent
    <3>2. [f \in Fields |-> NoRow] \in [Fields -> Values]
      BY DEF Values, NoRow, Empty
    <3> QED
      BY <3>1, <3>2 DEF Intent
  <2>4. form' \in [Fields -> Values]
    BY <1>1 DEF OpenCreate, Refill, RowDialogsTypeOK, Values
  <2>5. RowDialogsTypeOK'
    BY <1>1, <2>1, <2>3, <2>4 DEF OpenCreate, RowDialogsTypeOK
  <2>6. Choice'
    BY <1>1, <2>2, <2>3 DEF OpenCreate, Choice
  <2>7. ~leftover => \A f \in Fields : form'[f] = Empty \/ f = "networkType"
    BY <1>1, <2>2 DEF OpenCreate, Refill, Leftovers
  <2>8. Leftovers'
    BY <1>1, <2>1, <2>3, <2>7 DEF OpenCreate, Leftovers, NewStartsEmpty, NoRow, Empty
  <2> QED
    BY <1>1, <2>5, <2>6, <2>8 DEF OpenCreate, RequestsMatchChoice
<1>2. ASSUME NEW r \in Rows, Edit(r)
      PROVE  DialogInv'
  <2>1. Fields' = Fields /\ Values' = Values /\ Rows' = Rows
    BY <1>2 DEF Edit, Fields
  <2>2. ~confirming
    BY <1>2 DEF Edit, Idle
  <2>3. /\ intent' \in [op : {"create", "update", "delete"}, row : Rows \union {NoRow},
                        data : [Fields -> Values]]
        /\ intent'.op = "update" /\ intent'.row = r
        /\ intent'.data = [f \in Fields |-> r]
    <3>1. intent' = Intent("update", r)
      BY <1>2 DEF Edit
    <3>2. [f \in Fields |-> r] \in [Fields -> Values]
      BY DEF Values
    <3> QED
      BY <3>1, <3>2 DEF Intent
  <2>4. form' = [f \in Fields |-> r] /\ form' \in [Fields -> Values]
    BY <1>2 DEF Edit, Refill, Values, Rows, NoRow
  <2>5. RowDialogsTypeOK'
    BY <1>2, <2>1, <2>3, <2>4 DEF Edit, RowDialogsTypeOK
  <2>6. Choice'
    BY <1>2, <2>2, <2>3, <2>4 DEF Edit, Choice
  <2>7. Leftovers'
    BY <1>2 DEF Edit, Leftovers, NewStartsEmpty
  <2> QED
    BY <1>2, <2>5, <2>6, <2>7 DEF Edit, RequestsMatchChoice
<1>3. ASSUME NEW r \in Rows, DeleteConfirmationRequired(r)
      PROVE  DialogInv'
  <2>1. Fields' = Fields /\ Values' = Values /\ Rows' = Rows
    BY <1>3 DEF DeleteConfirmationRequired, Fields
  <2>2. operation = "create" /\ ~open
    BY <1>3 DEF DeleteConfirmationRequired, Idle, Choice
  <2>3. /\ intent' \in [op : {"create", "update", "delete"}, row : Rows \union {NoRow},
                        data : [Fields -> Values]]
        /\ intent'.op = "delete" /\ intent'.row = r
    <3>1. intent' = Intent("delete", r)
      BY <1>3 DEF DeleteConfirmationRequired
    <3>2. [f \in Fields |-> r] \in [Fields -> Values]
      BY DEF Values
    <3> QED
      BY <3>1, <3>2 DEF Intent
  <2>4. form' \in [Fields -> Values]
    BY <1>3 DEF DeleteConfirmationRequired, Refill, Values, RowDialogsTypeOK
  <2>5. RowDialogsTypeOK'
    BY <1>3, <2>1, <2>3, <2>4 DEF DeleteConfirmationRequired, RowDialogsTypeOK
  <2>6. Choice'
    BY <1>3, <2>2, <2>3 DEF DeleteConfirmationRequired, Choice
  <2>7. Leftovers'
    BY <1>3, <2>2 DEF DeleteConfirmationRequired, Leftovers, NewStartsEmpty
  <2> QED
    BY <1>3, <2>5, <2>6, <2>7 DEF DeleteConfirmationRequired, RequestsMatchChoice
<1> QED
  BY <1>1, <1>2, <1>3 DEF Opens

(* What is typed changes the form and what the user wants alike.           *)
LEMMA TypesKeep ==
  ASSUME DialogInv, Types
  PROVE  DialogInv'
<1> USE DEF DialogInv
<1> PICK f \in Fields : Type(f)
  BY DEF Types
<1>1. Fields' = Fields /\ Values' = Values /\ Rows' = Rows
  BY DEF Type, Fields
<1>2. Typed \in Values /\ open /\ ~confirming
  BY DEF Type, Values, Choice
<1>3. /\ form' = [form EXCEPT ![f] = Typed]
      /\ form' \in [Fields -> Values]
  BY <1>2 DEF Type, RowDialogsTypeOK
<1>4. /\ intent'.op = intent.op /\ intent'.row = intent.row
      /\ intent'.data = [intent.data EXCEPT ![f] = Typed]
      /\ intent' \in [op : {"create", "update", "delete"}, row : Rows \union {NoRow},
                       data : [Fields -> Values]]
  BY <1>2 DEF Type, RowDialogsTypeOK
<1>5. RowDialogsTypeOK'
  BY <1>1, <1>3, <1>4 DEF Type, RowDialogsTypeOK
<1>6. Choice'
  BY <1>2, <1>3, <1>4 DEF Type, Choice
<1>7. ASSUME operation = "create", ~leftover, NEW g \in Fields, g # "networkType"
      PROVE  form'[g] = intent'.data[g]
  <2>1. form[g] = intent.data[g]
    BY <1>2, <1>7 DEF Leftovers, NewStartsEmpty
  <2>2. form \in [Fields -> Values] /\ intent.data \in [Fields -> Values]
    BY DEF RowDialogsTypeOK
  <2> QED
    BY <1>3, <1>4, <2>1, <2>2
<1>8. Leftovers'
  BY <1>1, <1>2, <1>7 DEF Type, Leftovers, NewStartsEmpty
<1> QED
  BY <1>5, <1>6, <1>8 DEF Type, RequestsMatchChoice

(* The handler that closes the dialog, with the form cleared or not: what  *)
(* the user asked a confirmation for stays.                                *)
LEMMA CloseDialogChoice ==
  ASSUME DialogInv, CloseDialog, confirming' = confirming
  PROVE  /\ Choice' /\ ~open' /\ original' = NoRow /\ operation' = "create"
         /\ intent' \in [op : {"create", "update", "delete"}, row : Rows \union {NoRow},
                         data : [Fields -> Values]]
<1>1. NewIntent \in [op : {"create", "update", "delete"}, row : Rows \union {NoRow},
                     data : [Fields -> Values]]
  BY IntentType DEF NewIntent
<1> QED
  BY <1>1 DEF CloseDialog, Choice, DialogInv, RowDialogsTypeOK, NoRow

LEMMA ClosesKeep ==
  ASSUME DialogInv, Closes
  PROVE  DialogInv'
<1> USE DEF DialogInv
<1>1. CASE Close
  <2>1. Fields' = Fields /\ Values' = Values /\ Rows' = Rows
    BY <1>1 DEF Close, Fields
  <2>2. /\ form' \in [Fields -> Values] /\ leftover' = FALSE
        /\ \A f \in Fields : form'[f] = Empty \/ f = "networkType"
    BY <1>1, DefaultClears DEF Close, RowDialogsTypeOK
  <2>3. /\ Choice' /\ ~open' /\ original' = NoRow /\ operation' = "create"
        /\ intent' \in [op : {"create", "update", "delete"}, row : Rows \union {NoRow},
                        data : [Fields -> Values]]
    BY <1>1, CloseDialogChoice DEF Close
  <2>4. RowDialogsTypeOK'
    BY <1>1, <2>1, <2>2, <2>3 DEF Close, CloseDialog, RowDialogsTypeOK
  <2>5. Leftovers'
    BY <2>1, <2>2, <2>3 DEF Leftovers, NewStartsEmpty
  <2> QED
    BY <1>1, <2>3, <2>4, <2>5 DEF Close, RequestsMatchChoice
<1>2. CASE CloseConfirmation
  <2>1. Fields' = Fields /\ Values' = Values /\ Rows' = Rows
    BY <1>2 DEF CloseConfirmation, Fields
  <2>2. intent' \in [op : {"create", "update", "delete"}, row : Rows \union {NoRow},
                     data : [Fields -> Values]]
    BY <1>2, IntentType DEF CloseConfirmation, NewIntent
  <2>3. RowDialogsTypeOK'
    BY <1>2, <2>1, <2>2 DEF CloseConfirmation, RowDialogsTypeOK
  <2>4. ~open
    BY <1>2 DEF CloseConfirmation, Choice
  <2>5. Choice' /\ Leftovers'
    BY <1>2, <2>1, <2>4 DEF CloseConfirmation, Choice, Leftovers, NewStartsEmpty
  <2> QED
    BY <1>2, <2>3, <2>5 DEF CloseConfirmation, RequestsMatchChoice
<1> QED
  BY <1>1, <1>2 DEF Closes

(* A request is sent for what the user chose.                              *)
LEMMA SentRequest ==
  ASSUME DialogInv, NEW op \in {"create", "update", "delete"}, NEW row \in Rows \union {NoRow},
         op = intent.op, row = intent.row, op = "update" => form = intent.data,
         Send(op, row)
  PROVE  /\ requests' \subseteq [op : {"create", "update", "delete"}, row : Rows \union {NoRow},
                                stage : {"sent", "done", "failed"}, matches : BOOLEAN]
         /\ RequestsMatchChoice'
<1>1. requests' = requests \union {[op |-> op, row |-> row, stage |-> "sent", matches |-> TRUE]}
  BY DEF Send
<1>2. [op |-> op, row |-> row, stage |-> "sent", matches |-> TRUE] \in
        [op : {"create", "update", "delete"}, row : Rows \union {NoRow},
         stage : {"sent", "done", "failed"}, matches : BOOLEAN]
  OBVIOUS
<1>3. \A q \in requests : q.matches
  BY DEF DialogInv, RequestsMatchChoice
<1>4. \A q \in requests' : q.matches
  BY <1>1, <1>3
<1> QED
  BY <1>1, <1>2, <1>4 DEF DialogInv, RowDialogsTypeOK, RequestsMatchChoice

LEMMA SendsKeep ==
  ASSUME DialogInv, Sends
  PROVE  DialogInv'
<1>1. CASE Submit
  <2>1. Fields' = Fields /\ Values' = Values /\ Rows' = Rows
    BY <1>1 DEF Submit, Fields
  <2>2. /\ requests' \subseteq [op : {"create", "update", "delete"}, row : Rows \union {NoRow},
                                stage : {"sent", "done", "failed"}, matches : BOOLEAN]
        /\ RequestsMatchChoice'
    <3>1. CASE operation = "create" /\ Send("create", NoRow)
      <4>1. intent.op = "create" /\ intent.row = NoRow
        BY <1>1, <3>1 DEF Submit, DialogInv, Choice
      <4> QED
        BY <3>1, <4>1, SentRequest
    <3>2. CASE operation = "edit" /\ Send("update", original)
      <4>1. intent.op = "update" /\ intent.row = original /\ intent.data = form
        BY <1>1, <3>2 DEF Submit, DialogInv, Choice
      <4>2. original \in Rows \union {NoRow}
        BY DEF DialogInv, RowDialogsTypeOK
      <4> QED
        BY <3>2, <4>1, <4>2, SentRequest
    <3> QED
      BY <1>1, <3>1, <3>2 DEF Submit
  <2>3. RowDialogsTypeOK'
    BY <1>1, <2>1, <2>2 DEF Submit, DialogInv, RowDialogsTypeOK
  <2>4. Choice' /\ Leftovers'
    BY <1>1, <2>1 DEF Submit, DialogInv, Choice, Leftovers, NewStartsEmpty
  <2> QED
    BY <2>2, <2>3, <2>4 DEF DialogInv
<1>2. CASE ConfirmDelete
  <2>1. Fields' = Fields /\ Values' = Values /\ Rows' = Rows
    BY <1>2 DEF ConfirmDelete, Fields
  <2>2. /\ requests' \subseteq [op : {"create", "update", "delete"}, row : Rows \union {NoRow},
                                stage : {"sent", "done", "failed"}, matches : BOOLEAN]
        /\ RequestsMatchChoice'
    <3>1. CASE original # NoRow /\ Send("delete", original)
      <4>1. intent.op = "delete" /\ intent.row = original
        BY <1>2, <3>1 DEF ConfirmDelete, DialogInv, Choice
      <4>2. original \in Rows \union {NoRow}
        BY DEF DialogInv, RowDialogsTypeOK
      <4> QED
        BY <3>1, <4>1, <4>2, SentRequest
    <3>2. CASE UNCHANGED requests
      BY <3>2 DEF DialogInv, RowDialogsTypeOK, RequestsMatchChoice
    <3> QED
      BY <1>2, <3>1, <3>2 DEF ConfirmDelete
  <2>3. intent' \in [op : {"create", "update", "delete"}, row : Rows \union {NoRow},
                     data : [Fields -> Values]]
    BY <1>2, IntentType DEF ConfirmDelete, NewIntent
  <2>4. RowDialogsTypeOK'
    BY <1>2, <2>1, <2>2, <2>3 DEF ConfirmDelete, DialogInv, RowDialogsTypeOK
  <2>5. ~open
    BY <1>2 DEF ConfirmDelete, DialogInv, Choice
  <2>6. Choice' /\ Leftovers'
    BY <1>2, <2>1, <2>5 DEF ConfirmDelete, DialogInv, Choice, Leftovers, NewStartsEmpty
  <2> QED
    BY <2>2, <2>4, <2>6 DEF DialogInv
<1> QED
  BY <1>1, <1>2 DEF Sends

(* The backend changes what is stored and how far a request has come.      *)
LEMMA ServesKeep ==
  ASSUME DialogInv, Serves
  PROVE  DialogInv'
<1> PICK q \in requests : Serve(q) \/ Refuse(q)
  BY DEF Serves
<1>1. Fields' = Fields /\ Values' = Values /\ Rows' = Rows
  BY DEF Serve, Refuse, Fields
<1>2. ASSUME NEW stage \in {"done", "failed"}, Handled(q, stage)
      PROVE  /\ requests' \subseteq [op : {"create", "update", "delete"},
                                    row : Rows \union {NoRow},
                                    stage : {"sent", "done", "failed"}, matches : BOOLEAN]
             /\ RequestsMatchChoice'
  <2>1. /\ q \in [op : {"create", "update", "delete"}, row : Rows \union {NoRow},
                  stage : {"sent", "done", "failed"}, matches : BOOLEAN]
        /\ q.matches
    BY DEF DialogInv, RowDialogsTypeOK, RequestsMatchChoice
  <2>2. requests' = (requests \ {q}) \union {[q EXCEPT !.stage = stage]}
    BY <1>2 DEF Handled
  <2> QED
    BY <2>1, <2>2 DEF DialogInv, RowDialogsTypeOK, RequestsMatchChoice
<1>3. Handled(q, "done") \/ Handled(q, "failed")
  BY DEF Serve, Refuse
<1>4. stored' \subseteq Rows
  BY DEF Serve, Refuse, DialogInv, RowDialogsTypeOK
<1>5. RowDialogsTypeOK' /\ RequestsMatchChoice'
  BY <1>1, <1>2, <1>3, <1>4 DEF Serve, Refuse, DialogInv, RowDialogsTypeOK
<1>6. Choice' /\ Leftovers'
  BY <1>1 DEF Serve, Refuse, DialogInv, Choice, Leftovers, NewStartsEmpty
<1> QED
  BY <1>5, <1>6 DEF DialogInv

(* An answer may come when the page shows anything.                        *)
LEMMA AnswersKeep ==
  ASSUME DialogInv, Answers
  PROVE  DialogInv'
<1> PICK q \in requests : Saved(q) \/ Deleted(q) \/ Failed(q)
  BY DEF Answers
<1>1. Fields' = Fields /\ Values' = Values /\ Rows' = Rows
  BY DEF Saved, Deleted, Failed, Fields
<1>2. /\ requests' \subseteq [op : {"create", "update", "delete"}, row : Rows \union {NoRow},
                              stage : {"sent", "done", "failed"}, matches : BOOLEAN]
      /\ RequestsMatchChoice'
  BY DEF Saved, Deleted, Failed, DialogInv, RowDialogsTypeOK, RequestsMatchChoice
<1>3. CASE Saved(q)
  <2>1. /\ form' \in [Fields -> Values] /\ leftover' = FALSE
        /\ \A f \in Fields : form'[f] = Empty \/ f = "networkType"
    BY <1>3, DefaultClears DEF Saved, DialogInv, RowDialogsTypeOK
  <2>2. /\ Choice' /\ ~open' /\ original' = NoRow /\ operation' = "create"
        /\ intent' \in [op : {"create", "update", "delete"}, row : Rows \union {NoRow},
                        data : [Fields -> Values]]
    BY <1>3, CloseDialogChoice DEF Saved
  <2>3. RowDialogsTypeOK'
    BY <1>1, <1>2, <1>3, <2>1, <2>2 DEF Saved, CloseDialog, DialogInv, RowDialogsTypeOK
  <2>4. Leftovers'
    BY <1>1, <2>1, <2>2 DEF Leftovers, NewStartsEmpty
  <2> QED
    BY <1>2, <2>2, <2>3, <2>4 DEF DialogInv
<1>4. CASE Deleted(q)
  <2>1. /\ Choice' /\ ~open' /\ original' = NoRow /\ operation' = "create"
        /\ intent' \in [op : {"create", "update", "delete"}, row : Rows \union {NoRow},
                        data : [Fields -> Values]]
    BY <1>4, CloseDialogChoice DEF Deleted
  <2>2. RowDialogsTypeOK'
    BY <1>1, <1>2, <1>4, <2>1 DEF Deleted, CloseDialog, DialogInv, RowDialogsTypeOK
  <2>3. Leftovers'
    BY <1>4, <2>1 DEF Deleted, Leftovers, NewStartsEmpty
  <2> QED
    BY <1>2, <2>1, <2>2, <2>3 DEF DialogInv
<1>5. CASE Failed(q)
  <2>1. RowDialogsTypeOK'
    BY <1>1, <1>2, <1>5 DEF Failed, DialogInv, RowDialogsTypeOK
  <2>2. Choice' /\ Leftovers'
    BY <1>1, <1>5 DEF Failed, DialogInv, Choice, Leftovers, NewStartsEmpty
  <2> QED
    BY <1>2, <2>1, <2>2 DEF DialogInv
<1> QED
  BY <1>3, <1>4, <1>5

LEMMA RowsArriveKeeps ==
  ASSUME DialogInv, RowsArrive \/ UNCHANGED vars
  PROVE  DialogInv'
<1>1. Fields' = Fields /\ Values' = Values /\ Rows' = Rows
  BY DEF RowsArrive, vars, Fields
<1>2. RowDialogsTypeOK'
  BY <1>1 DEF RowsArrive, vars, DialogInv, RowDialogsTypeOK
<1>3. Choice' /\ Leftovers' /\ RequestsMatchChoice'
  BY <1>1 DEF RowsArrive, vars, DialogInv, Choice, Leftovers, NewStartsEmpty, RequestsMatchChoice
<1> QED
  BY <1>2, <1>3 DEF DialogInv

-----------------------------------------------------------------------------
(* What the pages keep agrees with what the user has chosen since, in      *)
(* every state: the inductive invariant.                                   *)
THEOREM DialogInvariant == Spec => []DialogInv
<1>1. Init => DialogInv
  BY InitHolds
<1>2. DialogInv /\ [Next]_vars => DialogInv'
  <2> SUFFICES ASSUME DialogInv, [Next]_vars PROVE DialogInv'
    OBVIOUS
  <2>1. CASE Next
    <3>1. kind \in Kinds
      BY DEF DialogInv, RowDialogsTypeOK
    <3>2. Opens \/ Types \/ Closes \/ Sends \/ Serves \/ Answers \/ RowsArrive
      BY <2>1, <3>1, StepCases
    <3> QED
      BY <3>2, OpensKeep, TypesKeep, ClosesKeep, SendsKeep, ServesKeep, AnswersKeep,
         RowsArriveKeeps
  <2>2. CASE UNCHANGED vars
    BY <2>2, RowsArriveKeeps
  <2> QED
    BY <2>1, <2>2
<1> QED
  BY <1>1, <1>2, PTL DEF Spec

(* A request does what the user chose, with the row that was clicked and   *)
(* the data that was shown, whichever answers arrive in between.           *)
THEOREM ChoiceCorrect == Spec => []RequestsMatchChoice
<1>1. DialogInv => RequestsMatchChoice
  BY DEF DialogInv
<1> QED
  BY <1>1, DialogInvariant, PTL

(* A dialog for a new document shows nothing of another one, unless a      *)
(* deletion has left its row behind.                                       *)
THEOREM NewCorrect == Spec => []NewStartsEmpty
<1>1. DialogInv => NewStartsEmpty
  BY DEF DialogInv, Leftovers
<1> QED
  BY <1>1, DialogInvariant, PTL
=============================================================================
