-------------------------- MODULE ClientDetailPage --------------------------
(***************************************************************************)
(* The page of one client: its loader (clients/[id]/page.tsx) and its      *)
(* editor (client-detail.tsx).                                             *)
(*                                                                         *)
(* The page renders from props.  An open form keeps what it was opened on: *)
(* its inputs are uncontrolled and its version is captured with them.  The *)
(* owner buttons and the status form submit the version the props have at  *)
(* the time.  A load is three parallel requests, the first of which is two *)
(* statements, so what arrives as one page was read at several moments.    *)
(*                                                                         *)
(* Two inputs of a form are told apart only where a property does: what    *)
(* the user typed is a choice at the moment of the submit.                 *)
(***************************************************************************)
EXTENDS ClientActions

CONSTANT Untouched      \* an input the user has not typed into

VARIABLES
    shown,              \* the props of ClientDetailView, or what is there instead
    reads,              \* the load in progress: what is still to be read, and what was
    editing,            \* the open client form
    editingContact,     \* the open contact form
    editingInteraction, \* the open interaction form
    statusForm          \* the choice in the status form, and the row it was made against

detail == <<shown, reads, editing, editingContact, editingInteraction, statusForm>>
forms == <<editing, editingContact, editingInteraction, statusForm>>

NoRows == [x \in {} |-> {}]

\* The props but for the history, which is display only.
Shown(kind, row, ks, is) == [kind |-> kind, row |-> row, contacts |-> ks, interactions |-> is]
Blank(kind) == Shown(kind, NoClientRow("unborn"), NoRows, NoRows)

Parts == {"row", "contacts", "interactions"}
NoReads == [on |-> FALSE, todo |-> {}, page |-> Blank("loading")]
StartReads == [on |-> TRUE, todo |-> Parts, page |-> Blank("view")]

Closed == [open |-> FALSE]
Form(id, row) == [open |-> TRUE, id |-> id, version |-> row.version, seen |-> row]
LinkForm(id, row, options, link) ==
    [open |-> TRUE, id |-> id, version |-> row.version, seen |-> row,
     link |-> link, offered |-> row.contact \in options \cup {None}]
StatusForm(status, reason, row) == [choice |-> status, reason |-> reason, row |-> row]
NoStatusForm == StatusForm(Lead, Untouched, NoClientRow("unborn"))

IsPage(page) ==
    /\ page.kind \in {"loading", "error", "view"}
    /\ page.row \in ClientRow
    /\ RowsOf(page.contacts, Contact, ContactRow)
    /\ RowsOf(page.interactions, Interaction, InteractionRow)

DetailTypeOK ==
    /\ IsPage(shown)
    /\ reads.on \in BOOLEAN /\ reads.todo \subseteq Parts /\ IsPage(reads.page)
    /\ editing \in {Closed} \cup [open: {TRUE}, id: Client, version: Nat, seen: ClientRow]
    /\ editingContact \in {Closed} \cup [open: {TRUE}, id: Contact, version: Nat, seen: ContactRow]
    /\ editingInteraction \in {Closed} \cup
          [open: {TRUE}, id: Interaction, version: Nat, seen: InteractionRow,
           link: Contact \cup {None}, offered: BOOLEAN]
    /\ statusForm \in [choice: Status, reason: Reason \cup {None, Untouched}, row: ClientRow]

Unmounted ==
    /\ editing = Closed /\ editingContact = Closed /\ editingInteraction = Closed
    /\ statusForm = NoStatusForm

DetailInit == shown = Blank("loading") /\ reads = NoReads /\ Unmounted

Unmount ==
    /\ editing' = Closed /\ editingContact' = Closed /\ editingInteraction' = Closed
    /\ statusForm' = NoStatusForm

(***************************************************************************)
(* ClientLoader.                                                           *)
(***************************************************************************)
ContactsOf(c) == [k \in {k \in Contact : ContactExists(c, k)} |-> contacts[k]]
InteractionsOf(c) == [i \in {i \in Interaction : InteractionExists(c, i)} |-> interactions[i]]

Reading(part) == reads.on /\ part \in reads.todo

\* A part has been read.
Got(part, page) ==
    /\ reads' = [on |-> TRUE, todo |-> reads.todo \ {part}, page |-> page]
    /\ UNCHANGED <<tables, session, shown, forms>>

\* The first statement of FindAsync.  Not found, or the call failed: ApiError
\* takes the place of the view, and a refresh ends with it.
ReadClient ==
    /\ Reading("row")
    /\ \/ ClientExists(route) /\ Got("row", [reads.page EXCEPT !.row = clients[route]])
       \/ /\ shown' = Blank("error") /\ reads' = NoReads
          /\ Unmount
          /\ request' = (IF result = "refreshing" THEN NoRequest ELSE request)
          /\ result' = (IF result = "refreshing" THEN "none" ELSE result)
          /\ failure' = "none"
          /\ UNCHANGED <<tables, route>>

\* Its second statement, on a snapshot of its own.
ReadContacts ==
    /\ Reading("contacts") /\ "row" \notin reads.todo
    /\ Got("contacts", [reads.page EXCEPT !.contacts = ContactsOf(route)])

\* GET .../interactions at the same time; a failure degrades to an empty list.
ReadInteractions ==
    /\ Reading("interactions")
    /\ \E is \in {InteractionsOf(route), NoRows} :
          Got("interactions", [reads.page EXCEPT !.interactions = is])

\* Slip: the select without its defaultValue.
LinkDefaultBlank(row, options) == None

\* What the contact select of an interaction form starts with: the linked
\* contact if it is one of the options, else the blank option.
LinkDefault(row, options) == IF row.contact \in options THEN row.contact ELSE None

\* The select when the props change: it is there only while there are contacts,
\* and an option that goes takes its selection with it.
LinkNow(page) ==
    LET i == editingInteraction.id
        options == DOMAIN page.contacts
        mounted == i \in DOMAIN shown.interactions /\ DOMAIN shown.contacts # {} IN
    IF i \notin DOMAIN page.interactions THEN None
    ELSE IF mounted
         THEN IF editingInteraction.link \in options THEN editingInteraction.link ELSE None
         ELSE LinkDefault(page.interactions[i], options)

\* Slip: <StatusForm> without its key.
StatusFormOnceMounted(page) ==
    IF shown.kind = "view" THEN statusForm
    ELSE StatusForm(page.row.status, Untouched, page.row)

\* <StatusForm key={client.status}>: mounted anew when the status has changed.
StatusFormNow(page) ==
    IF shown.kind = "view" /\ shown.row.status = page.row.status THEN statusForm
    ELSE StatusForm(page.row.status, Untouched, page.row)

\* The form an action's handler closes when it has succeeded.
Saved(op) == result = "refreshing" /\ request.op = op

\* The props are there.  After an action of this page its handler goes on.
Arrive ==
    LET page == reads.page
        own == result = "refreshing" IN
    /\ reads.on /\ reads.todo = {}
    /\ reads' = NoReads
    /\ shown' = page
    /\ statusForm' = StatusFormNow(page)
    /\ editing' = IF Saved("updateClient") /\ request.from = "form" THEN Closed ELSE editing
    /\ editingContact' = IF Saved("updateContact") THEN Closed ELSE editingContact
    /\ editingInteraction' =
          IF Saved("updateInteraction") \/ ~editingInteraction.open THEN Closed
          ELSE [editingInteraction EXCEPT !.link = LinkNow(page)]
    /\ request' = IF own THEN NoRequest ELSE request
    /\ result' = IF own THEN "none" ELSE result
    /\ UNCHANGED <<tables, route, failure>>

(***************************************************************************)
(* What becomes of an action.                                              *)
(***************************************************************************)
OnDetail == route # List

\* Slip: a load that is under way will do, although it began before the write.
RefreshJoins ==
    /\ OnDetail /\ result = "ok" /\ request.op # "deleteClient"
    /\ result' = "refreshing"
    /\ reads' = IF reads.on THEN reads ELSE StartReads
    /\ UNCHANGED <<tables, route, request, failure, shown, forms>>

\* if (result.ok) { refresh(); }: the page is read again after the write.
Refresh ==
    /\ OnDetail /\ result = "ok" /\ request.op # "deleteClient"
    /\ result' = "refreshing"
    /\ reads' = StartReads
    /\ UNCHANGED <<tables, route, request, failure, shown, forms>>

\* if (!result.ok) { setFailure(...); return; }
Refused ==
    /\ OnDetail /\ result \in {"conflict", "refused"}
    /\ failure' = result
    /\ request' = NoRequest /\ result' = "none"
    /\ UNCHANGED <<tables, route, detail>>

\* The Reload button of FailureBanner, which it has for a 409 only.
Reload ==
    /\ OnDetail /\ failure = "conflict" /\ ~IsPending /\ ~reads.on
    /\ reads' = StartReads
    /\ UNCHANGED <<tables, session, shown, forms>>

(***************************************************************************)
(* The controls.  Every one that submits or opens is disabled={isPending}. *)
(***************************************************************************)
View == OnDetail /\ shown.kind = "view"
Ready == View /\ ~IsPending

\* Bounds: no edit of a row that has reached them.
Short(row) == row.version < MaxClientVersion
ChildShort(row) == row.version < MaxChildVersion

\* A control that only changes what is open; reset() clears the banner.
Opens(open) ==
    /\ Ready
    /\ open
    /\ failure' = "none"
    /\ UNCHANGED <<tables, route, request, result, shown, reads>>

Cancels(close) ==
    /\ Ready
    /\ close
    /\ UNCHANGED <<tables, session, shown, reads>>

Sends(r) == View /\ Submit(r) /\ UNCHANGED detail

(***************************************************************************)
(* The client form.                                                        *)
(***************************************************************************)
\* The inputs of the form.
ClientFormFields == [name: Name, rest: Rest \cup {None}]

OpenClient ==
    /\ ~editing.open /\ Short(shown.row)
    /\ Opens(editing' = Form(route, shown.row))
    /\ UNCHANGED <<editingContact, editingInteraction, statusForm>>

CancelClient ==
    /\ editing.open
    /\ Cancels(editing' = Closed)
    /\ UNCHANGED <<editingContact, editingInteraction, statusForm>>

\* Slip: client.version read off the props at save time.
OnSaveLive ==
    /\ View /\ editing.open
    /\ \E f \in ClientFormFields :
          Sends([op |-> "updateClient", client |-> route,
                 fields |-> [name |-> f.name, rest |-> f.rest, owner |-> shown.row.fields.owner],
                 version |-> shown.row.version, seen |-> editing.seen, from |-> "form"])

\* The owner is not on the form and is passed through from the props of the
\* moment; the version is the one the form was opened with.
OnSave ==
    /\ View /\ editing.open
    /\ \E f \in ClientFormFields :
          Sends([op |-> "updateClient", client |-> route,
                 fields |-> [name |-> f.name, rest |-> f.rest, owner |-> shown.row.fields.owner],
                 version |-> editing.version, seen |-> editing.seen, from |-> "form"])

\* "Assign to me" and "Unassign": the other columns and the version from props.
OnSetOwner(owner) ==
    /\ View /\ Short(shown.row)
    /\ owner # shown.row.fields.owner
    /\ Sends([op |-> "updateClient", client |-> route,
              fields |-> [shown.row.fields EXCEPT !.owner = owner],
              version |-> shown.row.version, seen |-> shown.row, from |-> "owner"])

\* window.confirm, then deleteClient: no version.
OnDeleteClient == View /\ ~editing.open /\ Sends([op |-> "deleteClient", client |-> route])

(***************************************************************************)
(* The status form.                                                        *)
(***************************************************************************)

\* The select is disabled while an action is pending; the reason is an input
\* of its own, there while the choice is `lost'.
ChooseStatus ==
    /\ Ready /\ Short(shown.row)
    /\ \E s \in Status, r \in Reason \cup {None, Untouched} :
          /\ s # Lost => r = Untouched
          /\ statusForm' = StatusForm(s, r, shown.row)
    /\ UNCHANGED <<tables, session, shown, reads, editing, editingContact, editingInteraction>>

\* Slip: the state behind the input, which is unset until it is typed in.
ReasonSentRaw == IF statusForm.choice # Lost THEN None ELSE statusForm.reason

\* A reason that was not typed is the default of the input, which follows the
\* props.
ReasonSent ==
    IF statusForm.choice # Lost THEN None
    ELSE IF statusForm.reason = Untouched THEN shown.row.lostReason ELSE statusForm.reason

OnChangeStatus ==
    /\ View /\ Short(shown.row)
    /\ Sends([op |-> "changeClientStatus", client |-> route, status |-> statusForm.choice,
              reason |-> ReasonSent, version |-> shown.row.version, seen |-> shown.row,
              chosen |-> statusForm.row])

(***************************************************************************)
(* Contacts.                                                               *)
(***************************************************************************)
ContactFields == Email \cup {None}

\* The add forms start empty and keep nothing: whether one is unfolded is left
\* out.
OnAddContact ==
    /\ View /\ Contact # {}
    /\ \E e \in ContactFields :
          Sends([op |-> "addContact", client |-> route, email |-> e])

OpenContact ==
    /\ \E k \in DOMAIN shown.contacts :
          /\ ChildShort(shown.contacts[k])
          /\ editingContact.open => editingContact.id # k
          /\ Opens(editingContact' = Form(k, shown.contacts[k]))
    /\ UNCHANGED <<editing, editingInteraction, statusForm>>

\* A form is on screen while its row is.
ContactFormShown == editingContact.open /\ editingContact.id \in DOMAIN shown.contacts

CancelContact ==
    /\ ContactFormShown
    /\ Cancels(editingContact' = Closed)
    /\ UNCHANGED <<editing, editingInteraction, statusForm>>

\* Slip: contact.version read off the props at save time.
OnSaveContactLive ==
    /\ View /\ ContactFormShown
    /\ \E e \in ContactFields :
          Sends([op |-> "updateContact", client |-> route, contact |-> editingContact.id,
                 email |-> e, version |-> shown.contacts[editingContact.id].version,
                 seen |-> editingContact.seen])

OnSaveContact ==
    /\ View /\ ContactFormShown
    /\ \E e \in ContactFields :
          Sends([op |-> "updateContact", client |-> route, contact |-> editingContact.id,
                 email |-> e, version |-> editingContact.version, seen |-> editingContact.seen])

OnDeleteContact ==
    /\ View
    /\ \E k \in DOMAIN shown.contacts :
          /\ editingContact.open => editingContact.id # k
          /\ Sends([op |-> "deleteContact", client |-> route, contact |-> k])

(***************************************************************************)
(* Interactions.                                                           *)
(***************************************************************************)
\* The options of InteractionFormFields' contact select.
Options == DOMAIN shown.contacts
InteractionFormFields == Options \cup {None}

OnAddInteraction ==
    /\ View /\ Interaction # {}
    /\ \E k \in InteractionFormFields :
          Sends([op |-> "addInteraction", client |-> route, contact |-> k])

OpenInteraction ==
    /\ \E i \in DOMAIN shown.interactions :
          LET row == shown.interactions[i] IN
          /\ ChildShort(row)
          /\ editingInteraction.open => editingInteraction.id # i
          /\ Opens(editingInteraction' = LinkForm(i, row, Options, LinkDefault(row, Options)))
    /\ UNCHANGED <<editing, editingContact, statusForm>>

InteractionFormShown ==
    editingInteraction.open /\ editingInteraction.id \in DOMAIN shown.interactions

CancelInteraction ==
    /\ InteractionFormShown
    /\ Cancels(editingInteraction' = Closed)
    /\ UNCHANGED <<editing, editingContact, statusForm>>

\* The user leaves the contact select alone or picks one of its options.
OnSaveInteraction ==
    /\ View /\ InteractionFormShown
    /\ \E touched \in BOOLEAN, k \in InteractionFormFields :
          /\ ~touched => k = editingInteraction.link
          /\ Sends([op |-> "updateInteraction", client |-> route,
                    interaction |-> editingInteraction.id, contact |-> k,
                    version |-> editingInteraction.version, seen |-> editingInteraction.seen,
                    touched |-> touched, offered |-> editingInteraction.offered])

OnDeleteInteraction ==
    /\ View
    /\ \E i \in DOMAIN shown.interactions :
          /\ editingInteraction.open => editingInteraction.id # i
          /\ Sends([op |-> "deleteInteraction", client |-> route, interaction |-> i])

(***************************************************************************)
(* The page's steps.                                                       *)
(***************************************************************************)
Load == ReadClient \/ ReadContacts \/ ReadInteractions \/ Arrive

DetailSubmit ==
    \/ OnSave \/ OnSetOwner(Me) \/ OnSetOwner(None) \/ OnChangeStatus \/ OnDeleteClient
    \/ OnAddContact \/ OnSaveContact \/ OnDeleteContact
    \/ OnAddInteraction \/ OnSaveInteraction \/ OnDeleteInteraction

DetailControl ==
    \/ OpenClient \/ CancelClient \/ ChooseStatus
    \/ OpenContact \/ CancelContact \/ OpenInteraction \/ CancelInteraction
=============================================================================
