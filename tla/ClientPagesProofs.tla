------------------------- MODULE ClientPagesProofs -------------------------
(***************************************************************************)
(* Theorems about ClientPages: what a tab saves, shows and says of the     *)
(* clients, for every number of clients, contacts, interactions and texts, *)
(* every page size, and whatever everybody else does.                      *)
(***************************************************************************)
EXTENDS ClientPages, FiniteSetTheorems, ClientTableProofs

(***************************************************************************)
(* Copies of rows.  What the browser holds was the row once, so it is as   *)
(* the row is now or of an earlier version; a link that went with its      *)
(* contact is the one difference versions do not tell.                     *)
(***************************************************************************)
OlderRow(old, new) == old.version < new.version \/ new = old

OlderLink(old, new) ==
    \/ OlderRow(old, new)
    \/ /\ new = [old EXCEPT !.contact = None]
       /\ old.contact \in Contact /\ contacts[old.contact].life = "gone"

HeldClient(c, row) ==
    /\ c \in Client /\ row \in ClientRow /\ row.fields \in Field
    /\ clients[c].life # "unborn"
    /\ ClientExists(c) => OlderRow(row, clients[c])

\* Contact k is client c's, or was.
OwnContact(c, k) ==
    /\ k \in Contact /\ contacts[k].life # "unborn"
    /\ contacts[k].life = "live" => contacts[k].client = c

HeldContact(c, k, row) ==
    /\ OwnContact(c, k) /\ row \in ContactRow
    /\ contacts[k].life = "live" => OlderRow(row, contacts[k])

HeldInteraction(i, row) ==
    /\ i \in Interaction /\ row \in InteractionRow
    /\ interactions[i].life # "unborn"
    /\ interactions[i].life = "live" => OlderLink(row, interactions[i])

\* No request with this version can be applied to the row any more.
Passed(row, version) == row.life = "gone" \/ (row.life = "live" /\ row.version > version)

(***************************************************************************)
(* The request in flight.                                                  *)
(***************************************************************************)
ClientEdits == {"updateClient", "updateClientFromRow", "changeClientStatus"}

\* Columns the control does not show are as they were in the row it was used on.
KeepsHidden(q) ==
    LET was == q.seen.fields IN
    /\ q.from # "owner" => q.fields.owner = was.owner
    /\ q.from # "form" => q.fields.rest = was.rest
    /\ q.from = "owner" => q.fields.name = was.name

\* The contact select of a form on `seen' still has its contact, or that contact
\* is gone, or the save will be refused.
LinkKept(i, version, seen, link) ==
    \/ Passed(interactions[i], version)
    \/ link = seen.contact
    \/ link = None /\ seen.contact \in Contact /\ contacts[seen.contact].life = "gone"

RequestOK(q) ==
    /\ q \in Requests
    /\ q.op \in ClientEdits => HeldClient(q.client, q.seen) /\ q.version = q.seen.version
    /\ q.op = "updateClient" => Passed(clients[q.client], q.version) \/ KeepsHidden(q)
    /\ q.op = "changeClientStatus" => q.chosen.status = q.seen.status
    /\ q.op = "updateContact" =>
          HeldContact(q.client, q.contact, q.seen) /\ q.version = q.seen.version
    /\ q.op = "updateInteraction" =>
          /\ HeldInteraction(q.interaction, q.seen) /\ q.version = q.seen.version
          /\ ~q.touched /\ q.offered => LinkKept(q.interaction, q.version, q.seen, q.contact)

\* An edit that was applied has moved its row on.
Outrun(q) == q.op \in {"updateClient", "changeClientStatus"} => Passed(clients[q.client], q.version)

RequestInv ==
    /\ RequestOK(request)
    /\ route # List /\ request.op \in ClientEdits => request.client = route
    /\ result \in {"ok", "refreshing"} => Outrun(request)

(***************************************************************************)
(* The list.                                                               *)
(***************************************************************************)
RowFormOK(f) ==
    \/ f = NoRow
    \/ /\ f \in [open: {TRUE}, id: Client, version: Nat, seen: ClientRow]
       /\ HeldClient(f.id, f.seen) /\ f.version = f.seen.version

ListingOK(l) ==
    /\ l = Listing(l.kind, l.rows, l.total, l.query)
    /\ l.kind \in {"loading", "error", "view"} /\ l.total \in Nat /\ l.query \in Query
    /\ \A c \in DOMAIN l.rows : HeldClient(c, l.rows[c])

ListInv ==
    /\ url \in Query /\ ListingOK(listing)
    /\ listLoad \in {"none", "reading", "counting"}
    /\ RowFormOK(editingRow) /\ creating \in BOOLEAN
    /\ route # List => listing = NothingListed("loading") /\ listLoad = "none" /\ RowsUnmounted

(***************************************************************************)
(* The page of one client.                                                 *)
(***************************************************************************)
PageOK(c, p) ==
    /\ p = Shown(p.kind, p.row, p.contacts, p.interactions)
    /\ p.kind \in {"loading", "error", "view"} /\ p.row \in ClientRow
    /\ \A k \in DOMAIN p.contacts : HeldContact(c, k, p.contacts[k])
    /\ \A i \in DOMAIN p.interactions : HeldInteraction(i, p.interactions[i])

ShownInv ==
    /\ PageOK(route, shown)
    /\ shown.kind = "view" => HeldClient(route, shown.row)

ClientFormInv ==
    \/ editing = Closed
    \/ /\ editing \in [open: {TRUE}, id: Client, version: Nat, seen: ClientRow]
       /\ shown.kind = "view" /\ editing.id = route
       /\ HeldClient(route, editing.seen) /\ editing.version = editing.seen.version
       /\ OlderRow(editing.seen, shown.row)

ContactFormInv ==
    \/ editingContact = Closed
    \/ /\ editingContact \in [open: {TRUE}, id: Contact, version: Nat, seen: ContactRow]
       /\ HeldContact(route, editingContact.id, editingContact.seen)
       /\ editingContact.version = editingContact.seen.version

\* A form whose select had the linked contact to begin with.
OfferedOK(f) ==
    /\ f.seen.contact = None \/ OwnContact(route, f.seen.contact)
    /\ f.id \in DOMAIN shown.interactions => LinkKept(f.id, f.version, f.seen, f.link)

InteractionFormInv ==
    LET f == editingInteraction IN
    \/ f = Closed
    \/ /\ f \in [open: {TRUE}, id: Interaction, version: Nat, seen: InteractionRow,
                 link: Contact \cup {None}, offered: BOOLEAN]
       /\ HeldInteraction(f.id, f.seen) /\ f.version = f.seen.version
       /\ f.link \in DOMAIN shown.contacts \cup {None}
       /\ f.offered => OfferedOK(f)

StatusFormInv ==
    /\ statusForm \in [choice: Status, reason: Reason \cup {None, Untouched}, row: ClientRow]
    /\ shown.kind = "view" => statusForm.row.status = shown.row.status

\* What has been read for the next page is not older than what is on screen,
\* and a contact that is missing from it is gone.
Covers(page, k) == k \in DOMAIN page.contacts \/ contacts[k].life = "gone"

ReadsOK(todo, page) ==
    LET f == editingInteraction IN
    /\ todo \subseteq Parts /\ page.kind = "view" /\ PageOK(route, page)
    /\ "row" \notin todo =>
          /\ HeldClient(route, page.row)
          /\ shown.kind = "view" => OlderRow(shown.row, page.row)
          /\ result = "refreshing" /\ request.op \in {"updateClient", "changeClientStatus"}
                => page.row.version > request.version
    /\ "contacts" \notin todo =>
          /\ \A k \in DOMAIN shown.contacts : Covers(page, k)
          /\ f.open /\ f.offered /\ f.seen.contact # None => Covers(page, f.seen.contact)
    /\ \A i \in DOMAIN page.interactions :
          /\ i \in DOMAIN shown.interactions
                => OlderLink(shown.interactions[i], page.interactions[i])
          /\ f.open /\ f.id = i => OlderLink(f.seen, page.interactions[i])

ReadsInv ==
    \/ reads = NoReads
    \/ /\ reads = [on |-> TRUE, todo |-> reads.todo, page |-> reads.page]
       /\ ReadsOK(reads.todo, reads.page)

DetailInv ==
    /\ ShownInv /\ ClientFormInv /\ ContactFormInv /\ InteractionFormInv /\ StatusFormInv
    /\ ReadsInv
    /\ route = List => shown = Blank("loading") /\ reads = NoReads /\ Unmounted

TablesInv == TablesTypeOK /\ Filled /\ OwnLinks

PagesInv ==
    /\ TablesInv /\ RequestInv /\ ListInv /\ DetailInv
    /\ route \in Client \cup {List} /\ result \in Result
    /\ failure \in {"none", "conflict", "refused"}

(***************************************************************************)
(* What is known of rows, requests, forms and pages stays so, whatever a   *)
(* statement does to the tables.                                           *)
(***************************************************************************)
LEMMA HeldClientStays ==
    ASSUME TablesTypeOK, Statement, NEW c, NEW row, HeldClient(c, row)
    PROVE  HeldClient(c, row)'
  <1>1. Grows(clients[c], clients'[c])
    BY ClientGrows DEF HeldClient
  <1>2. clients[c].version \in Nat /\ row.version \in Nat
    BY DEF HeldClient, TablesTypeOK, ClientRow
  <1>3. clients'[c].version \in Nat /\ clients'[c].life \in Life
    BY StatementTypes DEF HeldClient, TablesTypeOK, ClientRow
  <1>4. CASE clients'[c].life # "live"
    BY <1>1, <1>4 DEF HeldClient, ClientExists, Grows
  <1>5. CASE clients'[c].life = "live"
    BY <1>1, <1>2, <1>3, <1>5 DEF HeldClient, ClientExists, Grows, OlderRow
  <1> QED  BY <1>4, <1>5

LEMMA OwnContactStays ==
    ASSUME TablesTypeOK, Statement, NEW c, NEW k, OwnContact(c, k)
    PROVE  OwnContact(c, k)'
  BY ContactGrows DEF OwnContact, Grows

LEMMA HeldContactStays ==
    ASSUME TablesTypeOK, Statement, NEW c, NEW k, NEW row, HeldContact(c, k, row)
    PROVE  HeldContact(c, k, row)'
  <1>1. k \in Contact /\ OwnContact(c, k)'
    BY OwnContactStays DEF HeldContact, OwnContact
  <1>2. Grows(contacts[k], contacts'[k])
    BY <1>1, ContactGrows
  <1>3. contacts[k].version \in Nat /\ row.version \in Nat
    BY <1>1 DEF HeldContact, TablesTypeOK, ContactRow
  <1>4. contacts'[k].life = "live" => OlderRow(row, contacts'[k])
    BY <1>2, <1>3 DEF HeldContact, OwnContact, Grows, OlderRow
  <1> QED  BY <1>1, <1>4 DEF HeldContact

LEMMA OlderLinkStays ==
    ASSUME TablesTypeOK, Statement, NEW old, NEW new, OlderLink(old, new)
    PROVE  OlderLink(old, new)'
  BY GoneStays DEF OlderLink

LEMMA HeldInteractionStays ==
    ASSUME TablesTypeOK, Statement, NEW i, NEW row, HeldInteraction(i, row)
    PROVE  HeldInteraction(i, row)'
  <1>1. i \in Interaction /\ row \in InteractionRow /\ interactions[i] \in InteractionRow
    BY DEF HeldInteraction, TablesTypeOK
  <1>2. interactions[i].version \in Nat /\ row.version \in Nat
    BY <1>1 DEF InteractionRow
  <1>3. CASE Grows(interactions[i], interactions'[i])
    <2>1. CASE interactions'[i] = interactions[i]
      <3>1. OlderLink(row, interactions[i]) => OlderLink(row, interactions[i])'
        BY <2>1, GoneStays DEF OlderLink
      <3> QED  BY <1>1, <2>1, <3>1 DEF HeldInteraction
    <2>2. CASE /\ interactions[i].life = "live" /\ interactions'[i].life = "live"
               /\ interactions'[i].version = interactions[i].version + 1
      <3>1. row.version <= interactions[i].version
        BY <1>1, <1>2, <2>2 DEF HeldInteraction, OlderLink, OlderRow, InteractionRow
      <3> QED  BY <1>1, <1>2, <2>2, <3>1 DEF HeldInteraction, OlderLink, OlderRow
    <2>3. CASE interactions'[i].life = "gone"
      BY <1>1, <2>3 DEF HeldInteraction
    <2> QED  BY <1>3, <2>1, <2>2, <2>3 DEF Grows, HeldInteraction
  <1>4. CASE LinkSevered(i)
    <2>1. LET now == interactions[i] IN
          /\ interactions'[i] = [now EXCEPT !.contact = None] /\ now.life = "live"
          /\ now.contact \in Contact /\ contacts'[now.contact].life = "gone"
      BY <1>4 DEF LinkSevered
    <2>2. interactions'[i].version = interactions[i].version /\ interactions'[i].life = "live"
      BY <1>1, <2>1 DEF InteractionRow
    <2>3. OlderLink(row, interactions[i])
      BY <2>1 DEF HeldInteraction
    <2>4. CASE row.version < interactions[i].version
      BY <1>1, <2>2, <2>4 DEF HeldInteraction, OlderLink, OlderRow
    <2>5. CASE interactions[i] = row
      BY <1>1, <2>1, <2>2, <2>5 DEF HeldInteraction, OlderLink, OlderRow
    <2>6. CASE interactions[i] = [row EXCEPT !.contact = None]
      BY <1>1, <2>1, <2>6, NoneAssumption DEF InteractionRow
    <2> QED  BY <2>3, <2>4, <2>5, <2>6 DEF OlderLink, OlderRow
  <1> QED  BY <1>1, <1>3, <1>4, InteractionGrows

LEMMA PassedStays ==
    ASSUME TablesTypeOK, Statement, NEW v \in Nat
    PROVE  /\ \A c \in Client : Passed(clients[c], v) => Passed(clients'[c], v)
           /\ \A i \in Interaction : Passed(interactions[i], v) => Passed(interactions'[i], v)
  <1>1. ASSUME NEW c \in Client, Passed(clients[c], v) PROVE Passed(clients'[c], v)
    <2>1. Grows(clients[c], clients'[c]) /\ clients[c].version \in Nat
      BY ClientGrows DEF TablesTypeOK, ClientRow
    <2> QED  BY <1>1, <2>1 DEF Passed, Grows
  <1>2. ASSUME NEW i \in Interaction, Passed(interactions[i], v) PROVE Passed(interactions'[i], v)
    <2>1. interactions[i] \in InteractionRow /\ interactions[i].version \in Nat
      BY DEF TablesTypeOK, InteractionRow
    <2>2. CASE Grows(interactions[i], interactions'[i])
      BY <1>2, <2>1, <2>2 DEF Passed, Grows
    <2>3. CASE LinkSevered(i)
      <3>1. interactions'[i].version = interactions[i].version /\ interactions'[i].life = "live"
        BY <2>1, <2>3 DEF LinkSevered, InteractionRow
      <3> QED  BY <1>2, <2>3, <3>1 DEF Passed, LinkSevered
    <2> QED  BY <2>2, <2>3, InteractionGrows
  <1> QED  BY <1>1, <1>2

LEMMA CoversStays ==
    ASSUME TablesTypeOK, Statement, NEW page, NEW k \in Contact, Covers(page, k)
    PROVE  Covers(page, k)'
  BY GoneStays DEF Covers

LEMMA LinkKeptStays ==
    ASSUME TablesTypeOK, Statement, NEW i \in Interaction, NEW v \in Nat, NEW seen, NEW link,
           LinkKept(i, v, seen, link)
    PROVE  LinkKept(i, v, seen, link)'
  BY PassedStays, GoneStays DEF LinkKept

LEMMA PageStays ==
    ASSUME TablesTypeOK, Statement, NEW c, NEW page, PageOK(c, page)
    PROVE  PageOK(c, page)'
  BY HeldContactStays, HeldInteractionStays DEF PageOK

LEMMA ListingStays ==
    ASSUME TablesTypeOK, Statement, NEW l, ListingOK(l)
    PROVE  ListingOK(l)'
  BY HeldClientStays DEF ListingOK

LEMMA RowFormStays ==
    ASSUME TablesTypeOK, Statement, NEW f, RowFormOK(f)
    PROVE  RowFormOK(f)'
  BY HeldClientStays DEF RowFormOK

(***************************************************************************)
(* What the request in flight is made of.                                  *)
(***************************************************************************)
LEMMA RequestShape ==
    ASSUME NEW q \in Requests
    PROVE  /\ q.op = "createClient" => q.fields \in Field
           /\ q.op = "updateClient" => q \in
                 [op: {"updateClient"}, client: Client, fields: Field, version: Nat,
                  seen: ClientRow, from: {"form", "owner", "row"}]
           /\ q.op = "updateClientFromRow" => q \in
                 [op: {"updateClientFromRow"}, client: Client, name: Name, version: Nat,
                  seen: ClientRow]
           /\ q.op = "changeClientStatus" => q \in
                 [op: {"changeClientStatus"}, client: Client, status: Status,
                  reason: Reason \cup {None}, version: Nat, seen: ClientRow, chosen: ClientRow]
           /\ q.op = "deleteClient" => q.client \in Client
           /\ q.op = "addContact" => q.client \in Client /\ q.email \in Email \cup {None}
           /\ q.op = "updateContact" => q \in
                 [op: {"updateContact"}, client: Client, contact: Contact,
                  email: Email \cup {None}, version: Nat, seen: ContactRow]
           /\ q.op = "deleteContact" => q.client \in Client /\ q.contact \in Contact
           /\ q.op = "addInteraction" => q.client \in Client /\ q.contact \in Contact \cup {None}
           /\ q.op = "updateInteraction" => q \in
                 [op: {"updateInteraction"}, client: Client, interaction: Interaction,
                  contact: Contact \cup {None}, version: Nat, seen: InteractionRow,
                  touched: BOOLEAN, offered: BOOLEAN]
           /\ q.op = "deleteInteraction" => q.client \in Client /\ q.interaction \in Interaction
           /\ q # NoRequest => q.op # "none"
  BY DEF Requests, NoRequest

LEMMA RequestOKStays ==
    ASSUME TablesTypeOK, Statement, NEW q, RequestOK(q)
    PROVE  RequestOK(q)'
  <1> USE RequestShape DEF RequestOK
  <1>1. q.op \in ClientEdits => HeldClient(q.client, q.seen)' /\ q.version = q.seen.version
    BY HeldClientStays
  <1>2. q.op = "updateClient" => Passed(clients'[q.client], q.version) \/ KeepsHidden(q)
    BY PassedStays
  <1>3. q.op = "updateContact" =>
          HeldContact(q.client, q.contact, q.seen)' /\ q.version = q.seen.version
    BY HeldContactStays
  <1>4. q.op = "updateInteraction" =>
          /\ HeldInteraction(q.interaction, q.seen)' /\ q.version = q.seen.version
          /\ ~q.touched /\ q.offered => LinkKept(q.interaction, q.version, q.seen, q.contact)'
    BY HeldInteractionStays, LinkKeptStays
  <1> QED  BY <1>1, <1>2, <1>3, <1>4

LEMMA OutrunStays ==
    ASSUME TablesTypeOK, Statement, NEW q \in Requests, Outrun(q)
    PROVE  Outrun(q)'
  BY RequestShape, PassedStays DEF Outrun

(***************************************************************************)
(* Every step runs at most one statement.                                  *)
(***************************************************************************)
LEMMA ServeStatement ==
    ASSUME TablesTypeOK, request \in Requests, Serve
    PROVE  Statement
  <1> USE RequestShape DEF Underway, Guarded, NotApplied, Statement, tables
  <1>1. CASE CreateClient
    BY <1>1 DEF CreateClient, ClientStatement
  <1>2. CASE UpdateClient
    BY <1>2 DEF UpdateClient, ClientStatement
  <1>3. CASE UpdateClientFromRow
    BY <1>3 DEF UpdateClientFromRow
  <1>4. CASE ChangeClientStatus
    BY <1>4 DEF ChangeClientStatus, ClientStatement
  <1>5. CASE DeleteClient
    BY <1>5 DEF DeleteClient, ClientStatement
  <1>6. CASE AddContact
    BY <1>6 DEF AddContact, ContactStatement
  <1>7. CASE UpdateContact
    BY <1>7 DEF UpdateContact, ContactExists, ContactStatement
  <1>8. CASE DeleteContact
    BY <1>8 DEF DeleteContact, ContactStatement
  <1>9. CASE AddInteraction
    BY <1>9 DEF AddInteraction, InteractionStatement
  <1>10. CASE UpdateInteraction
    BY <1>10 DEF UpdateInteraction, InteractionExists, InteractionStatement
  <1>11. CASE DeleteInteraction
    BY <1>11 DEF DeleteInteraction, InteractionStatement
  <1>12. CASE CallFails
    BY <1>12 DEF CallFails
  <1> QED  BY <1>1, <1>2, <1>3, <1>4, <1>5, <1>6, <1>7, <1>8, <1>9, <1>10, <1>11, <1>12 DEF Serve

LEMMA ElsewhereStatement ==
    ASSUME TablesTypeOK, Elsewhere
    PROVE  Statement
  BY DEF Elsewhere, AnyRequest, ElsewhereClients, ElsewhereContacts, ElsewhereInteractions,
     Statement, ClientStatement, ContactStatement, InteractionStatement

LEMMA ListSteps ==
    ASSUME ListStep
    PROVE  UNCHANGED <<tables, detail>> /\ route' = route
  BY DEF ListStep, ListLoad, ReadList, CountList, ListArrives, ListFails, ListRefresh,
     ListRefused, ListReload, Browse, OnSearch, OnFilter, Clear, ShowAll, BackToFirst, Previous,
     NextPage, Navigate, ListControl, ToggleCreate, OpenRow, CancelRow, OnCreate, OnSaveRow,
     OnDelete, ListSends, Submit, session

LEMMA DetailSteps ==
    ASSUME DetailStep
    PROVE  UNCHANGED <<tables, list>> /\ route' = route
  BY DEF DetailStep, Load, ReadClient, ReadContacts, ReadInteractions, Got, Arrive, Refresh,
     Refused, Reload, DetailSubmit, OnSave, OnSetOwner, OnChangeStatus, OnDeleteClient,
     OnAddContact, OnSaveContact, OnDeleteContact, OnAddInteraction, OnSaveInteraction,
     OnDeleteInteraction, Sends, Submit, DetailControl, OpenClient, CancelClient, ChooseStatus,
     OpenContact, CancelContact, OpenInteraction, CancelInteraction, Opens, Cancels, session

LEMMA StepStatement ==
    ASSUME TablesTypeOK, request \in Requests, [Next]_vars
    PROVE  Statement
  <1>1. CASE Serve \/ Elsewhere
    BY <1>1, ServeStatement, ElsewhereStatement
  <1>2. CASE ListStep \/ DetailStep
    BY <1>2, ListSteps, DetailSteps DEF Statement
  <1>3. CASE Visit \/ AfterDelete
    BY <1>3 DEF Visit, AfterDelete, VisitPage, Statement
  <1>4. CASE UNCHANGED vars
    BY <1>4 DEF vars, Statement
  <1> QED  BY <1>1, <1>2, <1>3, <1>4 DEF Next

(***************************************************************************)
(* RequestInv, by what a step does with the request.                       *)
(***************************************************************************)
LEMMA RequestStays ==
    ASSUME TablesTypeOK, Statement, RequestInv, UNCHANGED <<route, request>>,
           result' \in {"ok", "refreshing"} => result \in {"ok", "refreshing"} \/ Outrun(request)'
    PROVE  RequestInv'
  <1>1. PICK q : q = request
    OBVIOUS
  <1>2. RequestOK(q) /\ q \in Requests
    BY <1>1 DEF RequestInv, RequestOK
  <1>3. RequestOK(q)'
    BY <1>2, RequestOKStays
  <1>4. result' \in {"ok", "refreshing"} => Outrun(q)'
    BY <1>1, <1>2, OutrunStays DEF RequestInv
  <1> QED  BY <1>1, <1>3, <1>4 DEF RequestInv

LEMMA RequestEnds ==
    ASSUME request' = NoRequest
    PROVE  RequestInv'
  BY DEF RequestInv, RequestOK, NoRequest, Requests, ClientEdits, Outrun

LEMMA RequestSent ==
    ASSUME TablesTypeOK, NEW r, RequestOK(r), Submit(r),
           route # List /\ r.op \in ClientEdits => r.client = route
    PROVE  RequestInv'
  <1>1. RequestOK(r)'
    BY RequestOKStays DEF Submit, Statement
  <1> QED  BY <1>1 DEF RequestInv, Submit

\* What the controls of the list submit is made of what is listed.
LEMMA ListSubmits ==
    ASSUME PagesInv, OnCreate \/ OnSaveRow \/ OnDelete
    PROVE  \E r : ListSends(r) /\ RequestOK(r)
  <1> USE DEF PagesInv, ListInv, RequestOK, ClientEdits
  <1>1. CASE OnCreate
    <2>1. PICK f \in CreateFields : ListSends([op |-> "createClient", fields |-> f])
      BY <1>1 DEF OnCreate
    <2>2. f \in Field
      BY PageAssumption DEF CreateFields
    <2> QED  BY <2>1, <2>2 DEF Requests
  <1>2. CASE OnSaveRow
    <2>1. PICK n \in Name :
             ListSends([op |-> "updateClientFromRow", client |-> editingRow.id, name |-> n,
                        version |-> editingRow.version, seen |-> editingRow.seen])
      BY <1>2 DEF OnSaveRow
    <2>2. /\ editingRow \in [open: {TRUE}, id: Client, version: Nat, seen: ClientRow]
          /\ HeldClient(editingRow.id, editingRow.seen) /\ editingRow.version = editingRow.seen.version
      <3>1. editingRow # NoRow
        BY <1>2 DEF OnSaveRow, RowFormShown, NoRow
      <3> QED  BY <3>1 DEF RowFormOK
    <2> QED  BY <2>1, <2>2 DEF Requests
  <1>3. CASE OnDelete
    <2>1. PICK c \in DOMAIN listing.rows : ListSends([op |-> "deleteClient", client |-> c])
      BY <1>3 DEF OnDelete
    <2>2. c \in Client
      BY DEF ListingOK, HeldClient
    <2> QED  BY <2>1, <2>2 DEF Requests
  <1> QED  BY <1>1, <1>2, <1>3

\* A row as the page shows it, or any later one, is out of reach of a version
\* older than the page's.
LEMMA OlderIsPassed ==
    ASSUME TablesTypeOK, NEW c, NEW row, HeldClient(c, row), NEW v \in Nat, v < row.version
    PROVE  Passed(clients[c], v)
  <1>1. clients[c] \in ClientRow /\ row.version \in Nat /\ clients[c].version \in Nat
    BY DEF HeldClient, TablesTypeOK, ClientRow
  <1> QED  BY <1>1 DEF HeldClient, ClientExists, OlderRow, Passed, ClientRow, Life

LEMMA OnSaveSubmits ==
    ASSUME PagesInv, OnSave
    PROVE  \E r : Sends(r) /\ RequestOK(r) /\ r.client = route
  <1>1. PICK f \in ClientFormFields :
           Sends([op |-> "updateClient", client |-> route,
                  fields |-> [name |-> f.name, rest |-> f.rest, owner |-> shown.row.fields.owner],
                  version |-> editing.version, seen |-> editing.seen, from |-> "form"])
    BY DEF OnSave
  <1>2. PICK c, row, seen : c = route /\ row = shown.row /\ seen = editing.seen
    OBVIOUS
  <1>3. PICK fields : fields = [name |-> f.name, rest |-> f.rest, owner |-> row.fields.owner]
    OBVIOUS
  <1>4. PICK r : r = [op |-> "updateClient", client |-> c, fields |-> fields,
                      version |-> editing.version, seen |-> seen, from |-> "form"]
    OBVIOUS
  <1>5. editing # Closed /\ shown.kind = "view"
    BY DEF OnSave, View, Closed
  <1>6. /\ HeldClient(c, row) /\ HeldClient(c, seen) /\ editing.version = seen.version
        /\ OlderRow(seen, row)
    BY <1>2, <1>5 DEF PagesInv, DetailInv, ClientFormInv, ShownInv
  <1>7. /\ c \in Client /\ row \in ClientRow /\ seen \in ClientRow /\ row.fields \in Field
        /\ seen.version \in Nat
    BY <1>6 DEF HeldClient, ClientRow
  <1>8. fields \in Field
    BY <1>3, <1>7, PageAssumption DEF ClientFormFields
  <1>9. r \in Requests
    BY <1>4, <1>6, <1>7, <1>8 DEF Requests
  <1>10. Passed(clients[c], seen.version) \/ KeepsHidden(r)
    <2>1. CASE seen.version < row.version
      BY <1>6, <1>7, <2>1, OlderIsPassed DEF PagesInv, TablesInv
    <2>2. CASE row = seen
      BY <1>3, <1>4, <2>2 DEF KeepsHidden
    <2> QED  BY <1>6, <2>1, <2>2 DEF OlderRow
  <1>11. RequestOK(r)
    BY <1>4, <1>6, <1>9, <1>10 DEF RequestOK, ClientEdits
  <1> QED  BY <1>1, <1>2, <1>3, <1>4, <1>11

LEMMA OnSetOwnerSubmits ==
    ASSUME PagesInv, NEW owner \in {Me, None}, OnSetOwner(owner)
    PROVE  \E r : Sends(r) /\ RequestOK(r) /\ r.client = route
  <1>1. PICK c, row : c = route /\ row = shown.row
    OBVIOUS
  <1>2. PICK fields : fields = [row.fields EXCEPT !.owner = owner]
    OBVIOUS
  <1>3. PICK r : r = [op |-> "updateClient", client |-> c, fields |-> fields,
                      version |-> row.version, seen |-> row, from |-> "owner"]
    OBVIOUS
  <1>4. HeldClient(c, row)
    BY <1>1 DEF OnSetOwner, View, PagesInv, DetailInv, ShownInv
  <1>5. c \in Client /\ row \in ClientRow /\ row.fields \in Field /\ row.version \in Nat
    BY <1>4 DEF HeldClient, ClientRow
  <1>6. /\ fields \in Field
        /\ fields.name = row.fields.name /\ fields.rest = row.fields.rest
    BY <1>2, <1>5, PageAssumption
  <1>7. r \in Requests
    BY <1>3, <1>5, <1>6 DEF Requests
  <1>8. KeepsHidden(r)
    BY <1>3, <1>6 DEF KeepsHidden
  <1>9. RequestOK(r)
    BY <1>3, <1>4, <1>7, <1>8 DEF RequestOK, ClientEdits
  <1> QED  BY <1>1, <1>2, <1>3, <1>9 DEF OnSetOwner

LEMMA OnChangeStatusSubmits ==
    ASSUME PagesInv, OnChangeStatus
    PROVE  \E r : Sends(r) /\ RequestOK(r) /\ r.client = route
  <1>1. PICK c, row, chosen : c = route /\ row = shown.row /\ chosen = statusForm.row
    OBVIOUS
  <1>2. PICK r : r = [op |-> "changeClientStatus", client |-> c, status |-> statusForm.choice,
                      reason |-> ReasonSent, version |-> row.version, seen |-> row,
                      chosen |-> chosen]
    OBVIOUS
  <1>3. HeldClient(c, row) /\ chosen.status = row.status
    BY <1>1 DEF OnChangeStatus, View, PagesInv, DetailInv, ShownInv, StatusFormInv
  <1>4. c \in Client /\ row \in ClientRow /\ row.version \in Nat
    BY <1>3 DEF HeldClient, ClientRow
  <1>5. statusForm.choice \in Status /\ chosen \in ClientRow /\ ReasonSent \in Reason \cup {None}
    BY <1>1, <1>4 DEF PagesInv, DetailInv, StatusFormInv, ReasonSent, ClientRow
  <1>6. r \in Requests
    BY <1>2, <1>4, <1>5 DEF Requests
  <1>7. RequestOK(r)
    BY <1>2, <1>3, <1>6 DEF RequestOK, ClientEdits
  <1> QED  BY <1>1, <1>2, <1>7 DEF OnChangeStatus

LEMMA OnSaveContactSubmits ==
    ASSUME PagesInv, OnSaveContact
    PROVE  \E r : Sends(r) /\ RequestOK(r) /\ r.client = route
  <1>1. PICK e \in ContactFields :
           Sends([op |-> "updateContact", client |-> route, contact |-> editingContact.id,
                  email |-> e, version |-> editingContact.version, seen |-> editingContact.seen])
    BY DEF OnSaveContact
  <1>2. PICK c, f : c = route /\ f = editingContact
    OBVIOUS
  <1>3. PICK r : r = [op |-> "updateContact", client |-> c, contact |-> f.id,
                      email |-> e, version |-> f.version, seen |-> f.seen]
    OBVIOUS
  <1>4. f # Closed /\ c \in Client
    BY <1>2 DEF OnSaveContact, ContactFormShown, Closed, View, OnDetail, PagesInv
  <1>5. /\ f \in [open: {TRUE}, id: Contact, version: Nat, seen: ContactRow]
        /\ HeldContact(c, f.id, f.seen) /\ f.version = f.seen.version
    BY <1>2, <1>4 DEF PagesInv, DetailInv, ContactFormInv
  <1>6. r \in Requests
    BY <1>3, <1>4, <1>5 DEF Requests, ContactFields
  <1>7. RequestOK(r)
    BY <1>3, <1>5, <1>6 DEF RequestOK, ClientEdits
  <1> QED  BY <1>1, <1>2, <1>3, <1>7

LEMMA OnSaveInteractionSubmits ==
    ASSUME PagesInv, OnSaveInteraction
    PROVE  \E r : Sends(r) /\ RequestOK(r) /\ r.client = route
  <1>1. PICK touched \in BOOLEAN, k \in InteractionFormFields :
           /\ ~touched => k = editingInteraction.link
           /\ Sends([op |-> "updateInteraction", client |-> route,
                     interaction |-> editingInteraction.id, contact |-> k,
                     version |-> editingInteraction.version, seen |-> editingInteraction.seen,
                     touched |-> touched, offered |-> editingInteraction.offered])
    BY DEF OnSaveInteraction
  <1>2. PICK c, f : c = route /\ f = editingInteraction
    OBVIOUS
  <1>3. PICK r : r = [op |-> "updateInteraction", client |-> c, interaction |-> f.id,
                      contact |-> k, version |-> f.version, seen |-> f.seen,
                      touched |-> touched, offered |-> f.offered]
    OBVIOUS
  <1>4. f # Closed /\ c \in Client /\ f.id \in DOMAIN shown.interactions
    BY <1>2 DEF OnSaveInteraction, InteractionFormShown, Closed, View, OnDetail, PagesInv
  <1>5. /\ f \in [open: {TRUE}, id: Interaction, version: Nat, seen: InteractionRow,
                  link: Contact \cup {None}, offered: BOOLEAN]
        /\ HeldInteraction(f.id, f.seen) /\ f.version = f.seen.version
        /\ f.offered => LinkKept(f.id, f.version, f.seen, f.link)
    BY <1>2, <1>4 DEF PagesInv, DetailInv, InteractionFormInv, OfferedOK
  <1>6. k \in Contact \cup {None}
    BY DEF InteractionFormFields, Options, PagesInv, DetailInv, ShownInv, PageOK, HeldContact,
       OwnContact
  <1>7. r \in Requests
    BY <1>3, <1>4, <1>5, <1>6 DEF Requests
  <1>8. RequestOK(r)
    BY <1>1, <1>2, <1>3, <1>5, <1>7 DEF RequestOK, ClientEdits
  <1> QED  BY <1>1, <1>2, <1>3, <1>8

\* What the controls of a client's page submit is made of what the page shows
\* and of what the open form was opened on.
LEMMA DetailSubmits ==
    ASSUME PagesInv, DetailSubmit
    PROVE  \E r : Sends(r) /\ RequestOK(r) /\ r.client = route
  <1>1. CASE OnDeleteClient \/ OnAddContact \/ OnDeleteContact \/ OnAddInteraction
             \/ OnDeleteInteraction
    <2>1. PICK c : c = route
      OBVIOUS
    <2>2. c \in Client
      BY <1>1, <2>1 DEF OnDeleteClient, OnAddContact, OnDeleteContact, OnAddInteraction,
         OnDeleteInteraction, View, OnDetail, PagesInv
    <2>3. /\ DOMAIN shown.contacts \subseteq Contact
          /\ DOMAIN shown.interactions \subseteq Interaction
      BY DEF PagesInv, DetailInv, ShownInv, PageOK, HeldContact, OwnContact, HeldInteraction
    <2> USE <2>1, <2>2, <2>3 DEF RequestOK, ClientEdits, Requests
    <2>4. CASE OnDeleteClient
      BY <2>4 DEF OnDeleteClient
    <2>5. CASE OnAddContact
      BY <2>5 DEF OnAddContact, ContactFields
    <2>6. CASE OnDeleteContact
      BY <2>6 DEF OnDeleteContact
    <2>7. CASE OnAddInteraction
      BY <2>7 DEF OnAddInteraction, InteractionFormFields, Options
    <2>8. CASE OnDeleteInteraction
      BY <2>8 DEF OnDeleteInteraction
    <2> QED  BY <1>1, <2>4, <2>5, <2>6, <2>7, <2>8
  <1> QED  BY <1>1, OnSaveSubmits, OnSetOwnerSubmits, OnChangeStatusSubmits, OnSaveContactSubmits,
           OnSaveInteractionSubmits DEF DetailSubmit

\* An edit on the version the row has moves the row past that version.
LEMMA EditPasses ==
    ASSUME TablesTypeOK, NEW c \in Client, ClientExists(c)
    PROVE  /\ \A f \in Field : ReplaceFields(c, f) => Passed(clients'[c], clients[c].version)
           /\ \A s \in Status, x \in Reason \cup {None}, p \in Status :
                 MoveStatus(c, s, x, p) => Passed(clients'[c], clients[c].version)
  <1>1. clients[c] \in ClientRow /\ clients[c].version \in Nat
    BY DEF TablesTypeOK, ClientRow
  <1>2. ASSUME NEW f \in Field, ReplaceFields(c, f)
        PROVE  Passed(clients'[c], clients[c].version)
    <2>1. clients'[c] = Bump([clients[c] EXCEPT !.fields = f])
      BY <1>2 DEF ReplaceFields, TablesTypeOK
    <2>2. LET new == Bump([clients[c] EXCEPT !.fields = f]) IN
          new.life = "live" /\ new.version = clients[c].version + 1
      BY <1>1 DEF Bump, ClientRow, ClientExists
    <2> QED  BY <1>1, <2>1, <2>2 DEF Passed
  <1>3. ASSUME NEW s \in Status, NEW x \in Reason \cup {None}, NEW p \in Status,
               MoveStatus(c, s, x, p)
        PROVE  Passed(clients'[c], clients[c].version)
    BY <1>1, <1>3 DEF MoveStatus, Passed, TablesTypeOK
  <1> QED  BY <1>2, <1>3

LEMMA ServeOutruns ==
    ASSUME TablesTypeOK, request \in Requests, Serve, result' \in {"ok", "refreshing"}
    PROVE  request' = request /\ Outrun(request)'
  <1> USE RequestShape DEF Underway, Guarded, Applied, NotApplied, Answered
  <1>1. request' = request
    BY DEF Serve, CreateClient, UpdateClient, UpdateClientFromRow, ChangeClientStatus,
       DeleteClient, AddContact, UpdateContact, DeleteContact, AddInteraction, UpdateInteraction,
       DeleteInteraction, CallFails
  <1>2. CASE request.op = "updateClient"
    <2>1. UpdateClient
      BY <1>2 DEF Serve, CreateClient, UpdateClientFromRow, ChangeClientStatus,
         DeleteClient, AddContact, UpdateContact, DeleteContact, AddInteraction,
         UpdateInteraction, DeleteInteraction, CallFails
    <2>2. Passed(clients'[request.client], request.version)
      BY <1>2, <2>1, EditPasses DEF UpdateClient
    <2> QED  BY <1>1, <2>2 DEF Outrun
  <1>3. CASE request.op = "changeClientStatus"
    <2>1. ChangeClientStatus
      BY <1>3 DEF Serve, CreateClient, UpdateClient, UpdateClientFromRow,
         DeleteClient, AddContact, UpdateContact, DeleteContact, AddInteraction,
         UpdateInteraction, DeleteInteraction, CallFails
    <2>2. clients[request.client].status \in Status
      BY <1>3 DEF TablesTypeOK, ClientRow
    <2>3. Passed(clients'[request.client], request.version)
      BY <1>3, <2>1, <2>2, EditPasses DEF ChangeClientStatus
    <2> QED  BY <1>1, <2>3 DEF Outrun
  <1> QED  BY <1>1, <1>2, <1>3 DEF Outrun

\* Columns that are read for a list row are those of the version the row was
\* opened on, or that version is passed.
LEMMA FromRowIsOK ==
    ASSUME PagesInv, UpdateClientFromRow, ClientExists(request.client)
    PROVE  /\ RequestOK(request') /\ UNCHANGED <<tables, route, result>>
           /\ request'.client = request.client
  <1>1. PICK c, seen : c = request.client /\ seen = request.seen
    OBVIOUS
  <1>2. PICK fields : fields = [clients[c].fields EXCEPT !.name = request.name]
    OBVIOUS
  <1>3. PICK r : r = [op |-> "updateClient", client |-> c, version |-> request.version,
                      fields |-> fields, seen |-> seen, from |-> "row"]
    OBVIOUS
  <1>4. request' = r /\ UNCHANGED <<tables, route, result>>
    BY <1>1, <1>2, <1>3 DEF UpdateClientFromRow
  <1>5. /\ request \in [op: {"updateClientFromRow"}, client: Client, name: Name, version: Nat,
                        seen: ClientRow]
        /\ HeldClient(c, seen) /\ request.version = seen.version
    BY <1>1, RequestShape DEF UpdateClientFromRow, Underway, PagesInv, RequestInv, RequestOK,
       ClientEdits
  <1>6. clients[c].fields \in Field
    BY <1>1, <1>5 DEF PagesInv, TablesInv, Filled
  <1>7. /\ fields \in Field
        /\ fields.owner = clients[c].fields.owner /\ fields.rest = clients[c].fields.rest
    BY <1>2, <1>5, <1>6, PageAssumption
  <1>8. r \in Requests
    BY <1>1, <1>3, <1>5, <1>7 DEF Requests
  <1>9. Passed(clients[c], seen.version) \/ KeepsHidden(r)
    <2>1. CASE seen.version < clients[c].version
      BY <1>1, <2>1 DEF Passed, ClientExists
    <2>2. CASE clients[c] = seen
      BY <1>3, <1>7, <2>2 DEF KeepsHidden
    <2> QED  BY <1>1, <1>5, <2>1, <2>2 DEF HeldClient, OlderRow
  <1>10. RequestOK(r)
    BY <1>3, <1>5, <1>8, <1>9 DEF RequestOK, ClientEdits
  <1> QED  BY <1>1, <1>3, <1>4, <1>10

LEMMA ServeRequest ==
    ASSUME PagesInv, Serve
    PROVE  RequestInv'
  <1>1. TablesTypeOK /\ RequestInv /\ request \in Requests
    BY DEF PagesInv, TablesInv, RequestInv, RequestOK
  <1>2. Statement
    BY <1>1, ServeStatement
  <1>3. CASE UpdateClientFromRow /\ ClientExists(request.client)
    <2>1. PICK r : r = request'
      OBVIOUS
    <2>2. RequestOK(r) /\ UNCHANGED <<tables, route, result>> /\ r.client = request.client
      BY <1>3, <2>1, FromRowIsOK
    <2>3. RequestOK(r)'
      BY <1>1, <1>2, <2>2, RequestOKStays
    <2>4. request.op \in ClientEdits /\ result' = "none"
      BY <1>3 DEF UpdateClientFromRow, Underway, ClientEdits
    <2> QED  BY <1>1, <2>1, <2>2, <2>3, <2>4 DEF RequestInv
  <1>4. CASE UNCHANGED <<route, request>>
    BY <1>1, <1>2, <1>4, ServeOutruns, RequestStays
  <1> QED  BY <1>3, <1>4 DEF Serve, CreateClient, UpdateClient, UpdateClientFromRow,
           ChangeClientStatus, DeleteClient, AddContact, UpdateContact, DeleteContact,
           AddInteraction, UpdateInteraction, DeleteInteraction, CallFails, Guarded, Applied,
           NotApplied, Answered

LEMMA RequestStep ==
    ASSUME PagesInv, [Next]_vars
    PROVE  RequestInv'
  <1> DEFINE Kept == /\ UNCHANGED <<route, request>>
                     /\ result' \in {"ok", "refreshing"} => result \in {"ok", "refreshing"}
  <1>1. TablesTypeOK /\ RequestInv /\ Statement
    BY StepStatement DEF PagesInv, TablesInv, RequestInv, RequestOK
  <1>2. CASE request' = NoRequest
    BY <1>2, RequestEnds
  <1>3. CASE Kept
    BY <1>1, <1>3, RequestStays
  <1>4. CASE ListStep
    <2>1. CASE OnCreate \/ OnSaveRow \/ OnDelete
      <3>1. PICK r : ListSends(r) /\ RequestOK(r)
        BY <2>1, ListSubmits
      <3> QED  BY <1>1, <3>1, RequestSent DEF ListSends, ListView, OnList
    <2>2. CASE ToggleCreate \/ OpenRow \/ CancelRow
      BY <1>3, <2>2 DEF ToggleCreate, OpenRow, CancelRow, session
    <2>3. CASE ListLoad
      BY <1>2, <1>3, <2>3 DEF ListLoad, ReadList, CountList, ListFails, ListArrives, session
    <2>4. CASE ListRefresh \/ ListRefused \/ ListReload
      BY <1>2, <1>3, <2>4 DEF ListRefresh, ListRefused, ListReload, session
    <2>5. CASE Browse
      BY <1>3, <2>5 DEF Browse, OnSearch, OnFilter, Clear, ShowAll, BackToFirst, Previous,
         NextPage, Navigate, session
    <2> QED  BY <1>4, <2>1, <2>2, <2>3, <2>4, <2>5 DEF ListStep, ListControl
  <1>5. CASE DetailStep
    <2>1. CASE DetailSubmit
      <3>1. PICK r : Sends(r) /\ RequestOK(r) /\ r.client = route
        BY <2>1, DetailSubmits
      <3> QED  BY <1>1, <3>1, RequestSent DEF Sends
    <2>2. CASE Load
      BY <1>2, <1>3, <2>2 DEF Load, ReadClient, ReadContacts, ReadInteractions, Got, Arrive, session
    <2>3. CASE Refresh \/ Refused \/ Reload
      BY <1>2, <1>3, <2>3 DEF Refresh, Refused, Reload, session
    <2>4. CASE DetailControl
      BY <1>3, <2>4 DEF DetailControl, OpenClient, CancelClient, ChooseStatus, OpenContact,
         CancelContact, OpenInteraction, CancelInteraction, Opens, Cancels, session
    <2> QED  BY <1>5, <2>1, <2>2, <2>3, <2>4 DEF DetailStep
  <1>6. CASE Visit \/ AfterDelete
    BY <1>2, <1>6 DEF Visit, AfterDelete, VisitPage
  <1>7. CASE Serve
    BY <1>7, ServeRequest
  <1>8. CASE Elsewhere \/ UNCHANGED vars
    BY <1>3, <1>8 DEF Elsewhere, session, vars, pages
  <1> QED  BY <1>4, <1>5, <1>6, <1>7, <1>8 DEF Next

(***************************************************************************)
(* ListInv, by what a step does with the list.                             *)
(***************************************************************************)
LEMMA ListKept ==
    ASSUME TablesTypeOK, Statement, ListInv,
           url' \in Query, listLoad' \in {"none", "reading", "counting"}, creating' \in BOOLEAN,
           listing' = listing \/ ListingOK(listing)',
           editingRow' = editingRow \/ RowFormOK(editingRow)',
           route' # List => listing' = NothingListed("loading") /\ listLoad' = "none" /\ RowsUnmounted'
    PROVE  ListInv'
  <1>1. ListingOK(listing)'
    <2>1. PICK l : l = listing
      OBVIOUS
    <2> QED  BY <2>1, ListingStays DEF ListInv
  <1>2. RowFormOK(editingRow)'
    <2>1. PICK f : f = editingRow
      OBVIOUS
    <2> QED  BY <2>1, RowFormStays DEF ListInv
  <1> QED  BY <1>1, <1>2 DEF ListInv

LEMMA NothingListedIsOK ==
    ASSUME NEW kind \in {"loading", "error"}
    PROVE  ListingOK(NothingListed(kind))
  BY ListAssumption DEF ListingOK, NothingListed, Listing, EveryClient, Query

\* A page that is read is made of rows that are there.
LEMMA ReadIsOK ==
    ASSUME TablesTypeOK, Filled, NEW S, \A c \in S : c \in Client /\ ClientExists(c),
           NEW total \in Nat, NEW q \in Query
    PROVE  ListingOK(Listing("view", [c \in S |-> clients[c]], total, q))
  <1>1. \A c \in S : HeldClient(c, clients[c])
    BY DEF TablesTypeOK, Filled, HeldClient, ClientExists, OlderRow
  <1> QED  BY <1>1 DEF ListingOK, Listing

LEMMA MatchingCounts ==
    ASSUME NEW q
    PROVE  IsFiniteSet(Matching(q)) /\ Cardinality(Matching(q)) \in Nat
  <1>1. Matching(q) \subseteq Client
    BY DEF Matching
  <1> QED  BY <1>1, CountAssumption, FS_Subset, FS_CardinalityType

LEMMA PageOfMatching ==
    ASSUME NEW q, NEW S \in PageOf(q)
    PROVE  \A c \in S : c \in Client /\ ClientExists(c)
  BY DEF PageOf, kSubset, Matching

LEMMA SanitisedQuery ==
    ASSUME NEW q \in Query
    PROVE  Sanitised(q) \in Query
  BY ListAssumption DEF Sanitised, PageNumber, Query

LEMMA BrowseQuery ==
    ASSUME PagesInv, Browse
    PROVE  url' \in Query
  <1>1. Shows \in Query
    BY DEF Shows, PagesInv, ListInv, ListingOK
  <1>2. EveryClient \in Query
    BY ListAssumption DEF EveryClient, Query
  <1>3. \A q \in Query : First(q) \in Query
    BY ListAssumption DEF First, Query
  <1>4. \A s \in Search \cup {None} : [Shows EXCEPT !.search = s] \in Query
    BY <1>1 DEF Query
  <1>5. \A s \in Filter \cup {None} : [Shows EXCEPT !.status = s] \in Query
    BY <1>1 DEF Query
  <1>6. Shows.page \in 0..MaxPage /\ MaxPage \in Nat
    BY <1>1, ListAssumption DEF Query
  <1>7. \A p \in 0..MaxPage : [Shows EXCEPT !.page = p] \in Query
    BY <1>1 DEF Query
  <1>8. CASE Previous
    <2>1. Shows.page >= 2
      BY <1>6, <1>8, ListAssumption DEF Previous, Offset, PageNumber
    <2>2. PICK p : p = IF Shows.page = 2 THEN 0 ELSE Shows.page - 1
      OBVIOUS
    <2>3. p \in 0..MaxPage
      BY <1>6, <2>1, <2>2
    <2>4. url' = [Shows EXCEPT !.page = p]
      BY <1>8, <2>2 DEF Previous, Navigate
    <2> QED  BY <1>7, <2>3, <2>4
  <1>9. CASE NextPage
    <2>1. PICK p : p = Shows.page + 1
      OBVIOUS
    <2>2. p \in 0..MaxPage
      BY <1>6, <1>9, <2>1 DEF NextPage
    <2>3. url' = [Shows EXCEPT !.page = p]
      BY <1>9, <2>1 DEF NextPage, Navigate
    <2> QED  BY <1>7, <2>2, <2>3
  <1>10. CASE OnSearch \/ OnFilter
    BY <1>3, <1>4, <1>5, <1>10 DEF OnSearch, OnFilter, Navigate
  <1>11. CASE Clear \/ ShowAll \/ BackToFirst
    BY <1>1, <1>2, <1>3, <1>11 DEF Clear, ShowAll, BackToFirst, Navigate
  <1> QED  BY <1>8, <1>9, <1>10, <1>11 DEF Browse

LEMMA ArrivesOK ==
    ASSUME PagesInv, NEW l, ListingOK(l), ListArrives(l), route = List
    PROVE  ListInv'
  <1>1. TablesTypeOK /\ ListInv /\ Statement /\ route' = List
    BY DEF PagesInv, TablesInv, ListArrives, Statement
  <1>2. ListingOK(l)'
    BY <1>1, ListingStays
  <1>3. listing' = l /\ ListingOK(listing)'
    BY <1>2 DEF ListArrives
  <1>4. editingRow' = editingRow \/ RowFormOK(editingRow)'
    BY DEF ListArrives, RowFormOK
  <1> QED  BY <1>1, <1>3, <1>4, ListKept DEF ListArrives, ListInv

LEMMA ListLoadStep ==
    ASSUME PagesInv, ListLoad
    PROVE  ListInv'
  <1>1. TablesTypeOK /\ Filled /\ ListInv /\ url \in Query /\ route = List
    BY DEF PagesInv, TablesInv, ListInv, ListLoad, ReadList, CountList, ListFails
  <1>2. \A q : Cardinality(Matching(q)) \in Nat
    BY MatchingCounts
  <1>3. Sanitised(url) \in Query
    BY <1>1, SanitisedQuery
  <1>4. CASE ReadList
    <2>1. PICK S \in PageOf(url) :
             IF S = {} /\ Offset(url) > 0
             THEN listLoad' = "counting" /\ UNCHANGED <<tables, session, url, listing, rowForms>>
             ELSE ListArrives(Listing("view", [c \in S |-> clients[c]],
                                      Cardinality(Matching(url)), Sanitised(url)))
      BY <1>4 DEF ReadList
    <2>2. CASE S = {} /\ Offset(url) > 0
      BY <1>1, <2>1, <2>2, ListKept DEF Statement, session, rowForms, ListInv
    <2>3. CASE ~(S = {} /\ Offset(url) > 0)
      <3>1. PICK l : l = Listing("view", [c \in S |-> clients[c]],
                                 Cardinality(Matching(url)), Sanitised(url))
        OBVIOUS
      <3>2. ListingOK(l)
        BY <1>1, <1>2, <1>3, <3>1, PageOfMatching, ReadIsOK
      <3> QED  BY <1>1, <2>1, <2>3, <3>1, <3>2, ArrivesOK
    <2> QED  BY <2>2, <2>3
  <1>5. CASE CountList
    <2>1. PICK l : l = Listing("view", [c \in {} |-> {}], Cardinality(Matching(url)), Sanitised(url))
      OBVIOUS
    <2>2. ListingOK(l)
      BY <1>2, <1>3, <2>1 DEF ListingOK, Listing
    <2> QED  BY <1>1, <1>5, <2>1, <2>2, ArrivesOK DEF CountList
  <1>6. CASE ListFails
    <2>1. ListingOK(listing)' /\ RowFormOK(editingRow)'
      BY <1>6, NothingListedIsOK DEF ListFails, RowsUnmount, RowFormOK, ListingOK, NothingListed,
         Listing
    <2> QED  BY <1>1, <1>6, <2>1, ListKept DEF ListFails, RowsUnmount, Statement
  <1> QED  BY <1>4, <1>5, <1>6 DEF ListLoad

LEMMA ListInvStep ==
    ASSUME PagesInv, [Next]_vars
    PROVE  ListInv'
  <1>1. TablesTypeOK /\ ListInv /\ Statement
    BY StepStatement DEF PagesInv, TablesInv, RequestInv, RequestOK
  <1>2. CASE UNCHANGED <<list, route>>
    BY <1>1, <1>2, ListKept DEF list, ListInv, RowsUnmounted
  <1>3. CASE ListStep
    <2>1. route' = route /\ (route # List => ListLoad)
      BY <1>3, ListSteps DEF ListStep, ListLoad, ListRefresh, ListRefused, ListReload, Browse,
         OnSearch, OnFilter, Clear, ShowAll, BackToFirst, Previous, NextPage, EmptyView,
         ListControl, ToggleCreate, OpenRow, CancelRow, OnCreate, OnSaveRow, OnDelete, ListReady,
         ListSends, ListView, OnList
    <2>2. CASE ListLoad
      BY <2>2, ListLoadStep
    <2>3. CASE ListRefresh \/ ListRefused \/ ListReload
      BY <1>1, <2>1, <2>3, ListKept DEF ListRefresh, ListRefused, ListReload, list, rowForms,
         ListInv, OnList
    <2>4. CASE Browse
      <3>1. url' \in Query /\ listLoad' = "reading" /\ UNCHANGED <<listing, rowForms>>
        BY <2>4, BrowseQuery DEF Browse, OnSearch, OnFilter, Clear, ShowAll, BackToFirst,
           Previous, NextPage, Navigate
      <3>2. route = List
        BY <2>4 DEF Browse, OnSearch, OnFilter, Clear, ShowAll, BackToFirst,
           Previous, NextPage, EmptyView, ListView, OnList
      <3> QED  BY <1>1, <2>1, <3>1, <3>2, ListKept DEF rowForms, ListInv
    <2>5. CASE ToggleCreate \/ CancelRow
      BY <1>1, <2>1, <2>5, ListKept DEF ToggleCreate, CancelRow, ListInv, ListReady, ListView,
         OnList, RowFormOK
    <2>6. CASE OpenRow
      <3>1. PICK c \in DOMAIN listing.rows :
               editingRow' = [open |-> TRUE, id |-> c, version |-> listing.rows[c].version,
                              seen |-> listing.rows[c]]
        BY <2>6 DEF OpenRow
      <3>2. PICK f, row : f = editingRow' /\ row = listing.rows[c]
        OBVIOUS
      <3>3. HeldClient(c, row) /\ c \in Client /\ row \in ClientRow /\ row.version \in Nat
        BY <1>1, <3>2 DEF ListInv, ListingOK, HeldClient, ClientRow
      <3>4. f = [open |-> TRUE, id |-> c, version |-> row.version, seen |-> row]
        BY <3>1, <3>2
      <3>5. RowFormOK(f)
        BY <3>3, <3>4 DEF RowFormOK
      <3>6. RowFormOK(f)'
        BY <1>1, <3>5, RowFormStays
      <3>7. RowFormOK(editingRow)'
        BY <3>2, <3>6
      <3> QED  BY <1>1, <2>1, <2>6, <3>7, ListKept DEF OpenRow, ListInv, ListReady, ListView, OnList
    <2>7. CASE OnCreate \/ OnSaveRow \/ OnDelete
      BY <1>2, <2>1, <2>7 DEF OnCreate, OnSaveRow, OnDelete, ListSends
    <2> QED  BY <1>3, <2>2, <2>3, <2>4, <2>5, <2>6, <2>7 DEF ListStep, ListControl
  <1>4. CASE DetailStep
    BY <1>2, <1>4, DetailSteps
  <1>5. CASE Visit \/ AfterDelete
    <2>1. PICK p \in Client \cup {List}, q \in Query : VisitPage(p, q)
      BY <1>5, ListAssumption DEF Visit, AfterDelete, EveryClient, Query
    <2>2. ListingOK(listing)' /\ RowFormOK(editingRow)'
      BY <2>1, NothingListedIsOK DEF VisitPage, RowsUnmount, RowFormOK, ListingOK, NothingListed,
         Listing
    <2> QED  BY <1>1, <2>1, <2>2, ListKept DEF VisitPage, RowsUnmount, RowsUnmounted
  <1>6. CASE Serve /\ UNCHANGED <<list, detail>>
    <2>1. route' = route
      BY <1>6 DEF Serve, CreateClient, UpdateClient, UpdateClientFromRow, ChangeClientStatus,
         DeleteClient, AddContact, UpdateContact, DeleteContact, AddInteraction,
         UpdateInteraction, DeleteInteraction, CallFails, Guarded, Applied, NotApplied, Answered
    <2> QED  BY <1>2, <1>6, <2>1
  <1>7. CASE (Elsewhere /\ UNCHANGED <<list, detail>>) \/ UNCHANGED vars
    BY <1>2, <1>7 DEF Elsewhere, session, vars, pages
  <1> QED  BY <1>3, <1>4, <1>5, <1>6, <1>7 DEF Next

(***************************************************************************)
(* DetailInv: each of its parts stays as it is while its variables do.     *)
(***************************************************************************)
LEMMA OpenForm ==
    \A f : f.open => f # Closed
  BY DEF Closed

LEMMA ShownStays ==
    ASSUME TablesTypeOK, Statement, ShownInv, UNCHANGED <<route, shown>>
    PROVE  ShownInv'
  <1>1. PICK c, p, row : c = route /\ p = shown /\ row = shown.row
    OBVIOUS
  <1>2. PageOK(c, p)' /\ (p.kind = "view" => HeldClient(c, row)')
    BY <1>1, PageStays, HeldClientStays DEF ShownInv
  <1> QED  BY <1>1, <1>2 DEF ShownInv

LEMMA ClientFormStays ==
    ASSUME TablesTypeOK, Statement, ClientFormInv, UNCHANGED <<route, shown, editing>>
    PROVE  ClientFormInv'
  <1>1. PICK c, f : c = route /\ f = editing
    OBVIOUS
  <1>2. HeldClient(c, f.seen) => HeldClient(c, f.seen)'
    BY HeldClientStays
  <1> QED  BY <1>1, <1>2 DEF ClientFormInv

LEMMA ContactFormStays ==
    ASSUME TablesTypeOK, Statement, ContactFormInv, UNCHANGED <<route, editingContact>>
    PROVE  ContactFormInv'
  <1>1. PICK c, f : c = route /\ f = editingContact
    OBVIOUS
  <1>2. HeldContact(c, f.id, f.seen) => HeldContact(c, f.id, f.seen)'
    BY HeldContactStays
  <1> QED  BY <1>1, <1>2 DEF ContactFormInv

LEMMA InteractionFormStays ==
    ASSUME TablesTypeOK, Statement, InteractionFormInv, UNCHANGED <<route, shown, editingInteraction>>
    PROVE  InteractionFormInv'
  <1>1. PICK c, f, p : c = route /\ f = editingInteraction /\ p = shown
    OBVIOUS
  <1>2. CASE f = Closed
    BY <1>1, <1>2 DEF InteractionFormInv
  <1>3. CASE f # Closed
    <2>1. /\ f \in [open: {TRUE}, id: Interaction, version: Nat, seen: InteractionRow,
                    link: Contact \cup {None}, offered: BOOLEAN]
          /\ HeldInteraction(f.id, f.seen) /\ f.version = f.seen.version
          /\ f.link \in DOMAIN p.contacts \cup {None}
      BY <1>1, <1>3 DEF InteractionFormInv
    <2>2. HeldInteraction(f.id, f.seen)'
      BY <2>1, HeldInteractionStays
    <2>3. ASSUME f.offered
          PROVE  /\ f.seen.contact = None \/ OwnContact(c, f.seen.contact)'
                 /\ f.id \in DOMAIN p.interactions => LinkKept(f.id, f.version, f.seen, f.link)'
      <3>1. /\ f.seen.contact = None \/ OwnContact(c, f.seen.contact)
            /\ f.id \in DOMAIN p.interactions => LinkKept(f.id, f.version, f.seen, f.link)
        BY <1>1, <1>3, <2>3 DEF InteractionFormInv, OfferedOK
      <3> QED  BY <2>1, <3>1, OwnContactStays, LinkKeptStays
    <2>4. f.offered => OfferedOK(f)'
      BY <1>1, <2>3 DEF OfferedOK
    <2> QED  BY <1>1, <2>1, <2>2, <2>4 DEF InteractionFormInv
  <1> QED  BY <1>2, <1>3

LEMMA ReadsOKStays ==
    ASSUME TablesTypeOK, Statement, ShownInv, InteractionFormInv, NEW todo, NEW page,
           ReadsOK(todo, page), UNCHANGED <<route, shown, editingInteraction>>,
           result' = "refreshing" => result = "refreshing" /\ request' = request
    PROVE  ReadsOK(todo, page)'
  <1>1. PICK c, p, f : c = route /\ p = shown /\ f = editingInteraction
    OBVIOUS
  <1>2. todo \subseteq Parts /\ page.kind = "view" /\ PageOK(c, page)'
    BY <1>1, PageStays DEF ReadsOK
  <1>3. ASSUME "row" \notin todo
        PROVE  /\ HeldClient(c, page.row)'
               /\ p.kind = "view" => OlderRow(p.row, page.row)
               /\ result' = "refreshing" /\ request'.op \in {"updateClient", "changeClientStatus"}
                     => page.row.version > request'.version
    BY <1>1, <1>3, HeldClientStays DEF ReadsOK
  <1>4. ASSUME "contacts" \notin todo
        PROVE  /\ \A k \in DOMAIN p.contacts : Covers(page, k)'
               /\ f.open /\ f.offered /\ f.seen.contact # None => Covers(page, f.seen.contact)'
    <2>1. DOMAIN p.contacts \subseteq Contact
      BY <1>1 DEF ShownInv, PageOK, HeldContact, OwnContact
    <2>2. f.open /\ f.offered /\ f.seen.contact # None => f.seen.contact \in Contact
      BY <1>1, OpenForm DEF InteractionFormInv, InteractionRow
    <2>3. /\ \A k \in DOMAIN p.contacts : Covers(page, k)
          /\ f.open /\ f.offered /\ f.seen.contact # None => Covers(page, f.seen.contact)
      BY <1>1, <1>4 DEF ReadsOK
    <2> QED  BY <2>1, <2>2, <2>3, CoversStays
  <1>5. \A i \in DOMAIN page.interactions :
           /\ i \in DOMAIN p.interactions
                 => OlderLink(p.interactions[i], page.interactions[i])'
           /\ f.open /\ f.id = i => OlderLink(f.seen, page.interactions[i])'
    BY <1>1, OlderLinkStays DEF ReadsOK
  <1> QED  BY <1>1, <1>2, <1>3, <1>4, <1>5 DEF ReadsOK

LEMMA ReadsStay ==
    ASSUME TablesTypeOK, Statement, DetailInv, UNCHANGED <<route, reads, shown, editingInteraction>>,
           result' = "refreshing" => result = "refreshing" /\ request' = request
    PROVE  ReadsInv'
  <1>1. PICK page, todo : page = reads.page /\ todo = reads.todo
    OBVIOUS
  <1>2. ReadsOK(todo, page) => ReadsOK(todo, page)'
    BY ReadsOKStays DEF DetailInv
  <1> QED  BY <1>1, <1>2 DEF DetailInv, ReadsInv

LEMMA DetailStays ==
    ASSUME PagesInv, Statement, UNCHANGED <<route, detail>>,
           result' = "refreshing" => result = "refreshing" /\ request' = request
    PROVE  DetailInv'
  <1>1. TablesTypeOK /\ DetailInv /\ UNCHANGED <<shown, reads, editing, editingContact,
                                                 editingInteraction, statusForm>>
    BY DEF PagesInv, TablesInv, detail
  <1>2. ShownInv' /\ ClientFormInv' /\ ContactFormInv' /\ InteractionFormInv'
    BY <1>1, ShownStays, ClientFormStays, ContactFormStays, InteractionFormStays DEF DetailInv
  <1>3. StatusFormInv'
    BY <1>1 DEF DetailInv, StatusFormInv
  <1>4. ReadsInv'
    BY <1>1, ReadsStay
  <1> QED  BY <1>1, <1>2, <1>3, <1>4 DEF DetailInv, Unmounted

LEMMA BlankIsOK ==
    ASSUME NEW c, NEW kind \in {"loading", "error", "view"}
    PROVE  PageOK(c, Blank(kind))
  BY EmptyRowTypes DEF PageOK, Blank, Shown, NoRows, Life

LEMMA ClosedForms ==
    ASSUME Unmount, shown'.kind # "view"
    PROVE  ClientFormInv' /\ ContactFormInv' /\ InteractionFormInv' /\ StatusFormInv'
  <1>1. ClientFormInv' /\ ContactFormInv' /\ InteractionFormInv'
    BY DEF Unmount, ClientFormInv, ContactFormInv, InteractionFormInv
  <1>2. StatusFormInv'
    BY EmptyRowTypes, StatusAssumption
       DEF Unmount, StatusFormInv, NoStatusForm, StatusForm, Life
  <1> QED  BY <1>1, <1>2

LEMMA StartReadsOK ==
    ASSUME reads' = StartReads
    PROVE  ReadsInv'
  <1>1. PICK c : c = route'
    OBVIOUS
  <1>2. PICK page : page = Blank("view")
    OBVIOUS
  <1>3. PageOK(c, page)
    BY <1>2, BlankIsOK
  <1>4. PageOK(c, page)'
    BY <1>2, BlankIsOK DEF PageOK, Blank, Shown, NoRows
  <1>5. page.kind = "view" /\ page.interactions = [x \in {} |-> {}]
    BY <1>2 DEF Blank, Shown, NoRows
  <1>6. reads' = [on |-> TRUE, todo |-> Parts, page |-> page]
    BY <1>2 DEF StartReads
  <1> QED  BY <1>1, <1>4, <1>5, <1>6 DEF ReadsInv, ReadsOK, Parts

\* A page that has just been navigated to.
LEMMA NewPage ==
    ASSUME NEW p, NEW q, VisitPage(p, q)
    PROVE  DetailInv'
  <1>1. shown' = Blank("loading") /\ shown'.kind = "loading" /\ Unmount
    BY DEF VisitPage, Blank, Shown
  <1>2. ShownInv'
    BY <1>1, BlankIsOK DEF ShownInv, PageOK, Blank, Shown, NoRows
  <1>3. ReadsInv'
    BY StartReadsOK DEF VisitPage, ReadsInv
  <1>4. route' = List => reads' = NoReads /\ Unmounted'
    BY DEF VisitPage, Unmount, Unmounted
  <1> QED  BY <1>1, <1>2, <1>3, <1>4, ClosedForms DEF DetailInv

\* Started, refreshed or reloaded.
LEMMA RestartedReads ==
    ASSUME PagesInv, UNCHANGED <<tables, route, shown, forms>>, reads' = StartReads, route # List
    PROVE  DetailInv'
  <1>1. TablesTypeOK /\ Statement /\ DetailInv
    BY DEF PagesInv, TablesInv, Statement
  <1>2. UNCHANGED <<shown, editing, editingContact, editingInteraction, statusForm>>
    BY DEF forms
  <1>3. ShownInv' /\ ClientFormInv' /\ ContactFormInv' /\ InteractionFormInv'
    BY <1>1, <1>2, ShownStays, ClientFormStays, ContactFormStays, InteractionFormStays DEF DetailInv
  <1>4. StatusFormInv'
    BY <1>1, <1>2 DEF DetailInv, StatusFormInv
  <1> QED  BY <1>3, <1>4, StartReadsOK DEF DetailInv


(***************************************************************************)
(* The reads of a load: each finds what is on screen, or something later.  *)
(***************************************************************************)
LEMMA GotStep ==
    ASSUME PagesInv, NEW part, NEW page, ReadsOK(reads.todo \ {part}, page), Got(part, page),
           reads # NoReads
    PROVE  DetailInv'
  <1>1. /\ TablesTypeOK /\ Statement /\ DetailInv /\ route # List
        /\ UNCHANGED <<route, shown, editing, editingContact, editingInteraction, statusForm,
                       request, result>>
    BY DEF PagesInv, TablesInv, DetailInv, Got, Statement, session, forms
  <1>2. PICK todo : todo = reads.todo \ {part}
    OBVIOUS
  <1>3. ReadsOK(todo, page)'
    BY <1>1, <1>2, ReadsOKStays DEF DetailInv
  <1>4. reads' = [on |-> TRUE, todo |-> todo, page |-> page]
    BY <1>2 DEF Got
  <1>5. ReadsInv'
    BY <1>3, <1>4 DEF ReadsInv
  <1>6. ShownInv' /\ ClientFormInv' /\ ContactFormInv' /\ InteractionFormInv'
    BY <1>1, ShownStays, ClientFormStays, ContactFormStays, InteractionFormStays DEF DetailInv
  <1>7. StatusFormInv'
    BY <1>1 DEF DetailInv, StatusFormInv
  <1> QED  BY <1>1, <1>5, <1>6, <1>7 DEF DetailInv

LEMMA ReadingIsOn ==
    ASSUME PagesInv, NEW part, Reading(part)
    PROVE  /\ reads # NoReads /\ route \in Client /\ route # List
           /\ ReadsOK(reads.todo, reads.page)
           /\ reads.page = Shown("view", reads.page.row, reads.page.contacts, reads.page.interactions)
  <1>1. reads # NoReads
    BY DEF Reading, NoReads
  <1>2. route \in Client /\ route # List /\ ReadsOK(reads.todo, reads.page)
    BY <1>1 DEF PagesInv, DetailInv, ReadsInv
  <1> QED  BY <1>1, <1>2 DEF ReadsOK, PageOK, Shown

\* The row: not older than the row on screen, and later than the tab's edit.
LEMMA RowIsRead ==
    ASSUME PagesInv, Reading("row"), ClientExists(route),
           Got("row", [reads.page EXCEPT !.row = clients[route]])
    PROVE  DetailInv'
  <1>1. PICK row, page, new : /\ row = clients[route] /\ page = reads.page
                              /\ new = [page EXCEPT !.row = row]
    OBVIOUS
  <1>2. /\ reads # NoReads /\ route \in Client /\ route # List /\ ReadsOK(reads.todo, page)
        /\ page = Shown("view", page.row, page.contacts, page.interactions)
    BY <1>1, ReadingIsOn
  <1>3. HeldClient(route, row)
    BY <1>1, <1>2 DEF PagesInv, TablesInv, TablesTypeOK, Filled, HeldClient, ClientExists, OlderRow
  <1>4. row \in ClientRow
    BY <1>3 DEF HeldClient
  <1>5. new = Shown("view", row, page.contacts, page.interactions)
    BY <1>1, <1>2 DEF Shown
  <1>6. /\ new = Shown(new.kind, new.row, new.contacts, new.interactions)
        /\ new.kind = "view" /\ new.row = row
        /\ new.contacts = page.contacts /\ new.interactions = page.interactions
    BY <1>5 DEF Shown
  <1>7. PageOK(route, new)
    BY <1>2, <1>4, <1>6 DEF ReadsOK, PageOK
  <1>8. shown.kind = "view" => OlderRow(shown.row, row)
    BY <1>1 DEF PagesInv, DetailInv, ShownInv, HeldClient
  <1>9. result = "refreshing" /\ request.op \in {"updateClient", "changeClientStatus"}
           => row.version > request.version
    BY <1>1, <1>2 DEF PagesInv, RequestInv, Outrun, Passed, ClientEdits, ClientExists
  <1>10. ReadsOK(reads.todo \ {"row"}, new)
    BY <1>2, <1>3, <1>6, <1>7, <1>8, <1>9 DEF ReadsOK, Covers
  <1> QED  BY <1>1, <1>2, <1>10, GotStep

\* The contacts: one that was its client's and is missing is gone.
LEMMA ContactsAreRead ==
    ASSUME PagesInv, Reading("contacts"),
           Got("contacts", [reads.page EXCEPT !.contacts = ContactsOf(route)])
    PROVE  DetailInv'
  <1>1. PICK page, new : page = reads.page /\ new = [page EXCEPT !.contacts = ContactsOf(route)]
    OBVIOUS
  <1>2. /\ reads # NoReads /\ route \in Client /\ ReadsOK(reads.todo, page)
        /\ page = Shown("view", page.row, page.contacts, page.interactions)
    BY <1>1, ReadingIsOn
  <1>3. new = Shown("view", page.row, ContactsOf(route), page.interactions)
    BY <1>1, <1>2 DEF Shown
  <1>4. /\ new = Shown(new.kind, new.row, new.contacts, new.interactions)
        /\ new.kind = "view" /\ new.row = page.row
        /\ new.contacts = ContactsOf(route) /\ new.interactions = page.interactions
    BY <1>3 DEF Shown
  <1>5. \A k \in DOMAIN new.contacts : HeldContact(route, k, new.contacts[k])
    BY <1>4 DEF ContactsOf, ContactExists, HeldContact, OwnContact, OlderRow, PagesInv, TablesInv,
       TablesTypeOK
  <1>6. PageOK(route, new)
    BY <1>2, <1>4, <1>5 DEF ReadsOK, PageOK
  <1>7. \A k : OwnContact(route, k) => Covers(new, k)
    BY <1>4 DEF OwnContact, Covers, ContactsOf, ContactExists, PagesInv, TablesInv, TablesTypeOK,
       ContactRow, Life
  <1>8. \A k \in DOMAIN shown.contacts : OwnContact(route, k)
    BY DEF PagesInv, DetailInv, ShownInv, PageOK, HeldContact
  <1>9. LET f == editingInteraction IN
        f.open /\ f.offered /\ f.seen.contact # None => OwnContact(route, f.seen.contact)
    BY OpenForm DEF PagesInv, DetailInv, InteractionFormInv, OfferedOK
  <1>10. ReadsOK(reads.todo \ {"contacts"}, new)
    BY <1>2, <1>4, <1>6, <1>7, <1>8, <1>9 DEF ReadsOK
  <1> QED  BY <1>1, <1>2, <1>10, GotStep

LEMMA InteractionsAreRead ==
    ASSUME PagesInv, Reading("interactions"), NEW is \in {InteractionsOf(route), NoRows},
           Got("interactions", [reads.page EXCEPT !.interactions = is])
    PROVE  DetailInv'
  <1>1. PICK page, new : page = reads.page /\ new = [page EXCEPT !.interactions = is]
    OBVIOUS
  <1>2. /\ reads # NoReads /\ route \in Client /\ ReadsOK(reads.todo, page)
        /\ page = Shown("view", page.row, page.contacts, page.interactions)
    BY <1>1, ReadingIsOn
  <1>3. new = Shown("view", page.row, page.contacts, is)
    BY <1>1, <1>2 DEF Shown
  <1>4. /\ new = Shown(new.kind, new.row, new.contacts, new.interactions)
        /\ new.kind = "view" /\ new.row = page.row
        /\ new.contacts = page.contacts /\ new.interactions = is
    BY <1>3 DEF Shown
  <1>5. \A i \in DOMAIN is :
           i \in Interaction /\ interactions[i].life = "live" /\ is[i] = interactions[i]
    BY DEF InteractionsOf, InteractionExists, NoRows
  <1>6. \A i \in DOMAIN is : HeldInteraction(i, is[i])
    BY <1>5 DEF HeldInteraction, OlderLink, OlderRow, PagesInv, TablesInv, TablesTypeOK
  <1>7. PageOK(route, new)
    BY <1>2, <1>4, <1>6 DEF ReadsOK, PageOK
  <1>8. \A i \in DOMAIN is : \A row : HeldInteraction(i, row) => OlderLink(row, is[i])
    BY <1>5 DEF HeldInteraction
  <1>9. /\ \A i \in DOMAIN shown.interactions : HeldInteraction(i, shown.interactions[i])
        /\ editingInteraction.open => HeldInteraction(editingInteraction.id, editingInteraction.seen)
    BY OpenForm DEF PagesInv, DetailInv, ShownInv, PageOK, InteractionFormInv
  <1>10. ReadsOK(reads.todo \ {"interactions"}, new)
    BY <1>2, <1>4, <1>7, <1>8, <1>9 DEF ReadsOK, Covers
  <1> QED  BY <1>1, <1>2, <1>10, GotStep

LEMMA ReadsStep ==
    ASSUME PagesInv, ReadClient \/ ReadContacts \/ ReadInteractions
    PROVE  DetailInv'
  <1>1. CASE ReadClient /\ reads' # NoReads
    BY <1>1, RowIsRead DEF ReadClient
  <1>2. CASE ReadClient /\ reads' = NoReads
    <2>1. Reading("row") /\ route # List /\ route' = route
      BY <1>2, ReadingIsOn DEF ReadClient, Got, session
    <2>2. CASE ClientExists(route) /\ Got("row", [reads.page EXCEPT !.row = clients[route]])
      BY <2>1, <2>2, RowIsRead
    <2>3. CASE shown' = Blank("error") /\ Unmount
      <3>1. shown'.kind = "error"
        BY <2>3 DEF Blank, Shown
      <3>2. ShownInv'
        BY <2>3, <3>1, BlankIsOK DEF ShownInv, PageOK, Blank, Shown, NoRows
      <3> QED  BY <1>2, <2>1, <2>3, <3>1, <3>2, ClosedForms DEF DetailInv, ReadsInv
    <2> QED  BY <1>2, <2>2, <2>3 DEF ReadClient
  <1>3. CASE ReadContacts
    BY <1>3, ContactsAreRead DEF ReadContacts
  <1>4. CASE ReadInteractions
    <2>1. PICK is \in {InteractionsOf(route), NoRows} :
             Got("interactions", [reads.page EXCEPT !.interactions = is])
      BY <1>4 DEF ReadInteractions
    <2> QED  BY <1>4, <2>1, InteractionsAreRead DEF ReadInteractions
  <1> QED  BY <1>1, <1>2, <1>3, <1>4

(***************************************************************************)
(* The page arrives beneath the open forms.                                *)
(***************************************************************************)
LEMMA OlderTransitive ==
    ASSUME NEW a, NEW b, NEW c, a.version \in Nat, b.version \in Nat, c.version \in Nat,
           OlderRow(a, b), OlderRow(b, c)
    PROVE  OlderRow(a, c)
  BY DEF OlderRow

LEMMA ArrivingPage ==
    ASSUME PagesInv, Arrive
    PROVE  /\ ReadsOK({}, reads.page) /\ reads.page.kind = "view" /\ reads' = NoReads
           /\ shown' = reads.page /\ route # List /\ UNCHANGED <<tables, route>>
           /\ HeldClient(route, reads.page.row)
  <1>1. reads # NoReads /\ reads.todo = {}
    BY DEF Arrive, NoReads
  <1>2. ReadsOK({}, reads.page) /\ route # List
    BY <1>1 DEF PagesInv, DetailInv, ReadsInv
  <1> QED  BY <1>2 DEF ReadsOK, Arrive

\* A link kept so far is kept by the select when the props change.
LEMMA LinkNowKept ==
    ASSUME PagesInv, Arrive, editingInteraction # Closed, editingInteraction.offered,
           editingInteraction.id \in DOMAIN reads.page.interactions
    PROVE  LET f == editingInteraction IN
           LinkKept(f.id, f.version, f.seen, LinkNow(reads.page))
  <1>1. PICK f, page, now, old : /\ f = editingInteraction /\ page = reads.page
                                 /\ now = page.interactions[f.id] /\ old = shown
    OBVIOUS
  <1>2. /\ f \in [open: {TRUE}, id: Interaction, version: Nat, seen: InteractionRow,
                  link: Contact \cup {None}, offered: BOOLEAN]
        /\ f.version = f.seen.version /\ f.open
        /\ f.seen.contact = None \/ OwnContact(route, f.seen.contact)
        /\ f.id \in DOMAIN old.interactions => LinkKept(f.id, f.version, f.seen, f.link)
    BY <1>1 DEF PagesInv, DetailInv, InteractionFormInv, OfferedOK
  <1>3. f.seen.contact \in Contact \cup {None} /\ f.seen.version \in Nat
    BY <1>2 DEF InteractionRow
  <1>4. ReadsOK({}, page)
    BY <1>1, ArrivingPage
  <1>5. f.seen.contact # None => Covers(page, f.seen.contact)
    BY <1>1, <1>2, <1>4 DEF ReadsOK
  <1>6. OlderLink(f.seen, now) /\ HeldInteraction(f.id, now)
    BY <1>1, <1>2, <1>4 DEF ReadsOK, PageOK
  <1>7. None \notin DOMAIN page.contacts
    BY <1>4, NoneAssumption DEF ReadsOK, PageOK, HeldContact, OwnContact
  <1> DEFINE Kept(link) == LinkKept(f.id, f.version, f.seen, link)
             FromOptions(link) == IF link \in DOMAIN page.contacts THEN link ELSE None
  <1>8. ASSUME NEW link, Kept(link)
        PROVE  Kept(FromOptions(link))
    BY <1>3, <1>5, <1>7, <1>8 DEF LinkKept, Covers
  <1>9. Kept(now.contact)
    <2>1. CASE f.seen.version < now.version
      <3>1. /\ interactions[f.id] \in InteractionRow /\ now \in InteractionRow
            /\ interactions[f.id].life # "unborn"
            /\ interactions[f.id].life = "live" => OlderLink(now, interactions[f.id])
        BY <1>2, <1>6 DEF HeldInteraction, PagesInv, TablesInv, TablesTypeOK
      <3>2. interactions[f.id].life = "live" => interactions[f.id].version >= now.version
        BY <3>1 DEF OlderLink, OlderRow, InteractionRow
      <3>3. Passed(interactions[f.id], f.version)
        BY <1>2, <1>3, <2>1, <3>1, <3>2 DEF Passed, InteractionRow, Life
      <3> QED  BY <3>3 DEF LinkKept
    <2>2. CASE now = f.seen
      BY <2>2 DEF LinkKept
    <2>3. CASE /\ now = [f.seen EXCEPT !.contact = None]
               /\ f.seen.contact \in Contact /\ contacts[f.seen.contact].life = "gone"
      BY <1>2, <2>3 DEF LinkKept, InteractionRow
    <2> QED  BY <1>6, <2>1, <2>2, <2>3 DEF OlderLink, OlderRow
  <1>10. \/ LinkNow(page) = FromOptions(now.contact)
         \/ LinkNow(page) = FromOptions(f.link) /\ f.id \in DOMAIN old.interactions
    BY <1>1 DEF LinkNow, LinkDefault
  <1> QED  BY <1>1, <1>2, <1>8, <1>9, <1>10

LEMMA ArrivesUnderClientForm ==
    ASSUME PagesInv, Arrive
    PROVE  ClientFormInv'
  <1>1. CASE editing' = Closed
    BY <1>1 DEF ClientFormInv
  <1>2. CASE editing' # Closed
    <2>1. PICK c, f, old, page : /\ c = route /\ f = editing /\ old = shown.row
                                 /\ page = reads.page
      OBVIOUS
    <2>2. editing' = f /\ f # Closed
      BY <1>2, <2>1 DEF Arrive
    <2>3. /\ f \in [open: {TRUE}, id: Client, version: Nat, seen: ClientRow]
          /\ shown.kind = "view" /\ f.id = c
          /\ HeldClient(c, f.seen) /\ f.version = f.seen.version
          /\ OlderRow(f.seen, old)
      BY <2>1, <2>2 DEF PagesInv, DetailInv, ClientFormInv
    <2>4. /\ OlderRow(old, page.row) /\ HeldClient(c, page.row) /\ HeldClient(c, old)
          /\ page.kind = "view" /\ shown' = page /\ UNCHANGED <<tables, route>>
      BY <2>1, <2>3, ArrivingPage DEF ReadsOK, PagesInv, DetailInv, ShownInv
    <2>5. f.seen.version \in Nat /\ old.version \in Nat /\ page.row.version \in Nat
      BY <2>3, <2>4 DEF HeldClient, ClientRow
    <2>6. OlderRow(f.seen, page.row)
      BY <2>3, <2>4, <2>5, OlderTransitive
    <2>7. HeldClient(c, f.seen)'
      BY <2>3, <2>4, HeldClientStays DEF Statement, PagesInv, TablesInv
    <2> QED  BY <2>1, <2>2, <2>3, <2>4, <2>6, <2>7 DEF ClientFormInv
  <1> QED  BY <1>1, <1>2

LEMMA ArrivesUnderInteractionForm ==
    ASSUME PagesInv, Arrive
    PROVE  InteractionFormInv'
  <1>1. CASE editingInteraction' = Closed
    BY <1>1 DEF InteractionFormInv
  <1>2. CASE editingInteraction' # Closed
    <2>1. PICK c, f, page, link : /\ c = route /\ f = editingInteraction /\ page = reads.page
                                  /\ link = LinkNow(page)
      OBVIOUS
    <2>2. PICK g : g = [f EXCEPT !.link = link]
      OBVIOUS
    <2>3. editingInteraction' = g /\ f # Closed
      BY <1>2, <2>1, <2>2 DEF Arrive, Closed
    <2>4. /\ TablesTypeOK /\ Statement /\ shown' = page /\ UNCHANGED <<tables, route>>
          /\ ReadsOK({}, page)
      BY <2>1, ArrivingPage DEF PagesInv, TablesInv, Statement
    <2>5. /\ f \in [open: {TRUE}, id: Interaction, version: Nat, seen: InteractionRow,
                    link: Contact \cup {None}, offered: BOOLEAN]
          /\ HeldInteraction(f.id, f.seen) /\ f.version = f.seen.version
          /\ f.offered => f.seen.contact = None \/ OwnContact(c, f.seen.contact)
      BY <2>1, <2>3 DEF PagesInv, DetailInv, InteractionFormInv, OfferedOK
    <2>6. link \in DOMAIN page.contacts \cup {None}
      BY <2>1 DEF LinkNow, LinkDefault
    <2>7. DOMAIN page.contacts \subseteq Contact
      BY <2>4 DEF ReadsOK, PageOK, HeldContact, OwnContact
    <2>8. /\ g \in [open: {TRUE}, id: Interaction, version: Nat, seen: InteractionRow,
                    link: Contact \cup {None}, offered: BOOLEAN]
          /\ g.id = f.id /\ g.seen = f.seen /\ g.version = f.version /\ g.link = link
          /\ g.offered = f.offered
      BY <2>2, <2>5, <2>6, <2>7
    <2>9. HeldInteraction(g.id, g.seen)'
      BY <2>4, <2>5, <2>8, HeldInteractionStays
    <2>10. ASSUME g.offered
           PROVE  /\ g.seen.contact = None \/ OwnContact(c, g.seen.contact)'
                  /\ g.id \in DOMAIN page.interactions => LinkKept(g.id, g.version, g.seen, g.link)'
      <3>1. g.seen.contact = None \/ OwnContact(c, g.seen.contact)'
        BY <2>4, <2>5, <2>8, <2>10, OwnContactStays
      <3>2. g.id \in DOMAIN page.interactions => LinkKept(g.id, g.version, g.seen, g.link)
        BY <2>1, <2>3, <2>8, <2>10, LinkNowKept
      <3> QED  BY <2>4, <2>8, <3>1, <3>2, LinkKeptStays
    <2>11. g.offered => OfferedOK(g)'
      BY <2>1, <2>4, <2>10 DEF OfferedOK
    <2> QED  BY <2>3, <2>4, <2>5, <2>6, <2>8, <2>9, <2>11 DEF InteractionFormInv
  <1> QED  BY <1>1, <1>2

LEMMA ArriveStep ==
    ASSUME PagesInv, Arrive
    PROVE  DetailInv'
  <1>1. PICK c, page : c = route /\ page = reads.page
    OBVIOUS
  <1>2. /\ PageOK(c, page) /\ HeldClient(c, page.row) /\ page.kind = "view"
        /\ shown' = page /\ UNCHANGED <<tables, route>> /\ route # List /\ reads' = NoReads
    BY <1>1, ArrivingPage DEF ReadsOK
  <1>3. TablesTypeOK /\ Statement /\ DetailInv
    BY <1>2 DEF PagesInv, TablesInv, Statement
  <1>4. ShownInv'
    BY <1>1, <1>2, <1>3, PageStays, HeldClientStays DEF ShownInv
  <1>5. ContactFormInv'
    BY <1>2, <1>3, ContactFormStays DEF Arrive, ContactFormInv, DetailInv
  <1>6. StatusFormInv'
    <2>1. page.row \in ClientRow /\ page.row.status \in Status
      BY <1>2 DEF HeldClient, ClientRow
    <2>2. statusForm' = StatusFormNow(page) /\ shown' = page
      BY <1>1, <1>2 DEF Arrive
    <2>3. StatusFormInv
      BY <1>3 DEF DetailInv
    <2> QED  BY <1>2, <2>1, <2>2, <2>3 DEF StatusFormInv, StatusFormNow, StatusForm
  <1>7. ClientFormInv' /\ InteractionFormInv'
    BY ArrivesUnderClientForm, ArrivesUnderInteractionForm
  <1> QED  BY <1>2, <1>4, <1>5, <1>6, <1>7 DEF DetailInv, ReadsInv

(***************************************************************************)
(* The controls: a form opens on what is shown.                            *)
(***************************************************************************)
LEMMA ControlFrame ==
    ASSUME PagesInv, DetailControl
    PROVE  /\ UNCHANGED <<tables, route, request, result, shown, reads>>
           /\ route # List /\ shown.kind = "view"
  BY DEF DetailControl, OpenClient, CancelClient, ChooseStatus, OpenContact, CancelContact,
     OpenInteraction, CancelInteraction, Opens, Cancels, Ready, View, OnDetail, session

\* A load goes on beneath an interaction form that opens or closes.
LEMMA ReadsBeneath ==
    ASSUME PagesInv, UNCHANGED <<tables, route, request, result, shown, reads>>,
           NEW g, editingInteraction' = g,
           g.open => /\ g.id \in DOMAIN shown.interactions /\ g.seen = shown.interactions[g.id]
                     /\ g.offered /\ g.seen.contact # None => g.seen.contact \in DOMAIN shown.contacts
    PROVE  ReadsInv'
  <1>1. PICK c, p, todo, page : c = route /\ p = shown /\ todo = reads.todo /\ page = reads.page
    OBVIOUS
  <1>2. TablesTypeOK /\ Statement /\ DetailInv
    BY DEF PagesInv, TablesInv, Statement
  <1>3. CASE reads = NoReads
    BY <1>3 DEF ReadsInv
  <1>4. CASE reads # NoReads
    <2>1. ReadsOK(todo, page) /\ reads = [on |-> TRUE, todo |-> todo, page |-> page]
      BY <1>1, <1>2, <1>4 DEF DetailInv, ReadsInv
    <2>2. /\ todo \subseteq Parts /\ page.kind = "view" /\ PageOK(c, page)'
          /\ "row" \notin todo => HeldClient(c, page.row)'
      BY <1>1, <1>2, <2>1, PageStays, HeldClientStays DEF ReadsOK
    <2>3. "row" \notin todo =>
             /\ p.kind = "view" => OlderRow(p.row, page.row)
             /\ result = "refreshing" /\ request.op \in {"updateClient", "changeClientStatus"}
                   => page.row.version > request.version
      BY <1>1, <2>1 DEF ReadsOK
    <2>4. DOMAIN p.contacts \subseteq Contact
      BY <1>1, <1>2 DEF DetailInv, ShownInv, PageOK, HeldContact, OwnContact
    <2>5. "contacts" \notin todo => \A k \in DOMAIN p.contacts : Covers(page, k)'
      BY <1>1, <1>2, <2>1, <2>4, CoversStays DEF ReadsOK
    <2>6. \A j \in DOMAIN page.interactions \cap DOMAIN p.interactions :
             OlderLink(p.interactions[j], page.interactions[j])'
      BY <1>1, <1>2, <2>1, OlderLinkStays DEF ReadsOK
    <2>7. g.open => /\ g.id \in DOMAIN p.interactions /\ g.seen = p.interactions[g.id]
                    /\ g.offered /\ g.seen.contact # None => g.seen.contact \in DOMAIN p.contacts
      BY <1>1
    <2>8. ReadsOK(todo, page)'
      BY <1>1, <2>2, <2>3, <2>5, <2>6, <2>7 DEF ReadsOK
    <2> QED  BY <1>1, <2>1, <2>8 DEF ReadsInv
  <1> QED  BY <1>3, <1>4

LEMMA OpenInteractionStep ==
    ASSUME PagesInv, OpenInteraction
    PROVE  InteractionFormInv' /\ ReadsInv'
  <1>1. PICK i \in DOMAIN shown.interactions :
           editingInteraction' = LinkForm(i, shown.interactions[i], Options,
                                          LinkDefault(shown.interactions[i], Options))
    BY DEF OpenInteraction, Opens
  <1>2. PICK c, p, row, link, g :
           /\ c = route /\ p = shown /\ row = p.interactions[i]
           /\ link = LinkDefault(row, DOMAIN p.contacts)
           /\ g = LinkForm(i, row, DOMAIN p.contacts, link)
    OBVIOUS
  <1>3. /\ TablesTypeOK /\ Statement /\ DetailInv
        /\ UNCHANGED <<tables, route, request, result, shown, reads>>
    BY ControlFrame DEF DetailControl, PagesInv, TablesInv, Statement
  <1>4. HeldInteraction(i, row) /\ \A k \in DOMAIN p.contacts : HeldContact(c, k, p.contacts[k])
    BY <1>2, <1>3 DEF DetailInv, ShownInv, PageOK
  <1>5. /\ i \in Interaction /\ row \in InteractionRow /\ row.version \in Nat
        /\ DOMAIN p.contacts \subseteq Contact
    BY <1>4 DEF HeldInteraction, InteractionRow, HeldContact, OwnContact
  <1>6. /\ g \in [open: {TRUE}, id: Interaction, version: Nat, seen: InteractionRow,
                  link: Contact \cup {None}, offered: BOOLEAN]
        /\ g.id = i /\ g.seen = row /\ g.version = row.version /\ g.link = link
        /\ g.offered <=> row.contact \in DOMAIN p.contacts \cup {None}
        /\ link \in DOMAIN p.contacts \cup {None}
    <2>1. PICK offered \in BOOLEAN : offered = (row.contact \in DOMAIN p.contacts \cup {None})
      <3>1. (row.contact \in DOMAIN p.contacts \cup {None}) \in BOOLEAN
        OBVIOUS
      <3> QED  BY <3>1, Zenon
    <2>2. g = [open |-> TRUE, id |-> i, version |-> row.version, seen |-> row, link |-> link,
               offered |-> offered]
      BY <1>2, <2>1 DEF LinkForm
    <2>3. link \in DOMAIN p.contacts \cup {None}
      BY <1>2 DEF LinkDefault
    <2> QED  BY <1>5, <2>1, <2>2, <2>3
  <1>7. editingInteraction' = g
    BY <1>1, <1>2 DEF Options
  <1>8. HeldInteraction(i, row)'
    BY <1>3, <1>4, HeldInteractionStays
  <1>9. g.offered => OfferedOK(g)'
    <2>1. ASSUME row.contact \in DOMAIN p.contacts \cup {None}
          PROVE  /\ row.contact = None \/ OwnContact(c, row.contact)'
                 /\ link = row.contact
      BY <1>2, <1>3, <1>4, <2>1, OwnContactStays DEF HeldContact, LinkDefault
    <2> QED  BY <1>2, <1>3, <1>6, <2>1 DEF OfferedOK, LinkKept
  <1>10. InteractionFormInv'
    BY <1>2, <1>3, <1>6, <1>7, <1>8, <1>9 DEF InteractionFormInv
  <1>11. ReadsInv'
    <2>1. g.id \in DOMAIN shown.interactions /\ g.seen = shown.interactions[g.id]
      BY <1>2, <1>6
    <2>2. g.offered /\ g.seen.contact # None => g.seen.contact \in DOMAIN shown.contacts
      BY <1>2, <1>6
    <2> QED  BY <1>3, <1>7, <2>1, <2>2, ReadsBeneath
  <1> QED  BY <1>10, <1>11

LEMMA ControlStep ==
    ASSUME PagesInv, DetailControl
    PROVE  DetailInv'
  <1>1. /\ TablesTypeOK /\ Statement /\ DetailInv
        /\ UNCHANGED <<tables, route, request, result, shown, reads>>
        /\ route # List /\ shown.kind = "view"
    BY ControlFrame DEF PagesInv, TablesInv, Statement
  <1>2. ShownInv'
    BY <1>1, ShownStays DEF DetailInv
  <1>3. ClientFormInv'
    <2>1. CASE UNCHANGED editing \/ editing' = Closed
      BY <1>1, <2>1, ClientFormStays DEF ClientFormInv, DetailInv
    <2>2. CASE OpenClient
      <3>1. PICK c, row, g : c = route /\ row = shown.row /\ g = Form(c, row)
        OBVIOUS
      <3>2. HeldClient(c, row)
        BY <1>1, <3>1 DEF DetailInv, ShownInv
      <3>3. HeldClient(c, row)' /\ c \in Client /\ row \in ClientRow /\ row.version \in Nat
        BY <1>1, <3>2, HeldClientStays DEF HeldClient, ClientRow
      <3>4. editing' = g
        BY <2>2, <3>1 DEF OpenClient, Opens
      <3>5. /\ g \in [open: {TRUE}, id: Client, version: Nat, seen: ClientRow]
            /\ g.id = c /\ g.seen = row /\ g.version = row.version
        BY <3>1, <3>3 DEF Form
      <3> QED  BY <1>1, <3>1, <3>3, <3>4, <3>5 DEF ClientFormInv, OlderRow
    <2> QED  BY <2>1, <2>2 DEF DetailControl, CancelClient, ChooseStatus, OpenContact,
             CancelContact, OpenInteraction, CancelInteraction, Cancels
  <1>4. ContactFormInv'
    <2>1. CASE UNCHANGED editingContact \/ editingContact' = Closed
      BY <1>1, <2>1, ContactFormStays DEF ContactFormInv, DetailInv
    <2>2. CASE OpenContact
      <3>1. PICK k \in DOMAIN shown.contacts : editingContact' = Form(k, shown.contacts[k])
        BY <2>2 DEF OpenContact, Opens
      <3>2. PICK c, row, g : c = route /\ row = shown.contacts[k] /\ g = Form(k, row)
        OBVIOUS
      <3>3. HeldContact(c, k, row)
        BY <1>1, <3>2 DEF DetailInv, ShownInv, PageOK
      <3>4. HeldContact(c, k, row)' /\ k \in Contact /\ row \in ContactRow /\ row.version \in Nat
        BY <1>1, <3>3, HeldContactStays DEF HeldContact, OwnContact, ContactRow
      <3>5. /\ g \in [open: {TRUE}, id: Contact, version: Nat, seen: ContactRow]
            /\ g.id = k /\ g.seen = row /\ g.version = row.version
        BY <3>2, <3>4 DEF Form
      <3> QED  BY <1>1, <3>1, <3>2, <3>4, <3>5 DEF ContactFormInv
    <2> QED  BY <2>1, <2>2 DEF DetailControl, OpenClient, CancelClient, ChooseStatus,
             CancelContact, OpenInteraction, CancelInteraction, Cancels
  <1>5. InteractionFormInv' /\ ReadsInv'
    <2>1. CASE UNCHANGED editingInteraction
      BY <1>1, <2>1, InteractionFormStays, ReadsStay DEF DetailInv
    <2>2. CASE OpenInteraction
      BY <2>2, OpenInteractionStep
    <2>3. CASE editingInteraction' = Closed
      <3>1. ~Closed.open
        BY DEF Closed
      <3> QED  BY <1>1, <2>3, <3>1, ReadsBeneath DEF InteractionFormInv
    <2> QED  BY <2>1, <2>2, <2>3 DEF DetailControl, OpenClient, CancelClient, ChooseStatus,
             OpenContact, CancelContact, CancelInteraction, Cancels
  <1>6. StatusFormInv'
    <2>1. CASE UNCHANGED statusForm
      BY <1>1, <2>1 DEF DetailInv, StatusFormInv
    <2>2. CASE ChooseStatus
      <3>1. shown.row \in ClientRow
        BY <1>1 DEF DetailInv, ShownInv, PageOK
      <3> QED  BY <1>1, <2>2, <3>1 DEF ChooseStatus, StatusForm, StatusFormInv
    <2> QED  BY <2>1, <2>2 DEF DetailControl, OpenClient, CancelClient, OpenContact, CancelContact,
             OpenInteraction, CancelInteraction
  <1> QED  BY <1>1, <1>2, <1>3, <1>4, <1>5, <1>6 DEF DetailInv

LEMMA ServeFrame ==
    ASSUME Serve
    PROVE  route' = route /\ (result' = "refreshing" => result = "refreshing" /\ request' = request)
  BY DEF Serve, CreateClient, UpdateClient, UpdateClientFromRow, ChangeClientStatus, DeleteClient,
     AddContact, UpdateContact, DeleteContact, AddInteraction, UpdateInteraction,
     DeleteInteraction, CallFails, Underway, Guarded, Applied, NotApplied, Answered

LEMMA DetailInvStep ==
    ASSUME PagesInv, [Next]_vars
    PROVE  DetailInv'
  <1> DEFINE SameLoad == result' = "refreshing" => result = "refreshing" /\ request' = request
  <1>1. Statement /\ TablesTypeOK /\ DetailInv
    BY StepStatement DEF PagesInv, TablesInv, RequestInv, RequestOK
  <1>2. CASE UNCHANGED <<route, detail>> /\ SameLoad
    BY <1>1, <1>2, DetailStays
  <1>3. CASE DetailStep
    <2>1. CASE ReadClient \/ ReadContacts \/ ReadInteractions
      BY <2>1, ReadsStep
    <2>2. CASE Arrive
      BY <2>2, ArriveStep
    <2>3. CASE Refresh \/ Reload
      BY <2>3, RestartedReads DEF Refresh, Reload, OnDetail, session
    <2>4. CASE Refused \/ DetailSubmit
      <3>1. UNCHANGED <<route, detail>> /\ result' = "none"
        BY <2>4 DEF Refused, DetailSubmit, OnSave, OnSetOwner, OnChangeStatus, OnDeleteClient,
           OnAddContact, OnSaveContact, OnDeleteContact, OnAddInteraction, OnSaveInteraction,
           OnDeleteInteraction, Sends, Submit
      <3> QED  BY <1>2, <3>1
    <2>5. CASE DetailControl
      BY <2>5, ControlStep
    <2> QED  BY <1>3, <2>1, <2>2, <2>3, <2>4, <2>5 DEF DetailStep, Load
  <1>4. CASE ListStep
    <2>1. UNCHANGED <<route, detail>>
      BY <1>4, ListSteps
    <2>2. CASE ListRefresh
      <3>1. /\ reads = NoReads /\ route = List
            /\ UNCHANGED <<shown, reads, editing, editingContact, editingInteraction, statusForm>>
        BY <1>1, <2>1, <2>2 DEF DetailInv, ListRefresh, OnList, detail
      <3>2. ShownInv' /\ ClientFormInv' /\ ContactFormInv' /\ InteractionFormInv'
        BY <1>1, <2>1, <3>1, ShownStays, ClientFormStays, ContactFormStays, InteractionFormStays
           DEF DetailInv
      <3>3. StatusFormInv' /\ ReadsInv'
        BY <1>1, <3>1 DEF DetailInv, StatusFormInv, ReadsInv
      <3> QED  BY <1>1, <2>1, <3>1, <3>2, <3>3 DEF DetailInv, Unmounted
    <2>3. CASE ~ListRefresh
      <3>1. SameLoad
        BY <1>4, <2>3 DEF ListStep, ListLoad, ReadList, CountList, ListArrives, ListFails,
           ListRefused, ListReload, Browse, OnSearch, OnFilter, Clear, ShowAll, BackToFirst,
           Previous, NextPage, Navigate, ListControl, ToggleCreate, OpenRow, CancelRow, OnCreate,
           OnSaveRow, OnDelete, ListSends, Submit, session
      <3> QED  BY <1>2, <2>1, <3>1
    <2> QED  BY <2>2, <2>3
  <1>5. CASE Visit \/ AfterDelete
    BY <1>5, NewPage DEF Visit, AfterDelete
  <1>6. CASE Serve /\ UNCHANGED <<list, detail>>
    BY <1>2, <1>6, ServeFrame
  <1>7. CASE Elsewhere /\ UNCHANGED <<list, detail>>
    BY <1>2, <1>7 DEF Elsewhere, session
  <1>8. CASE UNCHANGED vars
    BY <1>2, <1>8 DEF vars, pages, session
  <1> QED  BY <1>3, <1>4, <1>5, <1>6, <1>7, <1>8 DEF Next

(***************************************************************************)
(* The invariant.                                                          *)
(***************************************************************************)
LEMMA InitIsOK ==
    ASSUME Init
    PROVE  PagesInv
  <1> USE DEF Init, SessionInit, DetailInit
  <1>1. TablesInv
    <2>1. EmptyTables
      OBVIOUS
    <2> QED  BY <2>1, EmptyTablesOK DEF TablesInv
  <1>2. RequestInv
    BY DEF RequestInv, RequestOK, NoRequest, Requests, ClientEdits, Outrun
  <1>3. ListInv
    <2>1. EveryClient \in Query
      BY ListAssumption DEF EveryClient, Query
    <2> QED  BY <2>1, NothingListedIsOK DEF ListInv, RowsUnmounted, RowFormOK
  <1>4. shown.kind = "loading" /\ ShownInv
    BY BlankIsOK DEF ShownInv, Blank, Shown
  <1>5. DetailInv
    BY <1>4, EmptyRowTypes, StatusAssumption
       DEF DetailInv, Unmounted, ClientFormInv, ContactFormInv, InteractionFormInv, StatusFormInv,
           NoStatusForm, StatusForm, ReadsInv, Life
  <1> QED  BY <1>1, <1>2, <1>3, <1>5 DEF PagesInv, Result

LEMMA SessionStep ==
    ASSUME PagesInv, [Next]_vars
    PROVE  (/\ route \in Client \cup {List} /\ result \in Result
            /\ failure \in {"none", "conflict", "refused"})'
  <1> USE DEF PagesInv, Result
  <1>1. CASE ListStep
    <2>1. route' = route
      BY <1>1, ListSteps
    <2> QED  BY <1>1, <2>1 DEF ListStep, ListLoad, ReadList, CountList, ListArrives, ListFails, ListRefresh,
         ListRefused, ListReload, Browse, OnSearch, OnFilter, Clear, ShowAll, BackToFirst,
         Previous, NextPage, Navigate, ListControl, ToggleCreate, OpenRow, CancelRow, OnCreate,
         OnSaveRow, OnDelete, ListSends, Submit, session
  <1>2. CASE DetailStep
    <2>1. route' = route
      BY <1>2, DetailSteps
    <2> QED  BY <1>2, <2>1 DEF DetailStep, Load, ReadClient, ReadContacts, ReadInteractions, Got,
         Arrive, Refresh, Refused, Reload, DetailSubmit, OnSave, OnSetOwner, OnChangeStatus,
         OnDeleteClient, OnAddContact, OnSaveContact, OnDeleteContact, OnAddInteraction,
         OnSaveInteraction, OnDeleteInteraction, Sends, Submit, DetailControl, OpenClient,
         CancelClient, ChooseStatus, OpenContact, CancelContact, OpenInteraction,
         CancelInteraction, Opens, Cancels, session
  <1>3. CASE Visit \/ AfterDelete
    BY <1>3 DEF Visit, AfterDelete, VisitPage
  <1>4. CASE Serve
    BY <1>4, ServeFrame DEF Serve, CreateClient, UpdateClient, UpdateClientFromRow,
       ChangeClientStatus, DeleteClient, AddContact, UpdateContact, DeleteContact, AddInteraction,
       UpdateInteraction, DeleteInteraction, CallFails, Guarded, Applied, NotApplied, Answered
  <1>5. CASE Elsewhere \/ UNCHANGED vars
    BY <1>5 DEF Elsewhere, session, vars, pages
  <1> QED  BY <1>1, <1>2, <1>3, <1>4, <1>5 DEF Next

\* The invariant of the pages holds in every reachable state.
THEOREM PagesInvariant == Spec => []PagesInv
  <1>1. Init => PagesInv
    BY InitIsOK
  <1>2. PagesInv /\ [Next]_vars => PagesInv'
    <2> SUFFICES ASSUME PagesInv, [Next]_vars PROVE PagesInv'
      OBVIOUS
    <2>1. TablesTypeOK /\ Filled /\ OwnLinks /\ Statement
      BY StepStatement DEF PagesInv, TablesInv, RequestInv, RequestOK
    <2>2. TablesInv'
      BY <2>1, StatementTypes, FilledStep, OwnLinksStep DEF TablesInv
    <2> QED  BY <2>2, RequestStep, ListInvStep, DetailInvStep, SessionStep DEF PagesInv
  <1> QED  BY <1>1, <1>2, PTL DEF Spec

\* What the tab holds has the types of ClientActions, ClientListPage and
\* ClientDetailPage.
THEOREM PagesTypeCorrect == Spec => []TypeOK
  <1>1. PagesInv => TypeOK
    <2> SUFFICES ASSUME PagesInv PROVE TypeOK
      OBVIOUS
    <2>1. SessionTypeOK
      BY DEF PagesInv, TablesInv, RequestInv, RequestOK, SessionTypeOK
    <2>2. ListTypeOK
      <3>1. editingRow \in {NoRow} \cup [open: {TRUE}, id: Client, version: Nat, seen: ClientRow]
        BY DEF PagesInv, ListInv, RowFormOK
      <3> QED  BY <3>1 DEF PagesInv, ListInv, ListingOK, HeldClient, RowsOf, ListTypeOK
    <2>3. \A c, page : PageOK(c, page) => IsPage(page)
      BY DEF PageOK, IsPage, RowsOf, HeldContact, OwnContact, HeldInteraction
    <2>4. IsPage(shown)
      BY <2>3 DEF PagesInv, DetailInv, ShownInv
    <2>5. reads.on \in BOOLEAN /\ reads.todo \subseteq Parts /\ IsPage(reads.page)
      <3>1. CASE reads = NoReads
        BY <2>3, <3>1, BlankIsOK DEF NoReads
      <3>2. CASE reads # NoReads
        <4>1. PICK todo, page : todo = reads.todo /\ page = reads.page
          OBVIOUS
        <4>2. reads = [on |-> TRUE, todo |-> todo, page |-> page] /\ ReadsOK(todo, page)
          BY <3>2, <4>1 DEF PagesInv, DetailInv, ReadsInv
        <4>3. reads.on = TRUE
          BY <4>2
        <4> QED  BY <2>3, <4>1, <4>2, <4>3 DEF ReadsOK
      <3> QED  BY <3>1, <3>2
    <2>6. /\ editing \in {Closed} \cup [open: {TRUE}, id: Client, version: Nat, seen: ClientRow]
          /\ editingContact \in {Closed} \cup
                [open: {TRUE}, id: Contact, version: Nat, seen: ContactRow]
          /\ editingInteraction \in {Closed} \cup
                [open: {TRUE}, id: Interaction, version: Nat, seen: InteractionRow,
                 link: Contact \cup {None}, offered: BOOLEAN]
          /\ statusForm \in [choice: Status, reason: Reason \cup {None, Untouched}, row: ClientRow]
      BY DEF PagesInv, DetailInv, ClientFormInv, ContactFormInv, InteractionFormInv, StatusFormInv
    <2> QED  BY <2>1, <2>2, <2>4, <2>5, <2>6 DEF TypeOK, DetailTypeOK
  <1> QED  BY <1>1, PagesInvariant, PTL

(***************************************************************************)
(* What the tab's own request replaces.                                    *)
(***************************************************************************)
LEMMA OnlyServeAnswers ==
    ASSUME [Next]_vars, ByTab
    PROVE  Serve
  <1> USE DEF ByTab
  <1>1. CASE ListStep
    BY <1>1 DEF ListStep, ListLoad, ReadList, CountList, ListArrives, ListFails, ListRefresh,
       ListRefused, ListReload, Browse, OnSearch, OnFilter, Clear, ShowAll, BackToFirst, Previous,
       NextPage, Navigate, ListControl, ToggleCreate, OpenRow, CancelRow, OnCreate, OnSaveRow,
       OnDelete, ListSends, Submit, session
  <1>2. CASE DetailStep
    BY <1>2 DEF DetailStep, Load, ReadClient, ReadContacts, ReadInteractions, Got, Arrive,
       Refresh, Refused, Reload, DetailSubmit, OnSave, OnSetOwner, OnChangeStatus, OnDeleteClient,
       OnAddContact, OnSaveContact, OnDeleteContact, OnAddInteraction, OnSaveInteraction,
       OnDeleteInteraction, Sends, Submit, DetailControl, OpenClient, CancelClient, ChooseStatus,
       OpenContact, CancelContact, OpenInteraction, CancelInteraction, Opens, Cancels, session
  <1>3. CASE Visit \/ AfterDelete
    BY <1>3 DEF Visit, AfterDelete, VisitPage
  <1>4. CASE Elsewhere \/ UNCHANGED vars
    BY <1>4 DEF Elsewhere, session, vars, pages
  <1> QED  BY <1>1, <1>2, <1>3, <1>4 DEF Next

\* A client is replaced by an edit of it whose version it still has, and is then
\* as the control showed it.
LEMMA ServedClient ==
    ASSUME PagesInv, Serve, NEW c \in Client, Replaced(clients[c], clients'[c])
    PROVE  /\ request.op \in {"updateClient", "changeClientStatus"} /\ c = request.client
           /\ clients[c] = request.seen /\ clients[c].version = request.version
           /\ request.op = "updateClient" => clients'[c].fields = request.fields
  <1>1. /\ TablesTypeOK /\ request \in Requests /\ RequestOK(request)
        /\ clients[c] \in ClientRow /\ clients[c].version \in Nat
    BY DEF PagesInv, TablesInv, TablesTypeOK, RequestInv, RequestOK, ClientRow
  <1> USE DEF Replaced
  <1>2. CASE clients' = clients
    BY <1>2
  <1>3. CASE CreateClient
    BY <1>1, <1>3 DEF CreateClient, InsertClient, TablesTypeOK
  <1>4. CASE DeleteClient
    BY <1>1, <1>2, <1>4 DEF DeleteClient, NotApplied, tables, CascadeClient, NoClientRow, TablesTypeOK
  <1>5. ASSUME request.op \in {"updateClient", "changeClientStatus"}, ClientExists(request.client),
               clients[request.client].version = request.version,
               \A d \in Client : d # request.client => clients'[d] = clients[d]
        PROVE  c = request.client /\ clients[c] = request.seen /\ clients[c].version = request.version
    BY <1>1, <1>5 DEF RequestOK, ClientEdits, HeldClient, OlderRow
  <1>6. CASE UpdateClient
    <2>1. CASE /\ ClientExists(request.client) /\ clients[request.client].version = request.version
               /\ ReplaceFields(request.client, request.fields)
      <3>1. request.op = "updateClient" /\ \A d \in Client : d # request.client => clients'[d] = clients[d]
        BY <1>1, <1>6, <2>1 DEF UpdateClient, Underway, ReplaceFields, TablesTypeOK
      <3>2. c = request.client /\ clients[c] = request.seen /\ clients[c].version = request.version
        BY <1>5, <2>1, <3>1
      <3>3. clients'[c] = Bump([clients[c] EXCEPT !.fields = request.fields])
        BY <1>1, <2>1, <3>2 DEF ReplaceFields, TablesTypeOK
      <3>4. clients'[c].fields = request.fields
        BY <1>1, <3>3 DEF Bump, ClientRow
      <3> QED  BY <3>1, <3>2, <3>4
    <2> QED  BY <1>2, <1>6, <2>1 DEF UpdateClient, Guarded, NotApplied, tables
  <1>7. CASE ChangeClientStatus
    <2>1. CASE /\ ClientExists(request.client) /\ clients[request.client].version = request.version
               /\ MoveStatus(request.client, request.status, request.reason,
                             clients[request.client].status)
      <3>1. request.op = "changeClientStatus"
        BY <1>7 DEF ChangeClientStatus, Underway
      <3>2. \A d \in Client : d # request.client => clients'[d] = clients[d]
        BY <1>1, <2>1 DEF MoveStatus, TablesTypeOK
      <3> QED  BY <1>5, <2>1, <3>1, <3>2
    <2> QED  BY <1>2, <1>7, <2>1 DEF ChangeClientStatus, Guarded, NotApplied, tables
  <1>8. CASE UpdateClientFromRow \/ AddContact \/ UpdateContact \/ DeleteContact \/ AddInteraction
             \/ UpdateInteraction \/ DeleteInteraction \/ CallFails
    BY <1>2, <1>8 DEF UpdateClientFromRow, AddContact, UpdateContact, DeleteContact, AddInteraction,
       UpdateInteraction, DeleteInteraction, CallFails, Guarded, NotApplied, tables, InsertContact,
       ReplaceContact, DetachContact, InsertInteraction, ReplaceInteraction, DropInteraction
  <1> QED  BY <1>3, <1>4, <1>6, <1>7, <1>8 DEF Serve

LEMMA ServedContact ==
    ASSUME PagesInv, Serve, NEW k \in Contact, Replaced(contacts[k], contacts'[k])
    PROVE  contacts[k] = request.seen
  <1>1. /\ TablesTypeOK /\ request \in Requests /\ RequestOK(request)
        /\ contacts[k] \in ContactRow /\ contacts[k].version \in Nat
    BY DEF PagesInv, TablesInv, TablesTypeOK, RequestInv, RequestOK, ContactRow
  <1> USE DEF Replaced
  <1>2. CASE contacts' = contacts
    BY <1>2
  <1>3. CASE AddContact
    BY <1>1, <1>2, <1>3 DEF AddContact, NotApplied, tables, InsertContact, TablesTypeOK
  <1>4. CASE DeleteContact
    BY <1>1, <1>2, <1>4 DEF DeleteContact, NotApplied, tables, DetachContact, NoContactRow, TablesTypeOK
  <1>5. CASE DeleteClient
    BY <1>1, <1>2, <1>5 DEF DeleteClient, NotApplied, tables, CascadeClient, NoContactRow, TablesTypeOK
  <1>6. CASE UpdateContact
    <2>1. CASE /\ ContactExists(request.client, request.contact)
               /\ contacts[request.contact].version = request.version
               /\ ReplaceContact(request.contact, request.email)
      <3>1. k = request.contact
        BY <1>1, <2>1 DEF ReplaceContact, TablesTypeOK
      <3>2. HeldContact(request.client, k, request.seen) /\ request.version = request.seen.version
        BY <1>1, <1>6, <3>1 DEF UpdateContact, Underway, RequestOK
      <3> QED  BY <1>1, <2>1, <3>1, <3>2 DEF HeldContact, ContactExists, OlderRow
    <2> QED  BY <1>2, <1>6, <2>1 DEF UpdateContact, Guarded, NotApplied, tables
  <1>7. CASE CreateClient \/ UpdateClient \/ UpdateClientFromRow \/ ChangeClientStatus
             \/ AddInteraction \/ UpdateInteraction \/ DeleteInteraction \/ CallFails
    BY <1>2, <1>7 DEF CreateClient, UpdateClient, UpdateClientFromRow, ChangeClientStatus,
       AddInteraction, UpdateInteraction, DeleteInteraction, CallFails, Guarded, NotApplied, tables,
       InsertClient, ReplaceFields, MoveStatus, InsertInteraction, ReplaceInteraction,
       DropInteraction
  <1> QED  BY <1>3, <1>4, <1>5, <1>6, <1>7 DEF Serve

LEMMA ServedInteraction ==
    ASSUME PagesInv, Serve, NEW i \in Interaction, request.op = "updateInteraction",
           Replaced(interactions[i], interactions'[i])
    PROVE  /\ i = request.interaction /\ interactions[i].version = request.version
           /\ interactions'[i].contact = request.contact
           /\ ContactRefOK(request.client, request.contact)
           /\ HeldInteraction(i, request.seen) /\ request.version = request.seen.version
           /\ AsSeenButLink(interactions[i])
  <1>1. /\ TablesTypeOK /\ request \in Requests /\ RequestOK(request)
        /\ interactions[i] \in InteractionRow /\ interactions[i].version \in Nat
    BY DEF PagesInv, TablesInv, TablesTypeOK, RequestInv, RequestOK, InteractionRow
  <1>2. UpdateInteraction \/ UNCHANGED tables
    BY DEF Serve, CreateClient, UpdateClient, UpdateClientFromRow, ChangeClientStatus, DeleteClient,
       AddContact, UpdateContact, DeleteContact, AddInteraction, DeleteInteraction, CallFails,
       Underway, NotApplied
  <1>3. /\ InteractionExists(request.client, request.interaction)
        /\ ContactRefOK(request.client, request.contact)
        /\ interactions[request.interaction].version = request.version
        /\ ReplaceInteraction(request.interaction, request.contact)
    BY <1>2 DEF UpdateInteraction, Guarded, NotApplied, tables, Replaced
  <1>4. i = request.interaction
    BY <1>1, <1>3 DEF ReplaceInteraction, TablesTypeOK, Replaced
  <1>5. interactions'[i] = Bump([interactions[i] EXCEPT !.contact = request.contact])
    BY <1>1, <1>3, <1>4 DEF ReplaceInteraction, TablesTypeOK
  <1>6. interactions'[i].contact = request.contact
    BY <1>1, <1>5 DEF Bump, InteractionRow
  <1>7. HeldInteraction(i, request.seen) /\ request.version = request.seen.version
    BY <1>1, <1>4 DEF RequestOK
  <1>8. OlderLink(request.seen, interactions[i])
    BY <1>3, <1>4, <1>7 DEF InteractionExists, HeldInteraction
  <1>9. AsSeenButLink(interactions[i])
    BY <1>1, <1>3, <1>4, <1>7, <1>8 DEF OlderLink, OlderRow, AsSeenButLink
  <1> QED  BY <1>3, <1>4, <1>6, <1>7, <1>9

(***************************************************************************)
(* The theorems.                                                           *)
(***************************************************************************)
\* What the tab replaces is what its control was populated from, whoever else
\* edited the row and whatever arrived beneath the open form.
THEOREM NobodysEditIsOverwritten == Spec => NoUnseenEdit
  <1> DEFINE Step ==
        ByTab =>
         /\ \A c \in Client : Replaced(clients[c], clients'[c]) => AsSeen(clients[c])
         /\ \A k \in Contact : Replaced(contacts[k], contacts'[k]) => AsSeen(contacts[k])
         /\ \A i \in Interaction :
               Replaced(interactions[i], interactions'[i]) /\ Sent("updateInteraction")
                  => AsSeenButLink(interactions[i])
  <1>1. PagesInv /\ [Next]_vars => Step
    BY OnlyServeAnswers, ServedClient, ServedContact, ServedInteraction DEF AsSeen, Sent
  <1>2. PagesInv /\ [Next]_vars => [Step]_vars
    BY <1>1
  <1> QED  BY <1>2, PagesInvariant, PTL DEF Spec, NoUnseenEdit

\* The columns a control does not show are as they were before its edit.
THEOREM HiddenColumnsSurvive == Spec => NothingWiped
  <1> DEFINE Kept(c) ==
        LET before == clients[c].fields
            after == clients'[c].fields IN
        Replaced(clients[c], clients'[c]) =>
           /\ request.from # "owner" => after.owner = before.owner
           /\ request.from # "form" => after.rest = before.rest
           /\ request.from = "owner" => after.name = before.name
         Step == ByTab /\ Sent("updateClient") => \A c \in Client : Kept(c)
  <1>1. ASSUME PagesInv, [Next]_vars, ByTab, Sent("updateClient"), NEW c \in Client,
               Replaced(clients[c], clients'[c])
        PROVE  Kept(c)
    <2>1. /\ c = request.client /\ clients[c] = request.seen
          /\ clients[c].version = request.version /\ clients'[c].fields = request.fields
      BY <1>1, OnlyServeAnswers, ServedClient DEF Sent
    <2>2. Passed(clients[c], request.version) \/ KeepsHidden(request)
      BY <1>1, <2>1 DEF PagesInv, RequestInv, RequestOK, Sent
    <2>3. clients[c].version \in Nat
      BY <1>1 DEF PagesInv, TablesInv, TablesTypeOK, ClientRow
    <2>4. KeepsHidden(request)
      BY <1>1, <2>1, <2>2, <2>3 DEF Passed, Replaced
    <2> QED  BY <2>1, <2>4 DEF KeepsHidden
  <1>2. PagesInv /\ [Next]_vars => Step
    BY <1>1
  <1>3. PagesInv /\ [Next]_vars => [Step]_vars
    BY <1>2
  <1> QED  BY <1>3, PagesInvariant, PTL DEF Spec, NothingWiped

\* A status that takes effect was chosen against the status the client has.
THEOREM StatusChosenInSight == Spec => StatusChoiceCurrent
  <1> DEFINE Step ==
        ByTab /\ Sent("changeClientStatus") =>
         \A c \in Client :
            Replaced(clients[c], clients'[c])
               => request.chosen.status = clients[c].status
  <1>1. PagesInv /\ [Next]_vars => Step
    BY OnlyServeAnswers, ServedClient DEF Sent, PagesInv, RequestInv, RequestOK
  <1>2. PagesInv /\ [Next]_vars => [Step]_vars
    BY <1>1
  <1> QED  BY <1>2, PagesInvariant, PTL DEF Spec, StatusChoiceCurrent

\* An interaction whose contact select had its contact and was not used is
\* linked after the save as it was before.
THEOREM OfferedLinkIsKept == Spec => OfferedLinkStays
  <1> DEFINE Step ==
        ByTab /\ Sent("updateInteraction") /\ ~request.touched /\ request.offered =>
         \A i \in Interaction :
            Replaced(interactions[i], interactions'[i])
               => interactions'[i].contact = interactions[i].contact
  <1>1. ASSUME PagesInv, [Next]_vars, ByTab, Sent("updateInteraction"), ~request.touched,
               request.offered, NEW i \in Interaction, Replaced(interactions[i], interactions'[i])
        PROVE  interactions'[i].contact = interactions[i].contact
    <2>1. /\ i = request.interaction /\ interactions[i].version = request.version
          /\ interactions'[i].contact = request.contact
          /\ ContactRefOK(request.client, request.contact)
          /\ HeldInteraction(i, request.seen) /\ request.version = request.seen.version
      BY <1>1, OnlyServeAnswers, ServedInteraction DEF Sent
    <2>2. LinkKept(i, request.version, request.seen, request.contact)
      BY <1>1, <2>1 DEF PagesInv, RequestInv, RequestOK, Sent
    <2>3. PICK now, seen : now = interactions[i] /\ seen = request.seen
      OBVIOUS
    <2>4. now \in InteractionRow /\ seen \in InteractionRow /\ now.version \in Nat
      BY <1>1, <2>1, <2>3
         DEF PagesInv, TablesInv, TablesTypeOK, HeldInteraction, InteractionRow
    <2>5. now.life = "live" /\ ~Passed(interactions[i], request.version)
      BY <1>1, <2>1, <2>3, <2>4 DEF Replaced, Passed
    <2>6. now.contact # None => contacts[now.contact].life = "live"
      BY <1>1, <2>3, <2>5 DEF PagesInv, TablesInv, OwnLinks, ContactRefOK, ContactExists
    <2>7. \/ request.contact = seen.contact
          \/ request.contact = None /\ contacts[seen.contact].life = "gone"
      BY <2>2, <2>3, <2>5 DEF LinkKept
    <2>8. CASE now = seen
      BY <2>1, <2>3, <2>6, <2>7, <2>8
    <2>9. CASE /\ now = [seen EXCEPT !.contact = None]
               /\ seen.contact \in Contact /\ contacts[seen.contact].life = "gone"
      <3>1. now.contact = None
        BY <2>4, <2>9 DEF InteractionRow
      <3>2. request.contact # None => contacts[request.contact].life = "live"
        BY <2>1 DEF ContactRefOK, ContactExists
      <3> QED  BY <2>1, <2>3, <2>7, <2>9, <3>1, <3>2
    <2> QED  BY <2>1, <2>3, <2>4, <2>5, <2>8, <2>9 DEF HeldInteraction, OlderLink, OlderRow
  <1>2. PagesInv /\ [Next]_vars => Step
    BY <1>1
  <1>3. PagesInv /\ [Next]_vars => [Step]_vars
    BY <1>2
  <1> QED  BY <1>3, PagesInvariant, PTL DEF Spec, OfferedLinkStays

\* A load of the list that ends in a page: of rows that match, with their number.
LEMMA ListRead ==
    ASSUME ListLoad, listLoad' = "none", listing'.kind = "view"
    PROVE  \E S : /\ \A c \in S : c \in Client /\ ClientExists(c)
                  /\ listing'.rows = [c \in S |-> clients[c]]
                  /\ listing'.total = Cardinality(Matching(url))
  <1>1. CASE ReadList
    <2>1. PICK S \in PageOf(url) :
             ListArrives(Listing("view", [c \in S |-> clients[c]],
                                 Cardinality(Matching(url)), Sanitised(url)))
      BY <1>1 DEF ReadList
    <2>2. listing' = Listing("view", [c \in S |-> clients[c]],
                             Cardinality(Matching(url)), Sanitised(url))
      BY <2>1 DEF ListArrives
    <2> QED  BY <2>2, PageOfMatching DEF Listing
  <1>2. CASE CountList
    <2>1. listing' = Listing("view", [c \in {} |-> {}], Cardinality(Matching(url)), Sanitised(url))
      BY <1>2 DEF CountList, ListArrives
    <2>2. listing'.rows = [c \in {} |-> clients[c]]
      BY <2>1 DEF Listing
    <2> QED  BY <2>1, <2>2 DEF Listing
  <1>3. CASE ListFails
    BY <1>3 DEF ListFails, NothingListed, Listing
  <1> QED  BY <1>1, <1>2, <1>3 DEF ListLoad

\* Settling, on the list: what is listed was read after the edit.
LEMMA SettlesOnList ==
    ASSUME PagesInv, ListLoad, result = "refreshing", request.op = "updateClient",
           request' # request, request.client \in DOMAIN listing'.rows
    PROVE  listing'.rows[request.client].version > request.version
  <1>1. PICK c : c = request.client
    OBVIOUS
  <1>2. CASE ListFails
    BY <1>2 DEF ListFails, NothingListed, Listing
  <1>3. CASE ~ListFails
    <2>1. listLoad' = "none" /\ listing'.kind = "view"
      BY <1>3 DEF ListLoad, ReadList, CountList, ListArrives, Listing, session
    <2>2. PICK S : /\ \A d \in S : d \in Client /\ ClientExists(d)
                   /\ listing'.rows = [d \in S |-> clients[d]]
      BY <2>1, ListRead
    <2>3. ClientExists(c) /\ listing'.rows[c] = clients[c]
      BY <1>1, <2>2
    <2>4. Passed(clients[c], request.version)
      BY <1>1 DEF PagesInv, RequestInv, Outrun
    <2> QED  BY <1>1, <2>3, <2>4 DEF Passed, ClientExists
  <1> QED  BY <1>2, <1>3

\* When an edit has succeeded and the page settles, it shows the row with that
\* edit or a later one, or not at all.
THEOREM OwnWritesAreRead == Spec => ReadsOwnWrites
  <1> DEFINE Step ==
        Settles /\ route' = route =>
         /\ Sent("updateClient") /\ request.client \in DOMAIN listing'.rows
               => listing'.rows[request.client].version > request.version
         /\ (Sent("updateClient") \/ Sent("changeClientStatus")) /\ shown'.kind = "view"
               => shown'.row.version > request.version
         NotListed == DOMAIN listing'.rows = {}
         NotShown == shown'.kind # "view"
  <1>1. ASSUME PagesInv, [Next]_vars, Settles, route' = route,
               Sent("updateClient") \/ Sent("changeClientStatus")
        PROVE  /\ Sent("updateClient") /\ request.client \in DOMAIN listing'.rows
                     => listing'.rows[request.client].version > request.version
               /\ shown'.kind = "view" => shown'.row.version > request.version
    <2>1. request' # request /\ request # NoRequest /\ result = "refreshing"
      BY <1>1 DEF Settles, Sent, NoRequest
    <2>2. CASE ListStep
      <3>1. ListLoad
        BY <2>1, <2>2 DEF ListStep, ListRefresh, ListRefused, ListReload, Browse, OnSearch,
           OnFilter, Clear, ShowAll, BackToFirst, Previous, NextPage, Navigate, ListControl,
           ToggleCreate, OpenRow, CancelRow, OnCreate, OnSaveRow, OnDelete, ListSends, Submit,
           IsPending, session, NoRequest
      <3>2. route = List
        BY <1>1, <3>1 DEF PagesInv, ListInv, ListLoad, ReadList, CountList, ListFails
      <3>3. NotShown
        BY <1>1, <2>2, <3>2, ListSteps DEF PagesInv, DetailInv, detail, Blank, Shown
      <3> QED  BY <1>1, <2>1, <3>1, <3>3, SettlesOnList DEF Sent
    <2>3. CASE DetailStep
      <3>1. ReadClient \/ Arrive
        BY <1>1, <2>1, <2>3 DEF DetailStep, Load, ReadContacts, ReadInteractions, Got, Refresh,
           Refused, Reload, DetailSubmit, OnSave, OnSetOwner, OnChangeStatus, OnDeleteClient,
           OnAddContact, OnSaveContact, OnDeleteContact, OnAddInteraction, OnSaveInteraction,
           OnDeleteInteraction, Sends, Submit, Settles, Sent, IsPending, DetailControl, OpenClient,
           CancelClient, ChooseStatus, OpenContact, CancelContact, OpenInteraction,
           CancelInteraction, Opens, Cancels, session
      <3>2. route # List
        BY <1>1, <3>1, ReadingIsOn, ArrivingPage DEF ReadClient
      <3>3. NotListed
        BY <1>1, <2>3, <3>2, DetailSteps
           DEF PagesInv, ListInv, list, NothingListed, Listing
      <3>4. CASE ReadClient
        BY <2>1, <3>3, <3>4 DEF ReadClient, Got, session, Blank, Shown
      <3>5. CASE Arrive
        <4>1. ReadsOK({}, reads.page) /\ shown' = reads.page
          BY <1>1, <3>5, ArrivingPage
        <4>2. reads.page.row.version > request.version
          BY <1>1, <2>1, <4>1 DEF ReadsOK, Sent
        <4> QED  BY <3>3, <4>1, <4>2
      <3> QED  BY <3>1, <3>4, <3>5
    <2>4. CASE Visit \/ AfterDelete
      BY <2>4 DEF Visit, AfterDelete, VisitPage, NothingListed, Listing, Blank, Shown
    <2>5. CASE Serve
      BY <2>1, <2>5, ServeFrame DEF Serve, CreateClient, UpdateClient, UpdateClientFromRow,
         ChangeClientStatus, DeleteClient, AddContact, UpdateContact, DeleteContact,
         AddInteraction, UpdateInteraction, DeleteInteraction, CallFails, Underway
    <2>6. CASE Elsewhere \/ UNCHANGED vars
      BY <2>1, <2>6 DEF Elsewhere, session, vars, pages
    <2> QED  BY <1>1, <2>2, <2>3, <2>4, <2>5, <2>6 DEF Next
  <1>2. PagesInv /\ [Next]_vars => Step
    BY <1>1
  <1>3. PagesInv /\ [Next]_vars => [Step]_vars
    BY <1>2
  <1> QED  BY <1>3, PagesInvariant, PTL DEF Spec, ReadsOwnWrites

\* A page that says that there is no client is right.
THEOREM TotalsAreHonest == Spec => TotalIsHonest
  <1> DEFINE Step ==
        listLoad # "none" /\ listing'.kind = "view" /\ listLoad' = "none" /\ listing'.total = 0
           => Matching(url) = {}
  <1>1. ASSUME PagesInv, [Next]_vars, listLoad # "none", listing'.kind = "view",
               listLoad' = "none", listing'.total = 0
        PROVE  Matching(url) = {}
    <2>1. CASE ListStep
      <3>1. ListLoad
        BY <1>1, <2>1 DEF ListStep, ListRefresh, ListRefused, ListReload, Browse, OnSearch,
           OnFilter, Clear, ShowAll, BackToFirst, Previous, NextPage, Navigate, ListControl,
           ToggleCreate, OpenRow, CancelRow, OnCreate, OnSaveRow, OnDelete, ListSends, list
      <3>2. listing'.total = Cardinality(Matching(url))
        BY <1>1, <3>1, ListRead
      <3> QED  BY <1>1, <3>2, MatchingCounts, FS_EmptySet
    <2>2. CASE DetailStep
      BY <1>1, <2>2, DetailSteps DEF list
    <2>3. CASE Visit \/ AfterDelete
      BY <1>1, <2>3 DEF Visit, AfterDelete, VisitPage, NothingListed, Listing
    <2>4. CASE UNCHANGED list
      BY <1>1, <2>4 DEF list
    <2> QED  BY <1>1, <2>1, <2>2, <2>3, <2>4 DEF Next, vars, pages
  <1>2. PagesInv /\ [Next]_vars => Step
    BY <1>1
  <1>3. PagesInv /\ [Next]_vars => [Step]_vars
    BY <1>2
  <1> QED  BY <1>3, PagesInvariant, PTL DEF Spec, TotalIsHonest
(***************************************************************************)
(* To the tables the tab is one more of everybody.                         *)
(***************************************************************************)

\* What the pages' bounds and the reason's input leave of a request.
Within(q) ==
    /\ q.op \in ClientEdits => q.version < MaxClientVersion
    /\ q.op \in {"updateContact", "updateInteraction"} => q.version < MaxChildVersion
    /\ q.op = "changeClientStatus" => (q.reason # None => q.status = Lost)

FormsWithin ==
    /\ editingRow.open => editingRow.version < MaxClientVersion
    /\ editing.open => editing.version < MaxClientVersion
    /\ editingContact.open => editingContact.version < MaxChildVersion
    /\ editingInteraction.open => editingInteraction.version < MaxChildVersion

LEMMA ListWithin ==
    ASSUME Within(request), FormsWithin, ListStep
    PROVE  Within(request)' /\ FormsWithin'
  <1>1. UNCHANGED detail
    BY DEF ListStep
  <1>2. CASE ListLoad \/ ListRefresh \/ ListRefused \/ ListReload \/ Browse
    <2>1. /\ request' = request \/ request' = NoRequest
          /\ editingRow' = editingRow \/ editingRow' = NoRow
      BY <1>2 DEF ListLoad, ReadList, CountList, ListArrives, ListFails, RowsUnmount, ListRefresh,
         ListRefused, ListReload, Browse, OnSearch, OnFilter, Clear, ShowAll, BackToFirst,
         Previous, NextPage, Navigate, session, list, rowForms
    <2> QED  BY <1>1, <2>1 DEF Within, FormsWithin, NoRequest, NoRow, ClientEdits, detail, forms
  <1>3. CASE ToggleCreate \/ OpenRow \/ CancelRow
    <2>1. request' = request /\ FormsWithin'
      BY <1>1, <1>3 DEF ToggleCreate, OpenRow, CancelRow, FormsWithin, NoRow, session, detail, forms
    <2> QED  BY <2>1 DEF Within
  <1>4. CASE OnCreate \/ OnSaveRow \/ OnDelete
    <2>1. Within(request)'
      BY <1>4 DEF OnCreate, OnSaveRow, OnDelete, RowFormShown, ListSends, Submit, Within,
         FormsWithin, ClientEdits
    <2>2. UNCHANGED list
      BY <1>4 DEF OnCreate, OnSaveRow, OnDelete, ListSends
    <2> QED  BY <1>1, <2>1, <2>2 DEF FormsWithin, list, rowForms, detail, forms
  <1> QED  BY <1>2, <1>3, <1>4 DEF ListStep, ListControl

LEMMA DetailSubmitWithin ==
    ASSUME FormsWithin, DetailSubmit
    PROVE  Within(request)'
  <1> USE DEF Sends, Submit, Within, ClientEdits
  <1>1. CASE OnSave \/ OnSetOwner(Me) \/ OnSetOwner(None)
    BY <1>1 DEF OnSave, OnSetOwner, Short, FormsWithin
  <1>2. CASE OnChangeStatus
    BY <1>2 DEF OnChangeStatus, ReasonSent, Short
  <1>3. CASE OnSaveContact \/ OnSaveInteraction
    BY <1>3 DEF OnSaveContact, OnSaveInteraction, ContactFormShown, InteractionFormShown, FormsWithin
  <1>4. CASE \/ OnDeleteClient \/ OnAddContact \/ OnDeleteContact
             \/ OnAddInteraction \/ OnDeleteInteraction
    BY <1>4 DEF OnDeleteClient, OnAddContact, OnDeleteContact, OnAddInteraction, OnDeleteInteraction
  <1> QED  BY <1>1, <1>2, <1>3, <1>4 DEF DetailSubmit

LEMMA DetailWithin ==
    ASSUME PagesInv, Within(request), FormsWithin, DetailStep
    PROVE  Within(request)' /\ FormsWithin'
  <1>1. UNCHANGED list
    BY DEF DetailStep
  <1>2. editingRow' = editingRow
    BY <1>1 DEF list, rowForms
  <1>3. NoRequest.op \notin ClientEdits \cup {"updateContact", "updateInteraction"}
    BY DEF NoRequest, ClientEdits
  <1>4. Closed.open = FALSE
    BY DEF Closed
  <1>5. CASE ReadClient \/ ReadContacts \/ ReadInteractions
    <2>1. request' = request \/ request' = NoRequest
      BY <1>5 DEF ReadClient, ReadContacts, ReadInteractions, Got, session
    <2>2. UNCHANGED forms \/ Unmount
      BY <1>5 DEF ReadClient, ReadContacts, ReadInteractions, Got
    <2> QED  BY <1>2, <1>3, <1>4, <2>1, <2>2 DEF Within, FormsWithin, forms, Unmount, ClientEdits
  <1>6. CASE Arrive
    <2>1. request' = request \/ request' = NoRequest
      BY <1>6 DEF Arrive
    <2>2. editing' \in {editing, Closed} /\ editingContact' \in {editingContact, Closed}
      BY <1>6 DEF Arrive
    <2>3. editingInteraction'.open =>
             editingInteraction.open /\ editingInteraction'.version = editingInteraction.version
      <3>1. CASE editingInteraction = Closed
        BY <1>4, <1>6, <3>1 DEF Arrive
      <3>2. CASE editingInteraction # Closed
        <4>1. editingInteraction \in
                 [open: {TRUE}, id: Interaction, version: Nat, seen: InteractionRow,
                  link: Contact \cup {None}, offered: BOOLEAN]
          BY <3>2 DEF PagesInv, DetailInv, InteractionFormInv
        <4>2. \/ editingInteraction' = Closed
              \/ editingInteraction' = [editingInteraction EXCEPT !.link = LinkNow(reads.page)]
          BY <1>6 DEF Arrive
        <4> QED  BY <1>4, <4>1, <4>2
      <3> QED  BY <3>1, <3>2
    <2> QED  BY <1>2, <1>3, <1>4, <2>1, <2>2, <2>3 DEF Within, FormsWithin, ClientEdits
  <1>7. CASE Refresh \/ Refused \/ Reload
    <2>1. (request' = request \/ request' = NoRequest) /\ UNCHANGED forms
      BY <1>7 DEF Refresh, Refused, Reload, session, detail, forms
    <2> QED  BY <1>2, <1>3, <2>1 DEF Within, FormsWithin, forms, ClientEdits
  <1>8. CASE DetailSubmit
    <2>1. UNCHANGED detail
      BY <1>8 DEF DetailSubmit, OnSave, OnSetOwner, OnChangeStatus, OnDeleteClient, OnAddContact,
         OnSaveContact, OnDeleteContact, OnAddInteraction, OnSaveInteraction,
         OnDeleteInteraction, Sends
    <2> QED  BY <1>2, <1>8, <2>1, DetailSubmitWithin DEF FormsWithin, detail, forms
  <1>9. CASE DetailControl
    <2>1. request' = request
      BY <1>9 DEF DetailControl, OpenClient, CancelClient, ChooseStatus, OpenContact,
         CancelContact, OpenInteraction, CancelInteraction, Opens, Cancels, session
    <2>2. FormsWithin'
      BY <1>2, <1>4, <1>9 DEF DetailControl, OpenClient, CancelClient, ChooseStatus, OpenContact,
         CancelContact, OpenInteraction, CancelInteraction, Opens, Cancels, Form, LinkForm,
         Short, ChildShort, FormsWithin
    <2> QED  BY <2>1, <2>2 DEF Within
  <1> QED  BY <1>5, <1>6, <1>7, <1>8, <1>9 DEF DetailStep, Load

LEMMA WithinStep ==
    ASSUME PagesInv, Within(request), FormsWithin, [Next]_vars
    PROVE  Within(request)' /\ FormsWithin'
  <1>1. CASE Serve /\ UNCHANGED <<list, detail>>
    <2>1. FormsWithin'
      BY <1>1 DEF FormsWithin, list, rowForms, detail, forms
    <2>2. CASE UpdateClientFromRow
      BY <2>1, <2>2 DEF UpdateClientFromRow, Underway, NotApplied, Answered, Within, ClientEdits
    <2>3. CASE ~UpdateClientFromRow
      <3>1. request' = request
        BY <1>1, <2>3 DEF Serve, CreateClient, UpdateClient, ChangeClientStatus, DeleteClient,
           AddContact, UpdateContact, DeleteContact, AddInteraction, UpdateInteraction,
           DeleteInteraction, CallFails, Guarded, Applied, NotApplied, Answered
      <3> QED  BY <2>1, <3>1 DEF Within
    <2> QED  BY <2>1, <2>2, <2>3
  <1>2. CASE Visit \/ AfterDelete
    BY <1>2 DEF Visit, AfterDelete, VisitPage, Unmount, RowsUnmount, Closed, NoRow, NoRequest,
       ClientEdits, Within, FormsWithin
  <1>3. CASE (Elsewhere /\ UNCHANGED <<list, detail>>) \/ UNCHANGED vars
    BY <1>3 DEF Elsewhere, session, list, rowForms, detail, forms, vars, pages, Within, FormsWithin
  <1> QED  BY <1>1, <1>2, <1>3, ListWithin, DetailWithin DEF Next

\* What the API does for a Server Action.
LEMMA ServeIsRequest ==
    ASSUME request \in Requests, Within(request), Serve
    PROVE  [AnyRequest]_tables
  <1> USE RequestShape DEF Underway, Guarded, NotApplied, tables, AnyRequest, Within, ClientEdits
  <1>1. CASE CreateClient
    BY <1>1 DEF CreateClient, ElsewhereClients
  <1>2. CASE UpdateClient
    BY <1>2 DEF UpdateClient, ElsewhereClients
  <1>3. CASE UpdateClientFromRow
    BY <1>3 DEF UpdateClientFromRow
  <1>4. CASE ChangeClientStatus
    BY <1>4 DEF ChangeClientStatus, ElsewhereClients
  <1>5. CASE DeleteClient
    BY <1>5 DEF DeleteClient, ElsewhereClients
  <1>6. CASE AddContact
    BY <1>6 DEF AddContact, ElsewhereContacts
  <1>7. CASE UpdateContact
    BY <1>7 DEF UpdateContact, ContactExists, ElsewhereContacts
  <1>8. CASE DeleteContact
    BY <1>8 DEF DeleteContact, ContactExists, ElsewhereContacts
  <1>9. CASE AddInteraction
    BY <1>9 DEF AddInteraction, ElsewhereInteractions
  <1>10. CASE UpdateInteraction
    BY <1>10 DEF UpdateInteraction, InteractionExists, ElsewhereInteractions
  <1>11. CASE DeleteInteraction
    BY <1>11 DEF DeleteInteraction, InteractionExists, ElsewhereInteractions
  <1>12. CASE CallFails
    BY <1>12 DEF CallFails
  <1> QED  BY <1>1, <1>2, <1>3, <1>4, <1>5, <1>6, <1>7, <1>8, <1>9, <1>10, <1>11, <1>12 DEF Serve

\* Whatever the pages load, open, submit and leave, what the tab does to the
\* tables is a request that anybody may make of the clients routes
\* (actions.ts:33-245, ClientEndpoints.cs:37-62): no control sends what another
\* caller of the API would not be answered as well.
THEOREM TabIsACaller == Spec => RequestsSpec
  <1> DEFINE I == Within(request) /\ FormsWithin
  <1>1. Init => EmptyTables /\ I
    BY DEF Init, SessionInit, DetailInit, RowsUnmounted, Unmounted, Closed, NoRow,
       NoRequest, ClientEdits, Within, FormsWithin
  <1>2. PagesInv /\ I /\ [Next]_vars => I'
    BY WithinStep
  <1>3. PagesInv /\ I /\ [Next]_vars => [AnyRequest]_tables
    <2> SUFFICES ASSUME PagesInv, I, [Next]_vars PROVE [AnyRequest]_tables
      OBVIOUS
    <2>1. CASE Serve
      BY <2>1, ServeIsRequest DEF PagesInv, RequestInv, RequestOK
    <2>2. CASE ListStep \/ DetailStep
      BY <2>2, ListSteps, DetailSteps
    <2>3. CASE Visit \/ AfterDelete \/ Elsewhere \/ UNCHANGED vars
      BY <2>3 DEF Visit, AfterDelete, VisitPage, Elsewhere, vars
    <2> QED  BY <2>1, <2>2, <2>3 DEF Next
  <1> HIDE DEF I
  <1>4. Spec => []I
    BY <1>1, <1>2, PagesInvariant, PTL DEF Spec
  <1> QED  BY <1>1, <1>3, <1>4, PagesInvariant, PTL DEF Spec, RequestsSpec
=============================================================================
