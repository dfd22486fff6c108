---------------------------- MODULE ClientActions ----------------------------
(***************************************************************************)
(* The Server Actions of the clients pages (clients/actions.ts) over       *)
(* callBackend (lib/backend.ts), for one browser tab, and the API they     *)
(* reach, which everybody else works on at the same time.                  *)
(*                                                                         *)
(* A tab has one action in flight (isPending disables its controls), so    *)
(* its request and what came of it are two variables.  The API applies a   *)
(* request in one step: ClientStore implements VersionedRows.  Other tabs, *)
(* users and assistants are the actions of OtherCallers.                   *)
(*                                                                         *)
(* The columns PATCH replaces are those the list row edits (name, industry *)
(* and location: `name'), those only the client's own page edits (website, *)
(* whatTheyDo, notes, source: `rest') and the owner.                       *)
(***************************************************************************)
EXTENDS OtherCallers

CONSTANTS
    Name, Rest,         \* texts of the two groups of columns
    Me, Owner,          \* who uses this tab, and the Clerk subjects owners are of
    List                \* the route /clients; a client stands for /clients/[id]

ASSUME PageAssumption ==
    /\ Field = [name: Name, rest: Rest \cup {None}, owner: Owner \cup {None}] /\ Me \in Owner
    /\ List \notin Client

VARIABLES
    route,      \* the page the tab is on
    request,    \* the Server Action in flight, with what its form was opened on
    result,     \* its ApiResult
    failure     \* the failure banner of the page

session == <<route, request, result, failure>>

Result == {"none", "ok", "conflict", "refused", "refreshing"}

NoRequest == [op |-> "none"]

\* `seen' is the row the form was populated from, `from' the control that
\* submitted it, `chosen' the row on screen when the status was picked, `touched'
\* whether the user used the contact select and `offered' whether it had the
\* linked contact among its options when the form opened.
Requests ==
    {NoRequest}
    \cup [op: {"createClient"}, fields: Field]
    \cup [op: {"updateClient"}, client: Client, fields: Field, version: Nat,
          seen: ClientRow, from: {"form", "owner", "row"}]
    \cup [op: {"updateClientFromRow"}, client: Client, name: Name, version: Nat, seen: ClientRow]
    \cup [op: {"changeClientStatus"}, client: Client, status: Status,
          reason: Reason \cup {None}, version: Nat, seen: ClientRow, chosen: ClientRow]
    \cup [op: {"deleteClient"}, client: Client]
    \cup [op: {"addContact"}, client: Client, email: Email \cup {None}]
    \cup [op: {"updateContact"}, client: Client, contact: Contact, email: Email \cup {None},
          version: Nat, seen: ContactRow]
    \cup [op: {"deleteContact"}, client: Client, contact: Contact]
    \cup [op: {"addInteraction"}, client: Client, contact: Contact \cup {None}]
    \cup [op: {"updateInteraction"}, client: Client, interaction: Interaction,
          contact: Contact \cup {None}, version: Nat, seen: InteractionRow,
          touched: BOOLEAN, offered: BOOLEAN]
    \cup [op: {"deleteInteraction"}, client: Client, interaction: Interaction]

\* Some rows of a table, as a page holds them.
RowsOf(rows, Id, Row) == DOMAIN rows \subseteq Id /\ \A x \in DOMAIN rows : rows[x] \in Row

SessionTypeOK ==
    /\ TablesTypeOK
    /\ route \in Client \cup {List}
    /\ request \in Requests
    /\ result \in Result
    /\ failure \in {"none", "conflict", "refused"}

SessionInit ==
    /\ EmptyTables
    /\ route = List
    /\ request = NoRequest
    /\ result = "none"
    /\ failure = "none"

IsPending == request # NoRequest

\* startTransition(async () => { reset(); const result = await action(...) })
Submit(r) ==
    /\ ~IsPending
    /\ request' = r
    /\ result' = "none"
    /\ failure' = "none"
    /\ UNCHANGED <<tables, route>>

(***************************************************************************)
(* callBackend.                                                            *)
(***************************************************************************)
Underway(op) == request.op = op /\ result = "none"

Answered(r) ==
    /\ result' = r
    /\ UNCHANGED <<route, request, failure>>

\* A write took effect; the tab may still be told that it failed: a 503 of the
\* gate filter, a gateway timeout, a connection that breaks before the answer.
Applied == Answered("ok") \/ Answered("refused")

NotApplied(r) == Answered(r) /\ UNCHANGED tables

\* No token (401), no connection (status 0), or an answer that is neither 2xx
\* nor about the row: nothing was changed.
CallFails ==
    /\ IsPending /\ result = "none"
    /\ NotApplied("refused")

\* A write guarded by expectedVersion: applied, 409 or 404.
Guarded(exists, matches, Write) ==
    \/ exists /\ matches /\ Write /\ Applied
    \/ exists /\ ~matches /\ NotApplied("conflict")
    \/ ~exists /\ NotApplied("refused")

(***************************************************************************)
(* The Server Actions, each with what the API does for it.                 *)
(***************************************************************************)
CreateClient ==
    /\ Underway("createClient")
    /\ \E c \in Client : InsertClient(c, request.fields)
    /\ Applied

UpdateClient ==
    LET c == request.client IN
    /\ Underway("updateClient")
    /\ Guarded(ClientExists(c), clients[c].version = request.version,
               ReplaceFields(c, request.fields))

\* Slip: the columns a list row does not show are sent as nulls.
UpdateClientFromRowWiping ==
    LET c == request.client IN
    /\ Underway("updateClientFromRow")
    /\ UNCHANGED <<tables, route, result, failure>>
    /\ request' = [op |-> "updateClient", client |-> c, version |-> request.version,
                   fields |-> [name |-> request.name, rest |-> None, owner |-> None],
                   seen |-> request.seen, from |-> "row"]

\* Reads the current values of the columns the row does not show, then goes on
\* as updateClient with the caller's version.
UpdateClientFromRow ==
    LET c == request.client IN
    /\ Underway("updateClientFromRow")
    /\ IF ClientExists(c)
       THEN /\ request' = [op |-> "updateClient", client |-> c, version |-> request.version,
                           fields |-> [clients[c].fields EXCEPT !.name = request.name],
                           seen |-> request.seen, from |-> "row"]
            /\ UNCHANGED <<tables, route, result, failure>>
       ELSE NotApplied("refused")

ChangeClientStatus ==
    LET c == request.client IN
    /\ Underway("changeClientStatus")
    /\ Guarded(ClientExists(c), clients[c].version = request.version,
               MoveStatus(c, request.status, request.reason, clients[c].status))

DeleteClient ==
    /\ Underway("deleteClient")
    /\ \/ ClientExists(request.client) /\ CascadeClient(request.client) /\ Applied
       \/ ~ClientExists(request.client) /\ NotApplied("refused")

\* A duplicate email is a 409 too.
AddContact ==
    LET c == request.client
        taken == EmailTaken(c, request.email, None) IN
    /\ Underway("addContact")
    /\ \/ ~ClientExists(c) /\ NotApplied("refused")
       \/ taken /\ NotApplied("conflict")
       \/ /\ ClientExists(c) /\ ~taken
          /\ \E k \in Contact : InsertContact(c, k, request.email)
          /\ Applied

UpdateContact ==
    LET c == request.client
        k == request.contact IN
    /\ Underway("updateContact")
    /\ Guarded(ContactExists(c, k),
               contacts[k].version = request.version /\ ~EmailTaken(c, request.email, k),
               ReplaceContact(k, request.email))

DeleteContact ==
    LET there == ContactExists(request.client, request.contact) IN
    /\ Underway("deleteContact")
    /\ \/ there /\ DetachContact(request.contact) /\ Applied
       \/ ~there /\ NotApplied("refused")

AddInteraction ==
    LET c == request.client
        holds == ClientExists(c) /\ ContactRefOK(c, request.contact) IN
    /\ Underway("addInteraction")
    /\ \/ ~holds /\ NotApplied("refused")
       \/ /\ holds
          /\ \E i \in Interaction : InsertInteraction(c, i, request.contact)
          /\ Applied

UpdateInteraction ==
    LET c == request.client
        i == request.interaction IN
    /\ Underway("updateInteraction")
    /\ Guarded(InteractionExists(c, i) /\ ContactRefOK(c, request.contact),
               interactions[i].version = request.version,
               ReplaceInteraction(i, request.contact))

DeleteInteraction ==
    LET there == InteractionExists(request.client, request.interaction) IN
    /\ Underway("deleteInteraction")
    /\ \/ there /\ DropInteraction(request.interaction) /\ Applied
       \/ ~there /\ NotApplied("refused")

Serve ==
    \/ CreateClient \/ UpdateClient \/ UpdateClientFromRow
    \/ ChangeClientStatus \/ DeleteClient
    \/ AddContact \/ UpdateContact \/ DeleteContact
    \/ AddInteraction \/ UpdateInteraction \/ DeleteInteraction
    \/ CallFails

\* Everybody else, while this tab waits or rests.
Elsewhere ==
    /\ AnyRequest
    /\ UNCHANGED session
=============================================================================
