---------------------------- MODULE ClientStore ----------------------------
(***************************************************************************)
(* Infrastructure/Database/ClientStore.cs behind its routes                *)
(* (ClientEndpoints.cs) and the gate every route passes                    *)
(* (DatabaseGateFilter.cs).  Many callers, each with at most one request   *)
(* in flight, work on the shared tables of ClientTables.                   *)
(*                                                                         *)
(* A request is as many steps as it has moments another request can fall   *)
(* between: one per SQL command it sends (every command is its own         *)
(* autocommitted transaction on its own pooled connection), and two for a  *)
(* command that decides on the snapshot it took at its start and writes    *)
(* rows as they are later (READ COMMITTED: `insert ... where exists' and   *)
(* the transition's CTE chain).                                            *)
(*                                                                         *)
(* A caller edits what it loaded: an edit starts by reading the row (the   *)
(* `seen' field of its call, whose version is the request's                *)
(* expectedVersion) and may be submitted any time later.                   *)
(***************************************************************************)
EXTENDS ClientTables

CONSTANTS
    Caller,
    MaxVersion,     \* bound: no edit starts on a row at this version
    Op,             \* the operations the callers use
    Outages         \* whether a statement may fail for reasons outside the tables

AllOps == {"createClient", "updateClient", "changeStatus", "deleteClient",
           "addContact", "updateContact", "deleteContact",
           "addInteraction", "updateInteraction", "deleteInteraction"}

ASSUME CallerAssumption ==
    /\ MaxVersion \in Nat \ {0}
    /\ Op \subseteq AllOps
    /\ Outages \in BOOLEAN

VARIABLES
    pc,         \* where each caller's request stands
    call        \* the request, with what its caller loaded

vars == <<clients, history, contacts, interactions, pc, call>>

Answer == {"applied", "conflict", "duplicate", "notFound", "invalidReference", "unavailable"}
InFlight == {"submitted", "checked", "snapped", "clashed", "zeroRows", "rowFound"}

Idle == [op |-> "none"]

Calls ==
    {Idle}
    \cup [op: {"createClient"}, fields: Field]
    \cup [op: {"updateClient"}, client: Client, fields: Field, seen: ClientRow]
    \cup [op: {"changeStatus"}, client: Client, status: Status, reason: Reason \cup {None},
          prev: Status, seen: ClientRow]
    \cup [op: {"deleteClient"}, client: Client]
    \cup [op: {"addContact"}, client: Client, email: Email \cup {None}]
    \cup [op: {"updateContact"}, client: Client, contact: Contact,
          email: Email \cup {None}, seen: ContactRow]
    \cup [op: {"deleteContact"}, client: Client, contact: Contact]
    \cup [op: {"addInteraction"}, client: Client, contact: Contact \cup {None}]
    \cup [op: {"updateInteraction"}, client: Client, interaction: Interaction,
          contact: Contact \cup {None}, seen: InteractionRow]
    \cup [op: {"deleteInteraction"}, client: Client, interaction: Interaction]

TypeOK ==
    /\ TablesTypeOK
    /\ pc \in [Caller -> {"idle"} \cup InFlight \cup Answer]
    /\ call \in [Caller -> Calls]

Init ==
    /\ EmptyTables
    /\ pc = [w \in Caller |-> "idle"]
    /\ call = [w \in Caller |-> Idle]

(***************************************************************************)
(* The caller's side.                                                      *)
(***************************************************************************)
Issue(w, request) ==
    /\ pc[w] = "idle"
    /\ request.op \in Op
    /\ pc' = [pc EXCEPT ![w] = "submitted"]
    /\ call' = [call EXCEPT ![w] = request]
    /\ UNCHANGED tables

\* Ids in a request are ids the API has given out.
KnownClients == {c \in Client : clients[c].life # "unborn"}
KnownContacts == {k \in Contact : contacts[k].life # "unborn"}
KnownInteractions == {i \in Interaction : interactions[i].life # "unborn"}

StartCreateClient(w) ==
    \E f \in Field : Issue(w, [op |-> "createClient", fields |-> f])

\* The caller has loaded a live row and can still edit it within the bound.
Editable(row) == row.life = "live" /\ row.version < MaxVersion

StartUpdateClient(w) ==
    \E c \in Client, f \in Field :
        /\ Editable(clients[c])
        /\ Issue(w, [op |-> "updateClient", client |-> c, fields |-> f, seen |-> clients[c]])

\* TryReadStatusChange: a lost reason is accepted with `lost' only.
StartChangeStatus(w) ==
    \E c \in Client, s \in Status, r \in Reason \cup {None} :
        /\ Editable(clients[c])
        /\ r # None => s = Lost
        /\ Issue(w, [op |-> "changeStatus", client |-> c, status |-> s, reason |-> r,
                     prev |-> Lead, seen |-> clients[c]])

StartDeleteClient(w) ==
    \E c \in KnownClients : Issue(w, [op |-> "deleteClient", client |-> c])

StartAddContact(w) ==
    \E c \in KnownClients, e \in Email \cup {None} :
        Issue(w, [op |-> "addContact", client |-> c, email |-> e])

StartUpdateContact(w) ==
    \E c \in KnownClients, k \in Contact, e \in Email \cup {None} :
        /\ Editable(contacts[k])
        /\ Issue(w, [op |-> "updateContact", client |-> c, contact |-> k,
                     email |-> e, seen |-> contacts[k]])

StartDeleteContact(w) ==
    \E c \in KnownClients, k \in KnownContacts :
        Issue(w, [op |-> "deleteContact", client |-> c, contact |-> k])

StartAddInteraction(w) ==
    \E c \in KnownClients, k \in KnownContacts \cup {None} :
        Issue(w, [op |-> "addInteraction", client |-> c, contact |-> k])

StartUpdateInteraction(w) ==
    \E c \in KnownClients, i \in Interaction, k \in KnownContacts \cup {None} :
        /\ Editable(interactions[i])
        /\ Issue(w, [op |-> "updateInteraction", client |-> c, interaction |-> i,
                     contact |-> k, seen |-> interactions[i]])

StartDeleteInteraction(w) ==
    \E c \in KnownClients, i \in KnownInteractions :
        Issue(w, [op |-> "deleteInteraction", client |-> c, interaction |-> i])

\* The caller reads the answer and closes the form.
Finish(w) ==
    /\ pc[w] \in Answer
    /\ pc' = [pc EXCEPT ![w] = "idle"]
    /\ call' = [call EXCEPT ![w] = Idle]
    /\ UNCHANGED tables

\* A form stays open after a 503 and its caller may submit it again unchanged.
Retry(w) ==
    /\ pc[w] = "unavailable"
    /\ pc' = [pc EXCEPT ![w] = "submitted"]
    /\ UNCHANGED <<tables, call>>

(***************************************************************************)
(* How a step leaves the request.                                          *)
(***************************************************************************)
At(w, label, op) == pc[w] = label /\ call[w].op = op

Goto(w, label) ==
    /\ pc' = [pc EXCEPT ![w] = label]
    /\ UNCHANGED call

\* A read-only step.
Reads(w, label) == Goto(w, label) /\ UNCHANGED tables

\* A committed write whose answer may be lost with the connection, which the
\* gate filter reports as a 503 although the write stands.
Committed(w) == Goto(w, "applied") \/ (Outages /\ Goto(w, "unavailable"))

\* A statement fails before it commits: connection, timeout, restart.  The gate
\* filter maps every NpgsqlException to 503.
Fail(w) ==
    /\ Outages
    /\ pc[w] \in InFlight
    /\ Reads(w, "unavailable")

(***************************************************************************)
(* Clients.                                                                *)
(***************************************************************************)
CreateClient(w) ==
    /\ At(w, "submitted", "createClient")
    /\ \E c \in Client : InsertClient(c, call[w].fields)
    /\ Committed(w)

\* Slip: where id = @id, without the version.
UpdateClientBlindly(w) ==
    LET c == call[w].client IN
    /\ At(w, "submitted", "updateClient")
    /\ IF ClientExists(c)
       THEN ReplaceFields(c, call[w].fields) /\ Committed(w)
       ELSE Reads(w, "zeroRows")

\* update clients ... where id = @id and version = @expected
UpdateClient(w) ==
    LET c == call[w].client IN
    /\ At(w, "submitted", "updateClient")
    /\ IF ClientExists(c) /\ clients[c].version = call[w].seen.version
       THEN ReplaceFields(c, call[w].fields) /\ Committed(w)
       ELSE Reads(w, "zeroRows")

\* The CTE chain starts: `prev' and the where clause see this snapshot.
SnapshotStatus(w) ==
    LET c == call[w].client IN
    /\ At(w, "submitted", "changeStatus")
    /\ UNCHANGED tables
    /\ IF ClientExists(c) /\ clients[c].version = call[w].seen.version
       THEN /\ pc' = [pc EXCEPT ![w] = "snapped"]
            /\ call' = [call EXCEPT ![w].prev = clients[c].status]
       ELSE Goto(w, "zeroRows")

\* Slip: the version is compared in `prev' only, not in the update.
ChangeStatusUnguarded(w) ==
    LET c == call[w].client IN
    /\ At(w, "snapped", "changeStatus")
    /\ IF ClientExists(c)
       THEN /\ MoveStatus(c, call[w].status, call[w].reason, call[w].prev)
            /\ Committed(w)
       ELSE Reads(w, "zeroRows")

\* The update gets the row lock and the where clause is evaluated again on the
\* row as it is now; the history row takes from_status from the snapshot.
ChangeStatus(w) ==
    LET c == call[w].client IN
    /\ At(w, "snapped", "changeStatus")
    /\ IF ClientExists(c) /\ clients[c].version = call[w].seen.version
       THEN /\ MoveStatus(c, call[w].status, call[w].reason, call[w].prev)
            /\ Committed(w)
       ELSE Reads(w, "zeroRows")

\* ClientExistsAsync after zero rows: tells 409 from 404.
DisambiguateClient(w) ==
    /\ pc[w] = "zeroRows"
    /\ call[w].op \in {"updateClient", "changeStatus"}
    /\ Reads(w, IF ClientExists(call[w].client) THEN "conflict" ELSE "notFound")

\* Slip: client_status_history is emptied by a command of its own, later.
DeleteClientRowOnly(w) ==
    LET c == call[w].client IN
    /\ At(w, "submitted", "deleteClient")
    /\ IF ClientExists(c)
       THEN /\ clients' = [clients EXCEPT ![c] = NoClientRow("gone")]
            /\ UNCHANGED <<history, contacts, interactions>>
            /\ Committed(w)
       ELSE Reads(w, "notFound")

DeleteClient(w) ==
    /\ At(w, "submitted", "deleteClient")
    /\ IF ClientExists(call[w].client)
       THEN CascadeClient(call[w].client) /\ Committed(w)
       ELSE Reads(w, "notFound")

(***************************************************************************)
(* Contacts.                                                               *)
(***************************************************************************)

\* CheckContactAsync: an advisory read; the unique index is what decides.
CheckNewContact(w) ==
    /\ At(w, "submitted", "addContact")
    /\ Reads(w, IF EmailTaken(call[w].client, call[w].email, None)
                THEN "duplicate" ELSE "checked")

\* insert ... select ... where exists (client): the snapshot of the exists.
SnapshotNewContact(w) ==
    /\ At(w, "checked", "addContact")
    /\ Reads(w, IF ClientExists(call[w].client) THEN "snapped" ELSE "notFound")

\* Slip: no contacts_client_email_uniq, the advisory read decides.
AddContactUnindexed(w) ==
    LET c == call[w].client IN
    /\ At(w, "snapped", "addContact")
    /\ \/ ~ClientExists(c) /\ Reads(w, "unavailable")
       \/ /\ ClientExists(c)
          /\ \E k \in Contact : InsertContact(c, k, call[w].email)
          /\ Committed(w)

\* The row goes in: contacts_client_email_uniq first (23505, a 409), then the
\* foreign key (23503, a 503) should the client be gone since the snapshot.
AddContact(w) ==
    LET c == call[w].client IN
    /\ At(w, "snapped", "addContact")
    /\ \/ /\ EmailTaken(c, call[w].email, None)
          /\ Reads(w, "duplicate")
       \/ /\ ~EmailTaken(c, call[w].email, None)
          /\ ~ClientExists(c)
          /\ Reads(w, "unavailable")
       \/ /\ ~EmailTaken(c, call[w].email, None)
          /\ ClientExists(c)
          /\ \E k \in Contact : InsertContact(c, k, call[w].email)
          /\ Committed(w)

CheckEditedContact(w) ==
    /\ At(w, "submitted", "updateContact")
    /\ Reads(w, IF EmailTaken(call[w].client, call[w].email, call[w].contact)
                THEN "clashed" ELSE "checked")

\* A sibling holds the email: 409 only if the edited contact is there at all.
DisambiguateClash(w) ==
    /\ At(w, "clashed", "updateContact")
    /\ Reads(w, IF ContactExists(call[w].client, call[w].contact)
                THEN "duplicate" ELSE "notFound")

\* Slip: where id and client_id match, without the version.
UpdateContactBlindly(w) ==
    LET k == call[w].contact
        taken == EmailTaken(call[w].client, call[w].email, k) IN
    /\ At(w, "checked", "updateContact")
    /\ \/ ~ContactExists(call[w].client, k) /\ Reads(w, "zeroRows")
       \/ ContactExists(call[w].client, k) /\ taken /\ Reads(w, "duplicate")
       \/ /\ ContactExists(call[w].client, k) /\ ~taken
          /\ ReplaceContact(k, call[w].email) /\ Committed(w)

\* update contacts ... where id, client_id and version match
UpdateContact(w) ==
    LET k == call[w].contact
        matches == /\ ContactExists(call[w].client, k)
                   /\ contacts[k].version = call[w].seen.version
        taken == EmailTaken(call[w].client, call[w].email, k) IN
    /\ At(w, "checked", "updateContact")
    /\ \/ ~matches /\ Reads(w, "zeroRows")
       \/ matches /\ taken /\ Reads(w, "duplicate")
       \/ matches /\ ~taken /\ ReplaceContact(k, call[w].email) /\ Committed(w)

DisambiguateContact(w) ==
    /\ At(w, "zeroRows", "updateContact")
    /\ Reads(w, IF ContactExists(call[w].client, call[w].contact)
                THEN "conflict" ELSE "notFound")

DeleteContact(w) ==
    /\ At(w, "submitted", "deleteContact")
    /\ IF ContactExists(call[w].client, call[w].contact)
       THEN DetachContact(call[w].contact) /\ Committed(w)
       ELSE Reads(w, "notFound")

(***************************************************************************)
(* Interactions.                                                           *)
(***************************************************************************)

\* A contact_id foreign key is checked against the rows as they are now.
ContactRefHolds(k) == k # None => contacts[k].life = "live"

SnapshotNewInteraction(w) ==
    /\ At(w, "submitted", "addInteraction")
    /\ Reads(w, IF ClientExists(call[w].client) /\ ContactRefOK(call[w].client, call[w].contact)
                THEN "snapped" ELSE "zeroRows")

AddInteraction(w) ==
    LET c == call[w].client
        keysHold == ClientExists(c) /\ ContactRefHolds(call[w].contact) IN
    /\ At(w, "snapped", "addInteraction")
    /\ \/ ~keysHold /\ Reads(w, "unavailable")
       \/ /\ keysHold
          /\ \E i \in Interaction : InsertInteraction(c, i, call[w].contact)
          /\ Committed(w)

DisambiguateNewInteraction(w) ==
    /\ At(w, "zeroRows", "addInteraction")
    /\ Reads(w, IF ClientExists(call[w].client) THEN "invalidReference" ELSE "notFound")

\* Slip: the where clause of update interactions without the version.
InteractionPresent(w) == InteractionExists(call[w].client, call[w].interaction)

\* The row that update interactions ... where id, client_id, version matches.
InteractionMatches(w) ==
    /\ InteractionExists(call[w].client, call[w].interaction)
    /\ interactions[call[w].interaction].version = call[w].seen.version

SnapshotInteraction(w) ==
    /\ At(w, "submitted", "updateInteraction")
    /\ Reads(w, IF InteractionMatches(w) /\ ContactRefOK(call[w].client, call[w].contact)
                THEN "snapped" ELSE "zeroRows")

UpdateInteraction(w) ==
    /\ At(w, "snapped", "updateInteraction")
    /\ \/ ~InteractionMatches(w) /\ Reads(w, "zeroRows")
       \/ /\ InteractionMatches(w)
          /\ ~ContactRefHolds(call[w].contact)
          /\ Reads(w, "unavailable")
       \/ /\ InteractionMatches(w)
          /\ ContactRefHolds(call[w].contact)
          /\ ReplaceInteraction(call[w].interaction, call[w].contact)
          /\ Committed(w)

\* Slip: the row is there, so the version must be what differs.
AssumeInteractionConflict(w) ==
    /\ At(w, "zeroRows", "updateInteraction")
    /\ Reads(w, IF InteractionExists(call[w].client, call[w].interaction)
                THEN "conflict" ELSE "notFound")

\* Zero rows, told apart in order: the row is gone, else a contact to check ...
DisambiguateInteraction(w) ==
    /\ At(w, "zeroRows", "updateInteraction")
    /\ Reads(w, IF ~InteractionExists(call[w].client, call[w].interaction) THEN "notFound"
                ELSE IF call[w].contact = None THEN "conflict" ELSE "rowFound")

\* Slip: the row is there and names a contact, so the contact must be wrong.
AssumeBadContact(w) ==
    /\ At(w, "rowFound", "updateInteraction")
    /\ Reads(w, "invalidReference")

\* ... is not this client's, else somebody else's edit.
DisambiguateContactRef(w) ==
    /\ At(w, "rowFound", "updateInteraction")
    /\ Reads(w, IF ContactExists(call[w].client, call[w].contact)
                THEN "conflict" ELSE "invalidReference")

DeleteInteraction(w) ==
    /\ At(w, "submitted", "deleteInteraction")
    /\ IF InteractionExists(call[w].client, call[w].interaction)
       THEN DropInteraction(call[w].interaction) /\ Committed(w)
       ELSE Reads(w, "notFound")

(***************************************************************************)
(* Specification.                                                          *)
(***************************************************************************)
Start(w) ==
    \/ StartCreateClient(w) \/ StartUpdateClient(w) \/ StartChangeStatus(w)
    \/ StartDeleteClient(w) \/ StartAddContact(w) \/ StartUpdateContact(w)
    \/ StartDeleteContact(w) \/ StartAddInteraction(w)
    \/ StartUpdateInteraction(w) \/ StartDeleteInteraction(w)

ClientStep(w) ==
    \/ CreateClient(w) \/ UpdateClient(w) \/ SnapshotStatus(w) \/ ChangeStatus(w)
    \/ DisambiguateClient(w) \/ DeleteClient(w)

ContactStep(w) ==
    \/ CheckNewContact(w) \/ SnapshotNewContact(w) \/ AddContact(w)
    \/ CheckEditedContact(w) \/ DisambiguateClash(w) \/ UpdateContact(w)
    \/ DisambiguateContact(w) \/ DeleteContact(w)

InteractionStep(w) ==
    \/ SnapshotNewInteraction(w) \/ AddInteraction(w) \/ DisambiguateNewInteraction(w)
    \/ SnapshotInteraction(w) \/ UpdateInteraction(w) \/ DisambiguateInteraction(w)
    \/ DisambiguateContactRef(w) \/ DeleteInteraction(w)

Next ==
    \E w \in Caller :
        \/ Start(w) \/ Finish(w) \/ Retry(w) \/ Fail(w)
        \/ ClientStep(w) \/ ContactStep(w) \/ InteractionStep(w)

Spec == Init /\ [][Next]_vars

(***************************************************************************)
(* What it promises its callers about the rows they edit: VersionedRows.   *)
(***************************************************************************)
Held == [w \in Caller |->
           IF call[w].op \in {"updateClient", "changeStatus"}
           THEN [key |-> call[w].client, row |-> call[w].seen]
           ELSE None]

Rows == INSTANCE VersionedRows
            WITH Key <- Client, Editor <- Caller, Nothing <- None, row <- clients, held <- Held

\* The requests of any number of callers on the clients, each several commands
\* long and each of which may fail or lose its answer half way, look as if
\* rows were replaced in single steps by whoever holds them as they are.
ImplementsVersionedRows == Rows!Spec

Whole == INSTANCE OtherCallers WITH MaxClientVersion <- MaxVersion, MaxChildVersion <- MaxVersion

\* Whatever the commands of how many requests fall between each other, and which
\* of them fail or are submitted again, the tables change as if every request
\* were one step that is decided on the rows as they are: what a statement took
\* from its snapshot (the status left, the client's contact to link) still holds
\* when it writes.
ImplementsWholeRequests == Whole!RequestsSpec

(***************************************************************************)
(* Safety: what the tables say.                                            *)
(***************************************************************************)

\* The history of a client is one unbroken chain of transitions from `lead' to
\* the status the row has now: no transition is missing, none is recorded that
\* did not happen (a conflict records nothing), and each from_status is the
\* status the transition really left although the statement read it from its
\* snapshot.  ChangeStatusAsync.
HistoryIsAChain ==
    \A c \in Client :
        LET h == history[c] IN
        /\ \A j \in 1..Len(h) : h[j].from = IF j = 1 THEN Lead ELSE h[j-1].to
        /\ clients[c].status = IF Len(h) = 0 THEN Lead ELSE h[Len(h)].to

\* acquired_at is null until the first recorded transition to active_client and
\* is that transition's date ever after, whatever the client becomes later.
AcquiredAtFirstActivation ==
    \A c \in Client :
        LET h == history[c]
            activations == {j \in 1..Len(h) : h[j].to = ActiveClient}
            acquired == clients[c].acquiredAt IN
        /\ acquired = 0 <=> activations = {}
        /\ acquired # 0 => \E j \in activations :
                              h[j].at = acquired /\ \A i \in activations : j <= i

\* clients_lost_reason_shape: no sequence of edits and transitions leaves a
\* lost reason on a client that is not lost (migration 0002 says why PATCH and
\* the status route together keep the CHECK out of reach).
LostReasonShape ==
    \A c \in Client : clients[c].lostReason # None => clients[c].status = Lost

\* No two contacts of one client share an email, although AddContactAsync and
\* UpdateContactAsync check first and write later.
OneContactPerEmail ==
    \A k, m \in Contact :
        /\ contacts[k].life = "live" /\ contacts[m].life = "live"
        /\ contacts[k].client = contacts[m].client
        /\ contacts[k].email = contacts[m].email /\ contacts[k].email # None
        => k = m

\* A delete racing the inserts of children leaves no contact, interaction or
\* history row of a client that is gone.
NoOrphans ==
    /\ \A k \in Contact : contacts[k].life = "live" => ClientExists(contacts[k].client)
    /\ \A i \in Interaction : interactions[i].life = "live" => ClientExists(interactions[i].client)
    /\ \A c \in Client : ~ClientExists(c) => history[c] = <<>>

\* An interaction links only to a live contact of its own client.  The foreign
\* key alone does not say so: it accepts the contact of any client.
ContactIsOwn ==
    \A i \in Interaction :
        interactions[i].contact # None =>
            ContactExists(interactions[i].client, interactions[i].contact)

(***************************************************************************)
(* Safety: what a step may do.                                             *)
(***************************************************************************)

\* Caller w's request, one of ops, is the one that takes this step.
Acts(w, ops) == call[w].op \in ops /\ pc'[w] # pc[w]

\* A client row is replaced only by a request whose caller had loaded exactly
\* the row that is replaced: no edit and no transition of anybody else is
\* overwritten unseen, and an edit submitted again after a 503 that had been
\* applied is not applied twice.
NoLostClientEdit ==
    [][\A c \in Client :
          (clients[c].life = "live" /\ clients'[c].life = "live" /\ clients'[c] # clients[c])
          => \E w \in Caller :
                /\ Acts(w, {"updateClient", "changeStatus"})
                /\ call[w].client = c
                /\ call[w].seen = clients[c]]_vars

\* The same for contacts, and through the route of the contact's own client.
NoLostContactEdit ==
    [][\A k \in Contact :
          (contacts[k].life = "live" /\ contacts'[k].life = "live" /\ contacts'[k] # contacts[k])
          => \E w \in Caller :
                /\ Acts(w, {"updateContact"})
                /\ call[w].contact = k
                /\ call[w].client = contacts[k].client
                /\ call[w].seen = contacts[k]]_vars

\* An interaction is replaced only by a request whose caller had loaded it as
\* it is, except that its contact may have been deleted since: on delete set
\* null clears the link without a new version, and nothing else does.
NoLostInteractionEdit ==
    [][\A i \in Interaction :
          (interactions[i].life = "live" /\ interactions'[i].life = "live"
           /\ interactions'[i] # interactions[i])
          => \/ /\ interactions'[i] = [interactions[i] EXCEPT !.contact = None]
                /\ contacts'[interactions[i].contact].life = "gone"
             \/ \E w \in Caller :
                   /\ Acts(w, {"updateInteraction"})
                   /\ call[w].interaction = i
                   /\ call[w].client = interactions[i].client
                   /\ interactions[i] \in {call[w].seen, [call[w].seen EXCEPT !.contact = None]}]_vars

\* The row a version-guarded request is about.
TargetRow(request) ==
    CASE request.op \in {"updateClient", "changeStatus"} -> clients[request.client]
      [] request.op = "updateContact" -> contacts[request.contact]
      [] request.op = "updateInteraction" -> interactions[request.interaction]

\* A 409 "changed by someone else" is told only when somebody did change the
\* row: it is there and has moved past the version the caller loaded or (an
\* interaction, whose zero rows take two queries to explain) it is gone by now.  The statement that
\* found nothing and the queries that explain it are not one transaction, and
\* still a bad contact reference never masquerades as a version conflict.
ConflictIsReal ==
    [][\A w \in Caller :
          (pc'[w] = "conflict" /\ pc[w] # "conflict")
          => \/ call[w].op = "updateInteraction" /\ TargetRow(call[w]).life = "gone"
             \/ TargetRow(call[w]).version > call[w].seen.version]_vars

\* "That contact doesn't belong to this client" is told only when it does not,
\* also when the contact was valid at the time the caller picked it.
InvalidReferenceIsReal ==
    [][\A w \in Caller :
          (pc'[w] = "invalidReference" /\ pc[w] # "invalidReference")
          => /\ call[w].contact # None
             /\ ~ContactExists(call[w].client, call[w].contact)]_vars
=============================================================================
