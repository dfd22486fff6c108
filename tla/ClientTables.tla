---------------------------- MODULE ClientTables ----------------------------
(***************************************************************************)
(* The four client tables as the migrations create them (0001 to 0003),    *)
(* the effect of each mutating SQL statement on them, and the referential  *)
(* actions Postgres runs with it.  Rows are identified by UUIDs that are   *)
(* never reused, so a row's life is one-way: unborn, live, gone.           *)
(*                                                                         *)
(* Data is abstracted to what the properties tell apart.  `fields' stands  *)
(* for all the columns PATCH replaces (name, industry, ..., owner).  The   *)
(* two dates that matter, clients.acquired_at and history.changed_at, are  *)
(* the version the row got in the statement that took the date: both are   *)
(* now() of that statement and versions order a client's statements.       *)
(***************************************************************************)
EXTENDS Integers, Sequences

CONSTANTS
    Client, Contact, Interaction,   \* the UUIDs of the rows of each table
    Field,                          \* values of the columns PATCH replaces
    Email,                          \* addresses, equal when lower(email) is
    Status, Lead, ActiveClient, Lost,
    Reason,                         \* texts for lost_reason
    None                            \* SQL null

ASSUME StatusAssumption ==
    /\ {Lead, ActiveClient, Lost} \subseteq Status
    /\ Lead # ActiveClient /\ Lead # Lost /\ ActiveClient # Lost

ASSUME NoneAssumption ==
    /\ None \notin Client /\ None \notin Contact /\ None \notin Interaction
    /\ None \notin Field /\ None \notin Email /\ None \notin Status /\ None \notin Reason

VARIABLES
    clients,        \* table clients: Client -> row
    history,        \* table client_status_history: Client -> its rows, oldest first
    contacts,       \* table contacts: Contact -> row
    interactions    \* table interactions: Interaction -> row

tables == <<clients, history, contacts, interactions>>

Life == {"unborn", "live", "gone"}

ClientRow == [life: Life, version: Nat, fields: Field \cup {None},
              status: Status, acquiredAt: Nat, lostReason: Reason \cup {None}]

HistoryRow == [from: Status, to: Status, at: Nat]

ContactRow == [life: Life, version: Nat, client: Client \cup {None},
               email: Email \cup {None}]

InteractionRow == [life: Life, version: Nat, client: Client \cup {None},
                   contact: Contact \cup {None}]

TablesTypeOK ==
    /\ clients \in [Client -> ClientRow]
    /\ history \in [Client -> Seq(HistoryRow)]
    /\ contacts \in [Contact -> ContactRow]
    /\ interactions \in [Interaction -> InteractionRow]

(***************************************************************************)
(* Rows that are not there.                                                *)
(***************************************************************************)
NoClientRow(life) ==
    [life |-> life, version |-> 0, fields |-> None,
     status |-> Lead, acquiredAt |-> 0, lostReason |-> None]

NoContactRow(life) ==
    [life |-> life, version |-> 0, client |-> None, email |-> None]

NoInteractionRow(life) ==
    [life |-> life, version |-> 0, client |-> None, contact |-> None]

EmptyTables ==
    /\ clients = [c \in Client |-> NoClientRow("unborn")]
    /\ history = [c \in Client |-> <<>>]
    /\ contacts = [k \in Contact |-> NoContactRow("unborn")]
    /\ interactions = [i \in Interaction |-> NoInteractionRow("unborn")]

(***************************************************************************)
(* What a where clause can ask.                                            *)
(***************************************************************************)
ClientExists(c) == clients[c].life = "live"

ContactExists(c, k) == contacts[k].life = "live" /\ contacts[k].client = c

InteractionExists(c, i) ==
    interactions[i].life = "live" /\ interactions[i].client = c

\* Another contact of client c holds email e; `excluding' is None or a contact.
EmailTaken(c, e, excluding) ==
    /\ e # None
    /\ \E k \in Contact :
          ContactExists(c, k) /\ contacts[k].email = e /\ k # excluding

\* Slip: the exists asks for the contact's id and forgets its client_id.
ContactRefAnyClient(c, k) == k # None => contacts[k].life = "live"

\* "@contactId is null or exists (...)": the contact an interaction names is
\* one of this client's.
ContactRefOK(c, k) == k # None => ContactExists(c, k)

(***************************************************************************)
(* The mutating statements.                                                *)
(***************************************************************************)
\* version = version + 1, in every update of a versioned row.
Bump(row) == [row EXCEPT !.version = @ + 1]

\* Slip: 0002 adds the status column without its default.
InsertClientNoDefault(c, f) ==
    /\ clients[c].life = "unborn"
    /\ clients' = [clients EXCEPT ![c] =
                     [life |-> "live", version |-> 1, fields |-> f, status |-> None,
                      acquiredAt |-> 0, lostReason |-> None]]
    /\ UNCHANGED <<history, contacts, interactions>>

InsertClient(c, f) ==
    /\ clients[c].life = "unborn"
    /\ clients' = [clients EXCEPT ![c] =
                     [life |-> "live", version |-> 1, fields |-> f, status |-> Lead,
                      acquiredAt |-> 0, lostReason |-> None]]
    /\ UNCHANGED <<history, contacts, interactions>>

ReplaceFields(c, f) ==
    /\ clients' = [clients EXCEPT ![c] = Bump([@ EXCEPT !.fields = f])]
    /\ UNCHANGED <<history, contacts, interactions>>

\* Slip: current_date without the coalesce.
AcquiredAfterAgain(row, s) == IF s = ActiveClient THEN row.version + 1 ELSE row.acquiredAt

\* coalesce(acquired_at, current_date), only for a move to active_client
AcquiredAfter(row, s) ==
    IF s = ActiveClient /\ row.acquiredAt = 0 THEN row.version + 1 ELSE row.acquiredAt

\* case when @status = 'lost' then @lostReason else null end
ReasonAfter(s, r) == IF s = Lost THEN r ELSE None

\* Slip: coalesce(@lostReason, lost_reason) in place of the case.
MoveStatusKeepingReason(c, s, r, prev) ==
    /\ clients' = [clients EXCEPT ![c] =
                     [life |-> "live", version |-> @.version + 1, fields |-> @.fields,
                      status |-> s, acquiredAt |-> AcquiredAfter(@, s),
                      lostReason |-> IF r = None THEN @.lostReason ELSE r]]
    /\ history' = [history EXCEPT ![c] =
                     Append(@, [from |-> prev, to |-> s, at |-> clients[c].version + 1])]
    /\ UNCHANGED <<contacts, interactions>>

\* The CTE chain: `changed' moves the row, `recorded' inserts the history row
\* with the from_status that `prev' read from the statement's snapshot.
MoveStatus(c, s, r, prev) ==
    /\ clients' = [clients EXCEPT ![c] =
                     [life |-> "live", version |-> @.version + 1, fields |-> @.fields,
                      status |-> s, acquiredAt |-> AcquiredAfter(@, s),
                      lostReason |-> ReasonAfter(s, r)]]
    /\ history' = [history EXCEPT ![c] =
                     Append(@, [from |-> prev, to |-> s, at |-> clients[c].version + 1])]
    /\ UNCHANGED <<contacts, interactions>>

\* Slip: interactions.client_id declared without on delete cascade or a check.
CascadeContactsOnly(c) ==
    /\ clients' = [clients EXCEPT ![c] = NoClientRow("gone")]
    /\ history' = [history EXCEPT ![c] = <<>>]
    /\ contacts' = [k \in Contact |->
                      IF ContactExists(c, k) THEN NoContactRow("gone") ELSE contacts[k]]
    /\ UNCHANGED interactions

\* delete from clients, with the three on delete cascade.
CascadeClient(c) ==
    /\ clients' = [clients EXCEPT ![c] = NoClientRow("gone")]
    /\ history' = [history EXCEPT ![c] = <<>>]
    /\ contacts' = [k \in Contact |->
                      IF ContactExists(c, k) THEN NoContactRow("gone") ELSE contacts[k]]
    /\ interactions' = [i \in Interaction |->
                      IF InteractionExists(c, i) THEN NoInteractionRow("gone") ELSE interactions[i]]

InsertContact(c, k, e) ==
    /\ contacts[k].life = "unborn"
    /\ contacts' = [contacts EXCEPT ![k] =
                      [life |-> "live", version |-> 1, client |-> c, email |-> e]]
    /\ UNCHANGED <<clients, history, interactions>>

ReplaceContact(k, e) ==
    /\ contacts' = [contacts EXCEPT ![k] = Bump([@ EXCEPT !.email = e])]
    /\ UNCHANGED <<clients, history, interactions>>

\* delete from contacts, with interactions.contact_id on delete set null.  The
\* referential action leaves interactions.version alone.
DetachContact(k) ==
    /\ contacts' = [contacts EXCEPT ![k] = NoContactRow("gone")]
    /\ interactions' = [i \in Interaction |->
                          IF interactions[i].contact = k
                          THEN [interactions[i] EXCEPT !.contact = None]
                          ELSE interactions[i]]
    /\ UNCHANGED <<clients, history>>

InsertInteraction(c, i, k) ==
    /\ interactions[i].life = "unborn"
    /\ interactions' = [interactions EXCEPT ![i] =
                          [life |-> "live", version |-> 1, client |-> c, contact |-> k]]
    /\ UNCHANGED <<clients, history, contacts>>

ReplaceInteraction(i, k) ==
    /\ interactions' = [interactions EXCEPT ![i] = Bump([@ EXCEPT !.contact = k])]
    /\ UNCHANGED <<clients, history, contacts>>

DropInteraction(i) ==
    /\ interactions' = [interactions EXCEPT ![i] = NoInteractionRow("gone")]
    /\ UNCHANGED <<clients, history, contacts>>
=============================================================================
