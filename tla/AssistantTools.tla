--------------------------- MODULE AssistantTools ---------------------------
(***************************************************************************)
(* The MCP server's write tools (mcp/looped_in_mcp/tools/clients.py) over  *)
(* its API client (backend.py), as one assistant calls them, while         *)
(* everybody else, other assistants included, works on the same rows.      *)
(*                                                                         *)
(* The server keeps nothing.  What an assistant knows is the row it last   *)
(* read, whose version it passes as expected_version; an assistant that    *)
(* remembers several rows acts like several assistants.  The update tools  *)
(* promise a merge over an API that replaces: they read the row again,     *)
(* fill in what the caller did not mention, and PATCH, with anybody in     *)
(* between.  The tools that are one request are among OtherCallers, but    *)
(* for the one that passes a version.                                      *)
(*                                                                         *)
(* A merge works column by column, so a table's columns are a record: a    *)
(* client's name and the rest, a contact's email, an interaction's         *)
(* contact.  None is Python's None and JSON's null: a parameter that was   *)
(* not given, or a column that is empty.                                   *)
(***************************************************************************)
EXTENDS OtherCallers

CONSTANTS Name, Rest    \* texts of the client's name, and of its other columns

ASSUME ColumnsAssumption ==
    Field = [name: Name, rest: Rest \cup {None}] /\ None \notin Name

VARIABLES
    known,      \* the row the assistant has read, and where
    call        \* its update tool under way

toolVars == <<known, call>>
vars == <<tables, toolVars>>

\* Which row: its table, its id, and the client in the tool's path.
Ref ==
    [table: {"clients"}, client: Client, id: Client]
    \cup [table: {"contacts"}, client: Client, id: Contact]
    \cup [table: {"interactions"}, client: Client, id: Interaction]

Row == ClientRow \cup ContactRow \cup InteractionRow

\* What the tools' parameters may be given as: a merge table per entity
\* (_CLIENT_FIELDS, _CONTACT_FIELDS, _INTERACTION_FIELDS).
Given(table) ==
    CASE table = "clients" -> [name: Name \cup {None}, rest: Rest \cup {None}]
      [] table = "contacts" -> [email: Email \cup {None}]
      [] table = "interactions" -> [contact: Contact \cup {None}]

\* ClearableClientField and its siblings: a client keeps its name.
Clearable(table) ==
    CASE table = "clients" -> {"rest"}
      [] table = "contacts" -> {"email"}
      [] table = "interactions" -> {"contact"}

Body == Field \cup [email: Email \cup {None}] \cup [contact: Contact \cup {None}]

NothingKnown == [ref |-> None]
NoCall == [stage |-> "none"]

TypeOK ==
    /\ TablesTypeOK
    /\ known \in {NothingKnown} \cup [ref: Ref, row: Row]
    /\ call \in {NoCall}
          \cup [stage: {"reading", "patching"}, ref: Ref, given: Body \cup Given("clients"),
                clear: SUBSET {"rest", "email", "contact"}, version: Nat,
                seen: Row, body: Body \cup {None}]

(***************************************************************************)
(* What a GET finds.                                                       *)
(***************************************************************************)
Exists(r) ==
    CASE r.table = "clients" -> r.id = r.client /\ ClientExists(r.id)
      [] r.table = "contacts" -> ContactExists(r.client, r.id)
      [] r.table = "interactions" -> InteractionExists(r.client, r.id)

RowAt(r) ==
    CASE r.table = "clients" -> clients[r.id]
      [] r.table = "contacts" -> contacts[r.id]
      [] r.table = "interactions" -> interactions[r.id]

\* The row as the columns a PATCH replaces.
Columns(r) ==
    CASE r.table = "clients" -> clients[r.id].fields
      [] r.table = "contacts" -> [email |-> contacts[r.id].email]
      [] r.table = "interactions" -> [contact |-> interactions[r.id].contact]

\* Slip: an optional column that is missing from the merge table.
ReplacementBodyGivenOnly(given, clear, current) ==
    [p \in DOMAIN current |->
        IF given[p] # None \/ p # "name" THEN given[p] ELSE current[p]]

\* _replacement_body: provided values win, cleared columns go null, and
\* everything else is sent as it is stored.
ReplacementBody(given, clear, current) ==
    [p \in DOMAIN current |->
        IF p \in clear THEN None ELSE IF given[p] # None THEN given[p] ELSE current[p]]

Contradicts(given, clear) == \E p \in clear : given[p] # None

(***************************************************************************)
(* The read tools: get_client, whose answer has the contacts, and          *)
(* list_client_interactions.                                               *)
(***************************************************************************)
ReadRow ==
    /\ call = NoCall
    /\ \E r \in Ref : Exists(r) /\ known' = [ref |-> r, row |-> RowAt(r)]
    /\ UNCHANGED <<tables, call>>

(***************************************************************************)
(* update_client, update_client_contact and update_client_interaction.     *)
(***************************************************************************)
Short(r, row) ==
    row.version < (IF r.table = "clients" THEN MaxClientVersion ELSE MaxChildVersion)

CallUpdate ==
    LET r == known.ref IN
    /\ call = NoCall /\ known # NothingKnown
    /\ Short(r, known.row)
    /\ \E given \in Given(r.table), clear \in SUBSET Clearable(r.table) :
          call' = [stage |-> "reading", ref |-> r, given |-> given, clear |-> clear,
                   version |-> known.row.version, seen |-> known.row, body |-> None]
    /\ UNCHANGED <<tables, known>>

\* A ToolError: the assistant knows what it knew, and may call again.
Raises == call' = NoCall /\ UNCHANGED <<tables, known>>

\* Slip: the version that was just read is sent with the body built on it.
ReadCurrentFresh ==
    LET r == call.ref IN
    /\ call.stage = "reading"
    /\ \/ /\ Exists(r) /\ ~Contradicts(call.given, call.clear)
          /\ call' = [call EXCEPT !.stage = "patching", !.version = RowAt(r).version,
                        !.body = ReplacementBody(call.given, call.clear, Columns(r))]
          /\ UNCHANGED <<tables, known>>
       \/ ~Exists(r) /\ Raises
       \/ Contradicts(call.given, call.clear) /\ Raises

\* The tool's GET, the row it picks from it, and the body it makes of it.  A
\* 404 and a row that the answer lacks are both errors, before any PATCH.
ReadCurrent ==
    LET r == call.ref IN
    /\ call.stage = "reading"
    /\ \/ /\ Exists(r) /\ ~Contradicts(call.given, call.clear)
          /\ call' = [call EXCEPT !.stage = "patching",
                        !.body = ReplacementBody(call.given, call.clear, Columns(r))]
          /\ UNCHANGED <<tables, known>>
       \/ ~Exists(r) /\ Raises
       \/ Contradicts(call.given, call.clear) /\ Raises

\* What the API answers 200 to, and does.
Replace(r, body) ==
    \/ r.table = "clients" /\ ReplaceFields(r.id, body)
    \/ r.table = "contacts" /\ ~EmailTaken(r.client, body.email, r.id)
       /\ ReplaceContact(r.id, body.email)
    \/ r.table = "interactions" /\ ContactRefOK(r.client, body.contact)
       /\ ReplaceInteraction(r.id, body.contact)

\* The answer is the updated row, or it is lost: a timeout, a broken
\* connection, a 503 after the commit.
Learns(r) ==
    \/ \E q \in {r} : known' = [ref |-> q, row |-> RowAt(q)']
    \/ UNCHANGED known

Patch ==
    LET r == call.ref IN
    /\ call.stage = "patching"
    /\ Exists(r) /\ RowAt(r).version = call.version
    /\ Replace(r, call.body)
    /\ call' = NoCall
    /\ Learns(r)

\* 400, 404, 409, or a request that never reached the API or its database: at
\* either request of the tool, and nothing was changed.
ToolFails == call # NoCall /\ Raises

(***************************************************************************)
(* change_client_status, one POST that carries expected_version.           *)
(***************************************************************************)
ChangeClientStatus ==
    LET r == known.ref IN
    /\ call = NoCall /\ known # NothingKnown
    /\ r.table = "clients"
    /\ ClientExists(r.id) /\ clients[r.id].version = known.row.version
    /\ Short(r, known.row)
    /\ \E s \in Status, x \in Reason \cup {None} :
          (x # None => s = Lost) /\ MoveStatus(r.id, s, x, clients[r.id].status)
    /\ Learns(r)
    /\ UNCHANGED call

Init == EmptyTables /\ known = NothingKnown /\ call = NoCall

Next ==
    \/ ReadRow \/ CallUpdate \/ ReadCurrent \/ Patch \/ ToolFails
    \/ ChangeClientStatus
    \/ AnyRequest /\ UNCHANGED toolVars

Spec == Init /\ [][Next]_vars

(***************************************************************************)
(* Properties.                                                             *)
(***************************************************************************)
\* The tool's PATCH on row r has taken effect in this step.
Merged(r) ==
    /\ call.stage = "patching" /\ call.ref = r /\ call' = NoCall
    /\ RowAt(r)' # RowAt(r)

\* "Omitted fields keep their stored value" (clients.py:296-297): what a merge leaves
\* in the columns its caller did not mention is what they held when it took
\* effect, although the body was made of an earlier read; what it mentions is as
\* asked.
MergesOntoPresentRow ==
    [][\A r \in Ref : Merged(r) =>
         \A p \in DOMAIN Columns(r) :
            Columns(r)'[p] = CASE p \in call.clear -> None
                               [] p \notin call.clear /\ call.given[p] # None -> call.given[p]
                               [] OTHER -> Columns(r)[p]]_vars

\* "never as a silent overwrite of state the caller never saw" (clients.py:20-21):
\* the row that is replaced is the one the assistant had read before it called,
\* whatever the tool itself has read since, also when a call is repeated after
\* an error.  A link that went with its contact has no version to tell of it.
OverwritesOnlyWhatWasSeen ==
    [][\A r \in Ref : Merged(r) =>
         \/ RowAt(r) = call.seen
         \/ /\ r.table = "interactions"
            /\ RowAt(r) = [call.seen EXCEPT !.contact = None]]_vars
=============================================================================
