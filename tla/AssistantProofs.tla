-------------------------- MODULE AssistantProofs --------------------------
(***************************************************************************)
(* Theorems about AssistantTools: an update tool merges onto the present   *)
(* row and overwrites only what its caller has read, for every number of   *)
(* rows and texts and whatever everybody else does.                        *)
(***************************************************************************)
EXTENDS AssistantTools, ClientTableProofs

(***************************************************************************)
(* The row of a reference, and how it may change in a step.                *)
(***************************************************************************)
Severed(r, old, new) ==
    /\ r.table = "interactions"
    /\ old.life = "live" /\ old.contact \in Contact
    /\ new = [old EXCEPT !.contact = None]

Later(r) ==
    LET old == RowAt(r)
        new == RowAt(r)' IN
    Grows(old, new) \/ (Severed(r, old, new) /\ contacts'[old.contact].life = "gone")

LEMMA RefCases ==
    ASSUME NEW r \in Ref
    PROVE  \/ r.table = "clients" /\ r.id \in Client
           \/ r.table = "contacts" /\ r.id \in Contact
           \/ r.table = "interactions" /\ r.id \in Interaction
  BY DEF Ref

LEMMA RowsLater ==
    ASSUME TablesTypeOK, Statement, NEW r \in Ref
    PROVE  Later(r)
  <1>1. CASE r.table = "clients"
    BY <1>1, RefCases, ClientGrows DEF Later, RowAt
  <1>2. CASE r.table = "contacts"
    BY <1>2, RefCases, ContactGrows DEF Later, RowAt
  <1>3. CASE r.table = "interactions"
    BY <1>3, RefCases, InteractionGrows DEF Later, RowAt, Severed, LinkSevered
  <1> QED  BY <1>1, <1>2, <1>3, RefCases

(***************************************************************************)
(* The invariant: what the assistant knows, and what its call was made on, *)
(* is the present row or an older one, and the body of a PATCH that may    *)
(* still be accepted is what the merge of the present row would be.  It    *)
(* may differ for a link that was severed in between, but then it names a  *)
(* contact that is gone, and the API refuses it.                           *)
(***************************************************************************)
RowType(r) ==
    CASE r.table = "clients" -> ClientRow
      [] r.table = "contacts" -> ContactRow
      [] r.table = "interactions" -> InteractionRow

BodyType(r) ==
    CASE r.table = "clients" -> Field
      [] r.table = "contacts" -> [email: Email \cup {None}]
      [] r.table = "interactions" -> [contact: Contact \cup {None}]

AsRead(r, row, now) ==
    now = row \/ (r.table = "interactions" /\ now = [row EXCEPT !.contact = None])

Held(r, row) ==
    /\ r \in Ref /\ row \in RowType(r)
    /\ RowAt(r).life # "unborn"
    /\ RowAt(r).life = "live" =>
          /\ row.version <= RowAt(r).version
          /\ row.version = RowAt(r).version => AsRead(r, row, RowAt(r))

Accurate(r) ==
    \/ call.body = ReplacementBody(call.given, call.clear, Columns(r))
    \/ /\ r.table = "interactions" /\ call.body.contact \in Contact
       /\ contacts[call.body.contact].life = "gone"

CallTyped ==
    LET r == call.ref IN
    /\ call \in [stage: {"reading", "patching"}, ref: Ref, given: Given(r.table),
                 clear: SUBSET Clearable(r.table), version: Nat, seen: RowType(r),
                 body: BodyType(r) \cup {None}]
    /\ call.stage = "patching" => call.body \in BodyType(r)
    /\ call.version = call.seen.version

CallInv ==
    LET r == call.ref IN
    /\ CallTyped
    /\ Held(r, call.seen)
    /\ call.stage = "patching" /\ RowAt(r).life = "live" /\ RowAt(r).version = call.version
          => Accurate(r)

AssistantInv ==
    /\ TablesTypeOK /\ Filled
    /\ known = NothingKnown \/ (known \in [ref: Ref, row: Row] /\ Held(known.ref, known.row))
    /\ call = NoCall \/ CallInv

LEMMA RowTypes ==
    ASSUME TablesTypeOK, NEW r \in Ref
    PROVE  RowAt(r) \in RowType(r) /\ RowAt(r).version \in Nat /\ RowAt(r).life \in Life
  BY RefCases DEF TablesTypeOK, RowAt, RowType, ClientRow, ContactRow, InteractionRow

LEMMA VersionTypes ==
    ASSUME NEW r \in Ref, NEW row \in RowType(r)
    PROVE  row.version \in Nat /\ row \in Row
  BY RefCases DEF RowType, Row, ClientRow, ContactRow, InteractionRow

LEMMA ExistsMeansLive ==
    ASSUME NEW r \in Ref, Exists(r)
    PROVE  RowAt(r).life = "live"
  BY RefCases DEF Exists, RowAt, ClientExists, ContactExists, InteractionExists

\* A read gives what is held.
LEMMA ReadIsHeld ==
    ASSUME TablesTypeOK, NEW r \in Ref, RowAt(r).life = "live"
    PROVE  Held(r, RowAt(r))
  BY RowTypes DEF Held, AsRead

\* What is held stays so, whatever happens to the row.
LEMMA HeldStep ==
    ASSUME TablesTypeOK, Statement, NEW r, NEW row, Held(r, row)
    PROVE  Held(r, row)'
  <1>1. r \in Ref /\ row \in RowType(r) /\ row.version \in Nat
    BY VersionTypes DEF Held
  <1>2. Later(r)
    BY <1>1, RowsLater
  <1>3. TablesTypeOK'
    BY StatementTypes
  <1>4. RowAt(r).version \in Nat /\ RowAt(r).life \in Life /\ RowAt(r) \in RowType(r)
    BY <1>1, RowTypes
  <1>5. CASE RowAt(r)' = RowAt(r)
    BY <1>1, <1>5 DEF Held
  <1>6. CASE RowAt(r)'.life = "gone"
    BY <1>1, <1>6 DEF Held
  <1>7. CASE RowAt(r).life = "live" /\ RowAt(r)'.life = "live"
             /\ RowAt(r)'.version = RowAt(r).version + 1
    BY <1>1, <1>4, <1>7 DEF Held
  <1>8. CASE Severed(r, RowAt(r), RowAt(r)')
    <2>1. RowAt(r) \in InteractionRow /\ row \in InteractionRow
      BY <1>1, <1>4, <1>8 DEF Severed, RowType
    <2>2. RowAt(r)' = [RowAt(r) EXCEPT !.contact = None] /\ RowAt(r).life = "live"
      BY <1>8 DEF Severed
    <2>3. RowAt(r)'.version = RowAt(r).version /\ RowAt(r)'.life = "live"
      BY <2>1, <2>2 DEF InteractionRow
    <2>4. AsRead(r, row, RowAt(r)) => AsRead(r, row, RowAt(r)')
      BY <1>8, <2>1, <2>2 DEF AsRead, Severed, InteractionRow
    <2> QED  BY <1>1, <2>2, <2>3, <2>4 DEF Held
  <1> QED  BY <1>2, <1>5, <1>6, <1>7, <1>8 DEF Later, Grows, Held

(***************************************************************************)
(* The columns of a row, and what a merge makes of them.                   *)
(***************************************************************************)
LEMMA ColumnTypes ==
    ASSUME TablesTypeOK, Filled, NEW r \in Ref, RowAt(r).life = "live"
    PROVE  Columns(r) \in BodyType(r)
  <1>1. CASE r.table = "clients"
    BY <1>1, RefCases DEF Columns, BodyType, RowAt, Filled, ClientExists
  <1>2. CASE r.table = "contacts"
    BY <1>2, RefCases DEF Columns, BodyType, TablesTypeOK, ContactRow
  <1>3. CASE r.table = "interactions"
    BY <1>3, RefCases DEF Columns, BodyType, TablesTypeOK, InteractionRow
  <1> QED  BY <1>1, <1>2, <1>3, RefCases

LEMMA MergeTypes ==
    ASSUME NEW r \in Ref, NEW given \in Given(r.table), NEW clear \in SUBSET Clearable(r.table),
           NEW current \in BodyType(r)
    PROVE  ReplacementBody(given, clear, current) \in BodyType(r)
  <1>1. CASE r.table = "clients"
    <2>1. /\ current \in [name: Name, rest: Rest \cup {None}] /\ DOMAIN current = {"name", "rest"}
          /\ given \in [name: Name \cup {None}, rest: Rest \cup {None}] /\ "name" \notin clear
      BY <1>1, ColumnsAssumption DEF BodyType, Given, Clearable
    <2>2. ReplacementBody(given, clear, current) \in [name: Name, rest: Rest \cup {None}]
      BY <2>1 DEF ReplacementBody
    <2> QED  BY <1>1, <2>2, ColumnsAssumption DEF BodyType
  <1>2. CASE r.table = "contacts"
    BY <1>2 DEF BodyType, Given, Clearable, ReplacementBody
  <1>3. CASE r.table = "interactions"
    BY <1>3 DEF BodyType, Given, Clearable, ReplacementBody
  <1> QED  BY <1>1, <1>2, <1>3, RefCases

\* The columns depend on the row only.
LEMMA ColumnsOfRow ==
    ASSUME NEW r \in Ref, RowAt(r)' = RowAt(r)
    PROVE  Columns(r)' = Columns(r)
  BY RefCases DEF RowAt, Columns

\* While the version a PATCH names is the row's, the row changes at most by a
\* severed link, and the body stays what it should be, or names that contact.
LEMMA AccurateStep ==
    ASSUME TablesTypeOK, Filled, Statement, call # NoCall, CallInv, UNCHANGED call,
           NEW r, r = call.ref,
           call.stage = "patching", RowAt(r)'.life = "live", RowAt(r)'.version = call.version
    PROVE  Accurate(r)'
  <1>1. r \in Ref /\ Later(r) /\ RowAt(r).life # "unborn" /\ r.client \in Client
    BY RowsLater DEF CallInv, Held, Ref
  <1>2. /\ call.version = call.seen.version /\ call.version \in Nat
        /\ RowAt(r).version \in Nat /\ RowAt(r) \in RowType(r)
    BY <1>1, RowTypes DEF CallInv, CallTyped
  <1>3. CASE RowAt(r)' = RowAt(r)
    <2>1. Accurate(r)
      BY <1>3 DEF CallInv
    <2>2. Columns(r)' = Columns(r)
      BY <1>1, <1>3, ColumnsOfRow
    <2>3. CASE call.body = ReplacementBody(call.given, call.clear, Columns(r))
      BY <2>2, <2>3 DEF Accurate, ReplacementBody
    <2>4. CASE /\ r.table = "interactions" /\ call.body.contact \in Contact
               /\ contacts[call.body.contact].life = "gone"
      <3>1. contacts'[call.body.contact].life = "gone"
        BY <1>1, <2>4, GoneStays
      <3> QED  BY <2>4, <3>1 DEF Accurate
    <2> QED  BY <2>1, <2>3, <2>4 DEF Accurate
  <1>4. CASE RowAt(r).life = "live" /\ RowAt(r)'.version = RowAt(r).version + 1
    <2>1. call.version <= RowAt(r).version
      BY <1>2, <1>4 DEF CallInv, Held
    <2> QED  BY <1>2, <1>4, <2>1
  <1>5. CASE Severed(r, RowAt(r), RowAt(r)') /\ contacts'[RowAt(r).contact].life = "gone"
    <2>1. /\ r.table = "interactions" /\ r.id \in Interaction
          /\ RowAt(r) = interactions[r.id] /\ RowAt(r)' = interactions'[r.id]
      BY <1>1, <1>5, RefCases DEF Severed, RowAt
    <2>2. /\ interactions[r.id].contact \in Contact /\ interactions[r.id].life = "live"
          /\ interactions[r.id] \in InteractionRow
          /\ interactions'[r.id] = [interactions[r.id] EXCEPT !.contact = None]
      BY <1>5, <2>1 DEF Severed, TablesTypeOK
    <2>3. interactions'[r.id].contact = None /\ RowAt(r).version = call.version
      BY <2>1, <2>2 DEF InteractionRow
    <2>4. Accurate(r)
      BY <2>1, <2>2, <2>3 DEF CallInv
    <2>5. Columns(r) = [contact |-> interactions[r.id].contact] /\ Columns(r)' = [contact |-> None]
      BY <2>1, <2>3 DEF Columns
    <2>6. CASE /\ call.body.contact \in Contact /\ contacts[call.body.contact].life = "gone"
      <3>1. contacts'[call.body.contact].life = "gone"
        BY <1>1, <2>6, GoneStays
      <3> QED  BY <2>1, <2>6, <3>1 DEF Accurate
    <2>7. CASE call.body = ReplacementBody(call.given, call.clear, Columns(r))
      <3>1. call.body = [p \in {"contact"} |->
                            IF p \in call.clear THEN None
                            ELSE IF call.given[p] # None THEN call.given[p]
                            ELSE interactions[r.id].contact]
        BY <2>5, <2>7 DEF ReplacementBody
      <3>2. CASE "contact" \in call.clear \/ call.given["contact"] # None
        <4>1. call.body = [p \in {"contact"} |->
                              IF p \in call.clear THEN None
                              ELSE IF call.given[p] # None THEN call.given[p] ELSE None]
          BY <3>1, <3>2
        <4>2. call.body = ReplacementBody(call.given, call.clear, Columns(r)')
          BY <2>5, <4>1 DEF ReplacementBody
        <4> QED  BY <4>2 DEF Accurate, ReplacementBody
      <3>3. CASE ~("contact" \in call.clear \/ call.given["contact"] # None)
        <4>1. call.body.contact = interactions[r.id].contact
          BY <3>1, <3>3
        <4> QED  BY <1>5, <2>1, <2>2, <4>1 DEF Accurate
      <3> QED  BY <3>2, <3>3
    <2> QED  BY <2>4, <2>6, <2>7 DEF Accurate
  <1> QED  BY <1>1, <1>3, <1>4, <1>5 DEF Later, Grows
(***************************************************************************)
(* Every step keeps the invariant.                                         *)
(***************************************************************************)
LEMMA Patching ==
    ASSUME AssistantInv, call.stage \in {"reading", "patching"}
    PROVE  call # NoCall /\ CallInv /\ call.ref \in Ref
  BY DEF AssistantInv, NoCall, CallInv, CallTyped

LEMMA KnownRow ==
    ASSUME AssistantInv, known # NothingKnown
    PROVE  /\ known \in [ref: Ref, row: Row] /\ known.ref \in Ref
           /\ Held(known.ref, known.row) /\ known.row.version \in Nat
  BY VersionTypes DEF AssistantInv, Held

LEMMA StepStatement ==
    ASSUME AssistantInv, [Next]_vars
    PROVE  Statement
  <1>1. CASE ReadRow \/ CallUpdate \/ ReadCurrent \/ ToolFails \/ UNCHANGED vars
    BY <1>1 DEF ReadRow, CallUpdate, ReadCurrent, ToolFails, Raises, vars, Statement
  <1>2. CASE Patch
    <2> DEFINE r == call.ref
    <2>1. r \in Ref /\ call.body \in BodyType(r)
      BY <1>2, Patching DEF Patch, CallInv, CallTyped
    <2>2. RowAt(r).life = "live" /\ Replace(r, call.body)
      BY <1>2, <2>1, ExistsMeansLive DEF Patch
    <2>3. CASE r.table = "clients"
      BY <2>1, <2>2, <2>3, RefCases
         DEF Replace, BodyType, RowAt, ClientExists, Statement, ClientStatement
    <2>4. CASE r.table = "contacts"
      BY <2>1, <2>2, <2>4, RefCases DEF Replace, BodyType, RowAt, Statement, ContactStatement
    <2>5. CASE r.table = "interactions"
      <3>1. interactions[r.id].client = r.client
        BY <1>2, <2>5 DEF Patch, Exists, InteractionExists
      <3> QED  BY <2>1, <2>2, <2>5, <3>1, RefCases
                 DEF Replace, BodyType, RowAt, Statement, InteractionStatement
    <2> QED  BY <2>1, <2>3, <2>4, <2>5, RefCases
  <1>3. CASE ChangeClientStatus
    <2>1. known.ref.id \in Client
      BY <1>3, KnownRow, RefCases DEF ChangeClientStatus
    <2> QED  BY <1>3, <2>1 DEF ChangeClientStatus, Statement, ClientStatement
  <1>4. CASE ElsewhereClients
    BY <1>4 DEF ElsewhereClients, Statement, ClientStatement
  <1>5. CASE ElsewhereContacts
    BY <1>5 DEF ElsewhereContacts, Statement, ContactStatement
  <1>6. CASE ElsewhereInteractions
    BY <1>6 DEF ElsewhereInteractions, Statement, InteractionStatement
  <1> QED  BY <1>1, <1>2, <1>3, <1>4, <1>5, <1>6 DEF Next, AnyRequest

LEMMA KnownStep ==
    ASSUME AssistantInv, [Next]_vars
    PROVE  known' = NothingKnown \/ (known' \in [ref: Ref, row: Row] /\ Held(known.ref, known.row)')
  <1>1. TablesTypeOK /\ Statement /\ TablesTypeOK'
    BY StepStatement, StatementTypes DEF AssistantInv
  <1>2. ASSUME NEW r \in Ref, RowAt(r).life = "live", known' = [ref |-> r, row |-> RowAt(r)']
        PROVE  known' \in [ref: Ref, row: Row] /\ Held(known.ref, known.row)'
    <2>1. PICK row : row = RowAt(r)
      OBVIOUS
    <2>2. Held(r, row)
      BY <1>1, <1>2, <2>1, ReadIsHeld
    <2>3. RowAt(r)'.life # "unborn"
      BY <1>1, <2>2, HeldStep DEF Held
    <2>4. RowAt(r)' \in RowType(r) /\ RowAt(r)'.version \in Nat
      BY <1>1, RefCases DEF TablesTypeOK, RowAt, RowType, ClientRow, ContactRow, InteractionRow
    <2>5. RowAt(r)' \in Row
      BY <2>4, VersionTypes
    <2>6. known'.ref = r /\ known'.row = RowAt(r)'
      BY <1>2
    <2> QED  BY <1>2, <2>3, <2>4, <2>5, <2>6 DEF Held, AsRead
  <1>3. CASE UNCHANGED known
    <2>1. CASE known = NothingKnown
      BY <1>3, <2>1
    <2>2. CASE known # NothingKnown
      <3>1. PICK r, row : r = known.ref /\ row = known.row
        OBVIOUS
      <3>2. Held(r, row)'
        BY <1>1, <2>2, <3>1, KnownRow, HeldStep
      <3> QED  BY <1>3, <2>2, <3>1, <3>2, KnownRow
    <2> QED  BY <2>1, <2>2
  <1>4. CASE ReadRow
    <2>1. PICK r \in Ref : Exists(r) /\ known' = [ref |-> r, row |-> RowAt(r)]
      BY <1>4 DEF ReadRow
    <2>2. RowAt(r)' = RowAt(r)
      BY <1>4 DEF ReadRow, tables, RowAt
    <2> QED  BY <1>2, <2>1, <2>2, ExistsMeansLive
  <1>5. CASE Patch
    <2>1. PICK r : r = call.ref
      OBVIOUS
    <2>2. r \in Ref /\ RowAt(r).life = "live" /\ Learns(r)
      BY <1>5, <2>1, Patching, ExistsMeansLive DEF Patch
    <2> QED  BY <1>2, <1>3, <2>2 DEF Learns
  <1>6. CASE ChangeClientStatus
    <2>1. PICK r : r = known.ref
      OBVIOUS
    <2>2. r \in Ref /\ RowAt(r).life = "live"
      BY <1>6, <2>1, KnownRow DEF ChangeClientStatus, ClientExists, RowAt
    <2>3. known' = [ref |-> r, row |-> RowAt(r)'] \/ UNCHANGED known
      BY <1>6, <2>1 DEF ChangeClientStatus, Learns
    <2> QED  BY <1>2, <1>3, <2>2, <2>3
  <1> QED  BY <1>3, <1>4, <1>5, <1>6
             DEF Next, CallUpdate, ReadCurrent, ToolFails, Raises, vars, toolVars

LEMMA CallStep ==
    ASSUME AssistantInv, [Next]_vars
    PROVE  call' = NoCall \/ CallInv'
  <1>1. TablesTypeOK /\ Filled /\ Statement
    BY StepStatement DEF AssistantInv
  <1>2. CASE UNCHANGED call
    <2>1. CASE call # NoCall
      <3>1. PICK r, row : r = call.ref /\ row = call.seen
        OBVIOUS
      <3>2. CallInv /\ Held(r, row)
        BY <2>1, <3>1 DEF AssistantInv, CallInv
      <3>3. Held(r, row)'
        BY <1>1, <3>2, HeldStep
      <3>4. call.stage = "patching" /\ RowAt(r)'.life = "live" /\ RowAt(r)'.version = call.version
               => Accurate(r)'
        BY <1>1, <1>2, <2>1, <3>1, <3>2, AccurateStep
      <3>5. CallTyped'
        BY <1>2, <3>2 DEF CallInv, CallTyped, RowType, BodyType
      <3>6. r = call'.ref /\ row = call'.seen /\ call' = call
        BY <1>2, <3>1
      <3> QED  BY <3>3, <3>4, <3>5, <3>6 DEF CallInv
    <2> QED  BY <1>2, <2>1
  <1>3. CASE CallUpdate
    <2>1. PICK r, row : r = known.ref /\ row = known.row
      OBVIOUS
    <2>2. r \in Ref /\ Held(r, row) /\ row \in RowType(r) /\ row.version \in Nat
      BY <1>3, <2>1, KnownRow DEF CallUpdate, Held
    <2>3. PICK given \in Given(r.table), clear \in SUBSET Clearable(r.table) :
             call' = [stage |-> "reading", ref |-> r, given |-> given, clear |-> clear,
                      version |-> row.version, seen |-> row, body |-> None]
      BY <1>3, <2>1 DEF CallUpdate
    <2>4. /\ call'.ref = r /\ call'.seen = row /\ call'.stage = "reading"
          /\ call'.version = row.version
      BY <2>3
    <2>5. CallTyped'
      BY <2>2, <2>3, <2>4 DEF CallTyped, RowType, BodyType
    <2>6. Held(r, row)'
      BY <1>1, <2>2, HeldStep
    <2> QED  BY <2>4, <2>5, <2>6 DEF CallInv
  <1>4. CASE ReadCurrent
    <2>1. CallInv /\ call.ref \in Ref /\ call # NoCall
      BY <1>4, Patching DEF ReadCurrent
    <2>2. PICK r, row : r = call.ref /\ row = call.seen
      OBVIOUS
    <2>3. ASSUME Exists(r), UNCHANGED tables,
                 call' = [call EXCEPT !.stage = "patching",
                            !.body = ReplacementBody(call.given, call.clear, Columns(r))]
          PROVE  CallInv'
      <3>1. Columns(r) \in BodyType(r)
        BY <1>1, <2>1, <2>2, <2>3, ExistsMeansLive, ColumnTypes
      <3>2. ReplacementBody(call.given, call.clear, Columns(r)) \in BodyType(r)
        BY <2>1, <2>2, <3>1, MergeTypes DEF CallInv, CallTyped
      <3>3. /\ call'.stage = "patching" /\ call'.ref = r /\ call'.seen = row
            /\ call'.given = call.given /\ call'.clear = call.clear /\ call'.version = call.version
            /\ call'.body = ReplacementBody(call.given, call.clear, Columns(r))
        BY <2>1, <2>2, <2>3 DEF CallInv, CallTyped
      <3>4. CallTyped'
        BY <2>1, <2>2, <2>3, <3>2, <3>3 DEF CallInv, CallTyped, RowType, BodyType
      <3>5. Held(r, row)'
        BY <1>1, <2>1, <2>2, HeldStep DEF CallInv
      <3>6. Columns(r)' = Columns(r)
        BY <2>3 DEF tables, Columns
      <3>7. Accurate(r)'
        BY <3>3, <3>6 DEF Accurate, ReplacementBody
      <3> QED  BY <3>3, <3>4, <3>5, <3>7 DEF CallInv
    <2> QED  BY <1>4, <2>2, <2>3 DEF ReadCurrent, Raises
  <1> QED  BY <1>2, <1>3, <1>4
             DEF Next, ReadRow, Patch, ToolFails, Raises, ChangeClientStatus, vars, toolVars

LEMMA AssistantInvariant == Spec => []AssistantInv
  <1>1. Init => AssistantInv
    BY EmptyTablesOK DEF Init, AssistantInv
  <1>2. AssistantInv /\ [Next]_vars => AssistantInv'
    BY StepStatement, StatementTypes, FilledStep, KnownStep, CallStep DEF AssistantInv
  <1> QED  BY <1>1, <1>2, PTL DEF Spec

(***************************************************************************)
(* The theorems.                                                           *)
(***************************************************************************)
\* The tables, what the assistant knows and its call are well typed.
THEOREM AssistantTypeCorrect == Spec => []TypeOK
  <1>1. AssistantInv => TypeOK
    <2> SUFFICES ASSUME AssistantInv PROVE TypeOK
      OBVIOUS
    <2>1. CASE call # NoCall
      <3> DEFINE r == call.ref
      <3>1. r \in Ref /\ CallTyped
        BY <2>1 DEF AssistantInv, CallInv, CallTyped
      <3>2. /\ Given(r.table) \subseteq Body \cup Given("clients")
            /\ Clearable(r.table) \subseteq {"rest", "email", "contact"}
            /\ RowType(r) \subseteq Row /\ BodyType(r) \subseteq Body
        BY <3>1, RefCases DEF Given, Clearable, RowType, BodyType, Body, Row
      <3> QED  BY <3>1, <3>2 DEF AssistantInv, TypeOK, CallTyped
    <2> QED  BY <2>1 DEF AssistantInv, TypeOK
  <1> QED  BY <1>1, AssistantInvariant, PTL
\* What an applied merge does to its row.
LEMMA MergeReplaces ==
    ASSUME AssistantInv, [Next]_vars, NEW r \in Ref, Merged(r)
    PROVE  /\ CallInv /\ call.ref = r /\ RowAt(r).life = "live" /\ Patch
           /\ RowAt(r).version = call.version /\ Replace(r, call.body)
  <1>1. call.ref = r /\ call.stage = "patching" /\ call' = NoCall /\ RowAt(r)' # RowAt(r)
    BY DEF Merged
  <1>2. CallInv /\ call # NoCall
    BY <1>1, Patching
  <1>3. CASE UNCHANGED tables
    BY <1>1, <1>3 DEF tables, RowAt
  <1>4. CASE UNCHANGED call
    BY <1>1, <1>2, <1>4
  <1>5. Patch
    BY <1>2, <1>3, <1>4 DEF Next, ReadRow, CallUpdate, ReadCurrent, ToolFails, Raises,
       ChangeClientStatus, vars, toolVars
  <1> QED  BY <1>1, <1>2, <1>5, ExistsMeansLive DEF Patch

\* An update tool overwrites only the row its caller had read, up to a link that
\* was severed since (clients.py:20-21).
THEOREM AssistantOverwritesSeen == Spec => OverwritesOnlyWhatWasSeen
  <1>1. ASSUME AssistantInv, [Next]_vars, NEW r \in Ref, Merged(r)
        PROVE  AsRead(r, call.seen, RowAt(r))
    BY <1>1, MergeReplaces DEF CallInv, CallTyped, Held
  <1>2. AssistantInv /\ [Next]_vars =>
           [\A r \in Ref : Merged(r) =>
              \/ RowAt(r) = call.seen
              \/ /\ r.table = "interactions"
                 /\ RowAt(r) = [call.seen EXCEPT !.contact = None]]_vars
    BY <1>1 DEF AsRead
  <1> QED  BY <1>2, AssistantInvariant, PTL DEF Spec, OverwritesOnlyWhatWasSeen

\* An update tool changes the columns its caller mentions, as asked, and leaves
\* every other one at what it holds when the PATCH takes effect, although the
\* body was made of an earlier read (clients.py:132-160).
THEOREM MergesAreExact == Spec => MergesOntoPresentRow
  <1> DEFINE Exact(r) ==
         \A p \in DOMAIN Columns(r) :
            Columns(r)'[p] = CASE p \in call.clear -> None
                               [] p \notin call.clear /\ call.given[p] # None -> call.given[p]
                               [] OTHER -> Columns(r)[p]
  <1>1. ASSUME AssistantInv, [Next]_vars, NEW r \in Ref, Merged(r)
        PROVE  Exact(r)
    <2>1. /\ CallInv /\ call.ref = r /\ RowAt(r).life = "live"
          /\ Replace(r, call.body) /\ call.body \in BodyType(r)
      BY <1>1, MergeReplaces DEF CallInv, CallTyped, Merged
    <2>2. Columns(r) \in BodyType(r)
      BY <1>1, <2>1, ColumnTypes DEF AssistantInv
    <2>3. Columns(r)' = call.body
      <3>1. CASE r.table = "clients"
        <4>1. r.id \in Client /\ clients[r.id] \in ClientRow
          BY <1>1, <3>1, RefCases DEF AssistantInv, TablesTypeOK
        <4>2. ReplaceFields(r.id, call.body)
          BY <2>1, <3>1 DEF Replace
        <4>3. clients'[r.id] = Bump([clients[r.id] EXCEPT !.fields = call.body])
          BY <1>1, <4>1, <4>2 DEF ReplaceFields, AssistantInv, TablesTypeOK
        <4>4. clients'[r.id].fields = call.body
          BY <4>1, <4>3 DEF Bump, ClientRow
        <4> QED  BY <3>1, <4>4 DEF Columns
      <3>2. CASE r.table = "contacts"
        <4>1. r.id \in Contact /\ contacts[r.id] \in ContactRow
          BY <1>1, <3>2, RefCases DEF AssistantInv, TablesTypeOK
        <4>2. ReplaceContact(r.id, call.body.email)
          BY <2>1, <3>2 DEF Replace
        <4>3. contacts'[r.id] = Bump([contacts[r.id] EXCEPT !.email = call.body.email])
          BY <1>1, <4>1, <4>2 DEF ReplaceContact, AssistantInv, TablesTypeOK
        <4>4. contacts'[r.id].email = call.body.email
          BY <4>1, <4>3 DEF Bump, ContactRow
        <4>5. call.body = [email |-> call.body.email]
          BY <2>1, <3>2 DEF BodyType
        <4> QED  BY <3>2, <4>4, <4>5 DEF Columns
      <3>3. CASE r.table = "interactions"
        <4>1. r.id \in Interaction /\ interactions[r.id] \in InteractionRow
          BY <1>1, <3>3, RefCases DEF AssistantInv, TablesTypeOK
        <4>2. ReplaceInteraction(r.id, call.body.contact)
          BY <2>1, <3>3 DEF Replace
        <4>3. interactions'[r.id] = Bump([interactions[r.id] EXCEPT !.contact = call.body.contact])
          BY <1>1, <4>1, <4>2 DEF ReplaceInteraction, AssistantInv, TablesTypeOK
        <4>4. interactions'[r.id].contact = call.body.contact
          BY <4>1, <4>3 DEF Bump, InteractionRow
        <4>5. call.body = [contact |-> call.body.contact]
          BY <2>1, <3>3 DEF BodyType
        <4> QED  BY <3>3, <4>4, <4>5 DEF Columns
      <3> QED  BY <3>1, <3>2, <3>3, RefCases
    <2>4. call.body = ReplacementBody(call.given, call.clear, Columns(r))
      <3>1. Accurate(r)
        BY <1>1, <2>1, MergeReplaces DEF CallInv, Merged
      <3>2. CASE /\ r.table = "interactions" /\ call.body.contact \in Contact
                 /\ contacts[call.body.contact].life = "gone"
        <4>1. ContactRefOK(r.client, call.body.contact)
          BY <2>1, <3>2 DEF Replace
        <4> QED  BY <3>2, <4>1, NoneAssumption DEF ContactRefOK, ContactExists
      <3> QED  BY <3>1, <3>2 DEF Accurate
    <2> HIDE DEF Exact
    <2> QED  BY <2>3, <2>4 DEF ReplacementBody, Exact
  <1>2. AssistantInv /\ [Next]_vars => [\A r \in Ref : Merged(r) => Exact(r)]_vars
    BY <1>1
  <1> QED  BY <1>2, AssistantInvariant, PTL DEF Spec, MergesOntoPresentRow
(***************************************************************************)
(* To the tables the assistant is one more of everybody.                   *)
(***************************************************************************)
CallShort == call # NoCall => Short(call.ref, call.seen)

LEMMA CallShortStep ==
    ASSUME AssistantInv, CallShort, [Next]_vars
    PROVE  CallShort'
  <1>1. CASE CallUpdate
    BY <1>1 DEF CallUpdate, CallShort, Short
  <1>2. CASE ReadCurrent
    <2>1. CallTyped /\ call # NoCall
      BY <1>2, Patching DEF ReadCurrent, CallInv
    <2>2. call' = NoCall \/ (call'.ref = call.ref /\ call'.seen = call.seen)
      BY <1>2, <2>1 DEF ReadCurrent, Raises, CallTyped
    <2> QED  BY <2>1, <2>2 DEF CallShort, Short
  <1>3. CASE UNCHANGED call \/ call' = NoCall
    BY <1>3 DEF CallShort, Short
  <1> QED  BY <1>1, <1>2, <1>3
             DEF Next, ReadRow, Patch, ToolFails, Raises, ChangeClientStatus, vars, toolVars

\* The PATCH that is answered 200.
LEMMA PatchIsRequest ==
    ASSUME AssistantInv, CallShort, Patch
    PROVE  AnyRequest
  <1> DEFINE r == call.ref
  <1>1. /\ call # NoCall /\ r \in Ref /\ call.body \in BodyType(r)
        /\ call.version = call.seen.version
    BY Patching DEF Patch, CallInv, CallTyped
  <1>2. Short(r, RowAt(r)) /\ RowAt(r).life = "live" /\ Replace(r, call.body) /\ Exists(r)
    BY <1>1, ExistsMeansLive DEF Patch, CallShort, Short
  <1>3. CASE r.table = "clients"
    BY <1>1, <1>2, <1>3, RefCases
       DEF Short, Replace, BodyType, RowAt, ClientExists, AnyRequest, ElsewhereClients
  <1>4. CASE r.table = "contacts"
    <2>1. contacts[r.id].client = r.client
      BY <1>2, <1>4 DEF Exists, ContactExists
    <2> QED  BY <1>1, <1>2, <1>4, <2>1, RefCases
               DEF Short, Replace, BodyType, RowAt, AnyRequest, ElsewhereContacts
  <1>5. CASE r.table = "interactions"
    <2>1. interactions[r.id].client = r.client
      BY <1>2, <1>5 DEF Exists, InteractionExists
    <2> QED  BY <1>1, <1>2, <1>5, <2>1, RefCases
               DEF Short, Replace, BodyType, RowAt, AnyRequest, ElsewhereInteractions
  <1> QED  BY <1>1, <1>3, <1>4, <1>5, RefCases

\* Whatever an assistant's tools make of what they read, what they do to the
\* tables is a request that anybody may make of the clients routes
\* (clients.py:132-160, ClientEndpoints.cs:37-62).
THEOREM AssistantIsACaller == Spec => RequestsSpec
  <1>1. Init => EmptyTables /\ CallShort
    BY DEF Init, CallShort
  <1>2. AssistantInv /\ CallShort /\ [Next]_vars => [AnyRequest]_tables
    <2> SUFFICES ASSUME AssistantInv, CallShort, [Next]_vars PROVE [AnyRequest]_tables
      OBVIOUS
    <2>1. CASE ChangeClientStatus
      <3>1. known.ref \in Ref /\ known.ref.id \in Client
        BY <2>1, KnownRow, RefCases DEF ChangeClientStatus
      <3>2. clients[known.ref.id].version < MaxClientVersion
        BY <2>1 DEF ChangeClientStatus, Short
      <3> QED  BY <2>1, <3>1, <3>2 DEF ChangeClientStatus, AnyRequest, ElsewhereClients
    <2>2. CASE ReadRow \/ CallUpdate \/ ReadCurrent \/ ToolFails \/ UNCHANGED vars
      BY <2>2 DEF ReadRow, CallUpdate, ReadCurrent, ToolFails, Raises, vars
    <2> QED  BY <2>1, <2>2, PatchIsRequest DEF Next
  <1>3. AssistantInv /\ CallShort /\ [Next]_vars => CallShort'
    BY CallShortStep
  <1> QED  BY <1>1, <1>2, <1>3, AssistantInvariant, PTL DEF Spec, RequestsSpec
=============================================================================
