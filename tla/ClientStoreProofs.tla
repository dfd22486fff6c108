------------------------- MODULE ClientStoreProofs -------------------------
(***************************************************************************)
(* Theorems about ClientStore, for every number of callers, clients,       *)
(* contacts and interactions.                                              *)
(***************************************************************************)
EXTENDS ClientStore, ClientTableProofs

(***************************************************************************)
(* Types.                                                                  *)
(***************************************************************************)

\* What a request carries, by its operation.
LEMMA CallTypes ==
    ASSUME NEW r \in Calls
    PROVE  /\ r.op = "createClient" => r.fields \in Field
           /\ r.op = "updateClient" =>
                r.client \in Client /\ r.fields \in Field /\ r.seen \in ClientRow
           /\ r.op = "changeStatus" =>
                /\ r.client \in Client /\ r.status \in Status
                /\ r.reason \in Reason \cup {None} /\ r.prev \in Status
                /\ r.seen \in ClientRow
           /\ r.op = "deleteClient" => r.client \in Client
           /\ r.op = "addContact" => r.client \in Client /\ r.email \in Email \cup {None}
           /\ r.op = "updateContact" =>
                /\ r.client \in Client /\ r.contact \in Contact
                /\ r.email \in Email \cup {None} /\ r.seen \in ContactRow
           /\ r.op = "deleteContact" => r.client \in Client /\ r.contact \in Contact
           /\ r.op = "addInteraction" =>
                r.client \in Client /\ r.contact \in Contact \cup {None}
           /\ r.op = "updateInteraction" =>
                /\ r.client \in Client /\ r.interaction \in Interaction
                /\ r.contact \in Contact \cup {None} /\ r.seen \in InteractionRow
           /\ r.op = "deleteInteraction" => r.client \in Client /\ r.interaction \in Interaction
  BY DEF Calls, Idle

(***************************************************************************)
(* Every step keeps the requests well typed.                               *)
(***************************************************************************)
LEMMA IssueTypes ==
    ASSUME TypeOK, NEW w \in Caller, NEW r \in Calls, Issue(w, r)
    PROVE  TypeOK'
  BY DEF TypeOK, TablesTypeOK, Issue, tables, InFlight

LEMMA GotoTypes ==
    ASSUME TypeOK, NEW w \in Caller, NEW label \in InFlight \cup Answer,
           Goto(w, label), TablesTypeOK'
    PROVE  TypeOK'
  BY DEF TypeOK, Goto

LEMMA ReadsTypes ==
    ASSUME TypeOK, NEW w \in Caller, NEW label \in InFlight \cup Answer, Reads(w, label)
    PROVE  TypeOK'
  BY GotoTypes DEF TypeOK, TablesTypeOK, Reads, tables

LEMMA CommittedTypes ==
    ASSUME TypeOK, NEW w \in Caller, Committed(w), TablesTypeOK'
    PROVE  TypeOK'
  BY GotoTypes DEF Committed, Answer

LEMMA StartTypes ==
    ASSUME TypeOK, NEW w \in Caller, Start(w)
    PROVE  TypeOK'
  <1> USE IssueTypes DEF TypeOK, TablesTypeOK
  <1>1. CASE StartCreateClient(w)
    BY <1>1 DEF StartCreateClient, Calls
  <1>2. CASE StartUpdateClient(w)
    BY <1>2 DEF StartUpdateClient, Calls
  <1>3. CASE StartChangeStatus(w)
    BY <1>3, StatusAssumption DEF StartChangeStatus, Calls
  <1>4. CASE StartDeleteClient(w)
    BY <1>4 DEF StartDeleteClient, KnownClients, Calls
  <1>5. CASE StartAddContact(w)
    BY <1>5 DEF StartAddContact, KnownClients, Calls
  <1>6. CASE StartUpdateContact(w)
    BY <1>6 DEF StartUpdateContact, KnownClients, Calls
  <1>7. CASE StartDeleteContact(w)
    BY <1>7 DEF StartDeleteContact, KnownClients, KnownContacts, Calls
  <1>8. CASE StartAddInteraction(w)
    BY <1>8 DEF StartAddInteraction, KnownClients, KnownContacts, Calls
  <1>9. CASE StartUpdateInteraction(w)
    BY <1>9 DEF StartUpdateInteraction, KnownClients, KnownContacts, Calls
  <1>10. CASE StartDeleteInteraction(w)
    BY <1>10 DEF StartDeleteInteraction, KnownClients, KnownInteractions, Calls
  <1> QED  BY <1>1, <1>2, <1>3, <1>4, <1>5, <1>6, <1>7, <1>8, <1>9, <1>10 DEF Start

LEMMA ClientStepTypes ==
    ASSUME TypeOK, NEW w \in Caller, ClientStep(w)
    PROVE  TypeOK'
  <1> USE CallTypes, ClientStatementTypes, CommittedTypes, ReadsTypes
  <1>0. call[w] \in Calls /\ TablesTypeOK
    BY DEF TypeOK
  <1>1. CASE CreateClient(w)
    BY <1>0, <1>1 DEF CreateClient, At
  <1>2. CASE UpdateClient(w)
    BY <1>0, <1>2 DEF UpdateClient, At, InFlight
  <1>3. CASE SnapshotStatus(w)
    <2> DEFINE c == call[w].client
    <2>1. c \in Client /\ clients[c].status \in Status
      BY <1>0, <1>3 DEF SnapshotStatus, At, TablesTypeOK, ClientRow
    <2>2. CASE Goto(w, "zeroRows") /\ UNCHANGED tables
      BY <2>2 DEF Reads, InFlight
    <2>3. CASE /\ pc' = [pc EXCEPT ![w] = "snapped"]
               /\ call' = [call EXCEPT ![w].prev = clients[c].status]
               /\ UNCHANGED tables
      <3> DEFINE Transitions == [op: {"changeStatus"}, client: Client, status: Status,
                                 reason: Reason \cup {None}, prev: Status, seen: ClientRow]
      <3>1. call[w] \in Transitions
        BY <1>0, <1>3 DEF SnapshotStatus, At, Calls, Idle
      <3>2. [call[w] EXCEPT !.prev = clients[c].status] \in Transitions
        BY <2>1, <3>1
      <3>3. Transitions \subseteq Calls
        BY DEF Calls
      <3>4. call' = [call EXCEPT ![w] = [call[w] EXCEPT !.prev = clients[c].status]]
        BY <2>3
      <3> HIDE DEF Transitions, c
      <3>5. call' \in [Caller -> Calls]
        BY <3>2, <3>3, <3>4 DEF TypeOK
      <3> QED  BY <2>3, <3>5 DEF TypeOK, TablesTypeOK, tables, InFlight
    <2> QED  BY <1>3, <2>2, <2>3 DEF SnapshotStatus
  <1>4. CASE ChangeStatus(w)
    BY <1>0, <1>4 DEF ChangeStatus, At, InFlight
  <1>5. CASE DisambiguateClient(w)
    BY <1>5 DEF DisambiguateClient, Answer
  <1>6. CASE DeleteClient(w)
    BY <1>0, <1>6 DEF DeleteClient, At, Answer
  <1> QED  BY <1>1, <1>2, <1>3, <1>4, <1>5, <1>6 DEF ClientStep

LEMMA ContactStepTypes ==
    ASSUME TypeOK, NEW w \in Caller, ContactStep(w)
    PROVE  TypeOK'
  <1> USE CallTypes, ContactStatementTypes, CommittedTypes, ReadsTypes DEF InFlight, Answer
  <1>0. call[w] \in Calls /\ TablesTypeOK
    BY DEF TypeOK
  <1>1. CASE CheckNewContact(w)     BY <1>1 DEF CheckNewContact
  <1>2. CASE SnapshotNewContact(w)  BY <1>2 DEF SnapshotNewContact
  <1>3. CASE AddContact(w)          BY <1>0, <1>3 DEF AddContact, At
  <1>4. CASE CheckEditedContact(w)  BY <1>4 DEF CheckEditedContact
  <1>5. CASE DisambiguateClash(w)   BY <1>5 DEF DisambiguateClash
  <1>6. CASE UpdateContact(w)       BY <1>0, <1>6 DEF UpdateContact, At
  <1>7. CASE DisambiguateContact(w) BY <1>7 DEF DisambiguateContact
  <1>8. CASE DeleteContact(w)       BY <1>0, <1>8 DEF DeleteContact, At
  <1> QED  BY <1>1, <1>2, <1>3, <1>4, <1>5, <1>6, <1>7, <1>8 DEF ContactStep

LEMMA InteractionStepTypes ==
    ASSUME TypeOK, NEW w \in Caller, InteractionStep(w)
    PROVE  TypeOK'
  <1> USE CallTypes, InteractionStatementTypes, CommittedTypes, ReadsTypes DEF InFlight, Answer
  <1>0. call[w] \in Calls /\ TablesTypeOK
    BY DEF TypeOK
  <1>1. CASE SnapshotNewInteraction(w)     BY <1>1 DEF SnapshotNewInteraction
  <1>2. CASE AddInteraction(w)             BY <1>0, <1>2 DEF AddInteraction, At
  <1>3. CASE DisambiguateNewInteraction(w) BY <1>3 DEF DisambiguateNewInteraction
  <1>4. CASE SnapshotInteraction(w)        BY <1>4 DEF SnapshotInteraction
  <1>5. CASE UpdateInteraction(w)          BY <1>0, <1>5 DEF UpdateInteraction, At
  <1>6. CASE DisambiguateInteraction(w)    BY <1>6 DEF DisambiguateInteraction
  <1>7. CASE DisambiguateContactRef(w)     BY <1>7 DEF DisambiguateContactRef
  <1>8. CASE DeleteInteraction(w)          BY <1>0, <1>8 DEF DeleteInteraction, At
  <1> QED  BY <1>1, <1>2, <1>3, <1>4, <1>5, <1>6, <1>7, <1>8 DEF InteractionStep

LEMMA TypeInit == Init => TypeOK
  <1> SUFFICES ASSUME Init PROVE TypeOK
    OBVIOUS
  <1>1. TablesTypeOK
    BY EmptyRowTypes DEF Init, EmptyTables, TablesTypeOK, Life
  <1> QED  BY <1>1 DEF Init, TypeOK, Calls

LEMMA TypeStep == TypeOK /\ [Next]_vars => TypeOK'
  <1> SUFFICES ASSUME TypeOK, [Next]_vars PROVE TypeOK'
    OBVIOUS
  <1>1. ASSUME NEW w \in Caller, Start(w) PROVE TypeOK'
    BY <1>1, StartTypes
  <1>2. ASSUME NEW w \in Caller, Finish(w) PROVE TypeOK'
    BY <1>2 DEF Finish, TypeOK, TablesTypeOK, tables, Calls
  <1>3. ASSUME NEW w \in Caller, Retry(w) PROVE TypeOK'
    BY <1>3 DEF Retry, TypeOK, TablesTypeOK, tables, InFlight
  <1>4. ASSUME NEW w \in Caller, Fail(w) PROVE TypeOK'
    BY <1>4, ReadsTypes DEF Fail, Answer
  <1>5. ASSUME NEW w \in Caller, ClientStep(w) \/ ContactStep(w) \/ InteractionStep(w)
        PROVE  TypeOK'
    BY <1>5, ClientStepTypes, ContactStepTypes, InteractionStepTypes
  <1>6. CASE UNCHANGED vars
    BY <1>6 DEF vars, TypeOK, TablesTypeOK
  <1> QED  BY <1>1, <1>2, <1>3, <1>4, <1>5, <1>6 DEF Next

\* Every reachable state is well typed: rows, history and requests keep their
\* shape through every statement, cascade, retry and lost answer.
THEOREM TypeCorrect == Spec => []TypeOK
  BY TypeInit, TypeStep, PTL DEF Spec

(***************************************************************************)
(* The inductive invariant behind the version guard.  A request remembers  *)
(* the row its caller loaded; the version says whether the row is still    *)
(* that row.                                                               *)
(***************************************************************************)
ClientEdits == {"updateClient", "changeStatus"}

SeenClient(w) ==
    LET row == clients[call[w].client]
        seen == call[w].seen IN
    call[w].op \in ClientEdits =>
        /\ row.life # "unborn"
        /\ row.life = "live" => /\ seen.version <= row.version
                                /\ seen.version = row.version => seen = row
        /\ (pc[w] = "zeroRows" /\ row.life = "live") => seen.version < row.version
        /\ (pc[w] = "snapped" /\ call[w].op = "changeStatus") => call[w].prev = seen.status

SeenClients == \A w \in Caller : SeenClient(w)

\* A client that is not there has no columns left and no history.
Blank ==
    \A c \in Client :
        clients[c].life # "live" => clients[c] = NoClientRow(clients[c].life) /\ history[c] = <<>>

ClientInv == TypeOK /\ SeenClients /\ Blank /\ HistoryIsAChain

\* How one row of clients may change in a step.
Evolves(old, new) ==
    \/ new = old
    \/ old.life = "unborn"
    \/ new.life = "gone"
    \/ old.life = "live" /\ new.life = "live" /\ new.version = old.version + 1

(***************************************************************************)
(* What a step does to the tables, and on behalf of whom.                  *)
(***************************************************************************)
Edit(w) ==
    LET c == call[w].client IN
    /\ ClientExists(c) /\ clients[c].version = call[w].seen.version
    /\ \/ At(w, "submitted", "updateClient") /\ ReplaceFields(c, call[w].fields)
       \/ /\ At(w, "snapped", "changeStatus")
          /\ MoveStatus(c, call[w].status, call[w].reason, call[w].prev)
    /\ call' = call
    /\ \E a \in Answer : pc' = [pc EXCEPT ![w] = a]

LEMMA ClientEffects ==
    ASSUME TypeOK, [Next]_vars
    PROVE  \/ UNCHANGED <<clients, history>>
           \/ \E c \in Client, f \in Field, w \in Caller :
                 /\ InsertClient(c, f)
                 /\ call' = call /\ \E a \in Answer : pc' = [pc EXCEPT ![w] = a]
           \/ \E w \in Caller : Edit(w)
           \/ \E c \in Client, w \in Caller :
                 /\ ClientExists(c) /\ CascadeClient(c)
                 /\ call' = call /\ \E a \in Answer : pc' = [pc EXCEPT ![w] = a]
  <1> USE DEF TypeOK
  <1> SUFFICES ASSUME NEW w \in Caller,
                      Start(w) \/ Finish(w) \/ Retry(w) \/ Fail(w)
                      \/ ClientStep(w) \/ ContactStep(w) \/ InteractionStep(w)
               PROVE  \/ UNCHANGED <<clients, history>>
                      \/ \E c \in Client, f \in Field :
                           /\ InsertClient(c, f)
                           /\ call' = call /\ \E a \in Answer : pc' = [pc EXCEPT ![w] = a]
                      \/ Edit(w)
                      \/ \E c \in Client :
                           /\ ClientExists(c) /\ CascadeClient(c)
                           /\ call' = call /\ \E a \in Answer : pc' = [pc EXCEPT ![w] = a]
    BY DEF Next, vars
  <1>0. call[w] \in Calls
    OBVIOUS
  <1>00. Committed(w) => call' = call /\ \E a \in Answer : pc' = [pc EXCEPT ![w] = a]
    BY DEF Committed, Goto, Answer
  <1>1. CASE Start(w)
    BY <1>1 DEF Start, Issue, tables, StartCreateClient, StartUpdateClient, StartChangeStatus,
        StartDeleteClient, StartAddContact, StartUpdateContact, StartDeleteContact,
        StartAddInteraction, StartUpdateInteraction, StartDeleteInteraction
  <1>2. CASE Finish(w) \/ Retry(w) \/ Fail(w)
    BY <1>2 DEF Finish, Retry, Fail, Reads, tables
  <1>3. CASE ClientStep(w)
    <2>1. CASE CreateClient(w)
      BY <1>0, <1>00, <2>1, CallTypes DEF CreateClient, At
    <2>2. CASE UpdateClient(w)
      BY <1>00, <2>2 DEF UpdateClient, Edit, Reads, tables
    <2>3. CASE SnapshotStatus(w)
      BY <2>3 DEF SnapshotStatus, tables
    <2>4. CASE ChangeStatus(w)
      BY <1>00, <2>4 DEF ChangeStatus, Edit, Reads, tables
    <2>5. CASE DisambiguateClient(w)
      BY <2>5 DEF DisambiguateClient, Reads, tables
    <2>6. CASE DeleteClient(w)
      BY <1>0, <1>00, <2>6, CallTypes DEF DeleteClient, At, Reads, tables
    <2> QED  BY <1>3, <2>1, <2>2, <2>3, <2>4, <2>5, <2>6 DEF ClientStep
  <1>4. CASE ContactStep(w)
    BY <1>4 DEF ContactStep, CheckNewContact, SnapshotNewContact, AddContact, CheckEditedContact,
        DisambiguateClash, UpdateContact, DisambiguateContact, DeleteContact, Reads, tables,
        InsertContact, ReplaceContact, DetachContact
  <1>5. CASE InteractionStep(w)
    BY <1>5 DEF InteractionStep, SnapshotNewInteraction, AddInteraction,
        DisambiguateNewInteraction, SnapshotInteraction, UpdateInteraction,
        DisambiguateInteraction, DisambiguateContactRef, DeleteInteraction, Reads, tables,
        InsertInteraction, ReplaceInteraction, DropInteraction
  <1> QED  BY <1>1, <1>2, <1>3, <1>4, <1>5

\* What a step does to one caller's edit of a client.
SameRequest(v) ==
    call'[v] = call[v] /\ (pc'[v] \in {"zeroRows", "snapped"} => pc'[v] = pc[v])

Loads(v) ==
    /\ UNCHANGED clients
    /\ pc'[v] = "submitted"
    /\ call'[v].client \in Client
    /\ clients[call'[v].client].life = "live"
    /\ call'[v].seen = clients[call'[v].client]

Snapshots(v) ==
    /\ UNCHANGED clients
    /\ call[v].op = "changeStatus"
    /\ call'[v].client = call[v].client /\ call'[v].seen = call[v].seen
    /\ ClientExists(call[v].client)
    /\ clients[call[v].client].version = call[v].seen.version
    /\ call'[v].prev = clients[call[v].client].status
    /\ pc'[v] = "snapped"

FindsNothing(v) ==
    /\ UNCHANGED clients
    /\ call'[v] = call[v] /\ pc'[v] = "zeroRows"
    /\ ~(ClientExists(call[v].client) /\ clients[call[v].client].version = call[v].seen.version)

LEMMA RequestSteps ==
    ASSUME TypeOK, [Next]_vars, NEW v \in Caller, call'[v].op \in ClientEdits
    PROVE  SameRequest(v) \/ Loads(v) \/ Snapshots(v) \/ FindsNothing(v)
  <1> USE DEF TypeOK
  <1>0. SUFFICES ASSUME NEW w \in Caller,
                        Start(w) \/ Finish(w) \/ Retry(w) \/ Fail(w)
                        \/ ClientStep(w) \/ ContactStep(w) \/ InteractionStep(w)
                 PROVE  SameRequest(v) \/ Loads(v) \/ Snapshots(v) \/ FindsNothing(v)
    BY DEF Next, vars, SameRequest
  <1>1. CASE Start(w)
    <2>1. call'[w].op \in ClientEdits => Loads(w)
      <3>1. CASE StartUpdateClient(w)
        BY <3>1 DEF StartUpdateClient, Editable, Issue, Loads, tables
      <3>2. CASE StartChangeStatus(w)
        BY <3>2 DEF StartChangeStatus, Editable, Issue, Loads, tables
      <3>3. CASE StartCreateClient(w) \/ StartDeleteClient(w)
        BY <3>3 DEF StartCreateClient, StartDeleteClient, Issue, ClientEdits
      <3>4. CASE StartAddContact(w) \/ StartUpdateContact(w) \/ StartDeleteContact(w)
        BY <3>4 DEF StartAddContact, StartUpdateContact, StartDeleteContact, Issue, ClientEdits
      <3>5. CASE StartAddInteraction(w) \/ StartUpdateInteraction(w) \/ StartDeleteInteraction(w)
        BY <3>5 DEF StartAddInteraction, StartUpdateInteraction, StartDeleteInteraction, Issue,
             ClientEdits
      <3> QED  BY <1>1, <3>1, <3>2, <3>3, <3>4, <3>5 DEF Start
    <2>2. v # w => call'[v] = call[v] /\ pc'[v] = pc[v]
      BY <1>1 DEF Start, Issue, StartCreateClient, StartUpdateClient, StartChangeStatus,
        StartDeleteClient, StartAddContact, StartUpdateContact, StartDeleteContact,
        StartAddInteraction, StartUpdateInteraction, StartDeleteInteraction
    <2> QED  BY <2>1, <2>2 DEF SameRequest
  <1>2. CASE Finish(w) \/ Retry(w) \/ Fail(w)
    BY <1>2 DEF Finish, Retry, Fail, Reads, Goto, SameRequest, ClientEdits, Idle
  <1>3. CASE ClientStep(w)
    <2>1. CASE SnapshotStatus(w)
      <3>1. CASE Goto(w, "zeroRows")
        BY <2>1, <3>1 DEF SnapshotStatus, tables, Goto, FindsNothing, SameRequest
      <3>2. CASE ~Goto(w, "zeroRows")
        <4> DEFINE next == [call[w] EXCEPT !.prev = clients[call[w].client].status]
        <4>1. call[w] \in [op: {"changeStatus"}, client: Client, status: Status,
                           reason: Reason \cup {None}, prev: Status, seen: ClientRow]
          BY <2>1 DEF SnapshotStatus, At, Calls, Idle
        <4>2. /\ next.client = call[w].client /\ next.seen = call[w].seen
              /\ next.prev = clients[call[w].client].status
          BY <4>1
        <4>3. call' = [call EXCEPT ![w] = next]
          BY <2>1, <3>2 DEF SnapshotStatus
        <4> HIDE DEF next
        <4> QED  BY <2>1, <3>2, <4>2, <4>3
                 DEF SnapshotStatus, At, tables, SameRequest, Snapshots
      <3> QED  BY <3>1, <3>2
    <2>2. CASE UpdateClient(w)
      BY <2>2 DEF UpdateClient, Committed, Reads, Goto, tables, SameRequest, FindsNothing
    <2>3. CASE ChangeStatus(w)
      BY <2>3 DEF ChangeStatus, Committed, Reads, Goto, tables, SameRequest, FindsNothing
    <2>4. CASE CreateClient(w) \/ DisambiguateClient(w) \/ DeleteClient(w)
      BY <2>4 DEF CreateClient, DisambiguateClient, DeleteClient, Committed, Reads, Goto, SameRequest
    <2> QED  BY <1>3, <2>1, <2>2, <2>3, <2>4 DEF ClientStep
  <1>4. CASE ContactStep(w)
    <2>1. ~(call[w].op \in ClientEdits)
      BY <1>4 DEF ContactStep, CheckNewContact, SnapshotNewContact, AddContact, CheckEditedContact,
        DisambiguateClash, UpdateContact, DisambiguateContact, DeleteContact, At, ClientEdits
    <2>2. PICK label : Goto(w, label)
      BY <1>4 DEF ContactStep, CheckNewContact, SnapshotNewContact, AddContact,
        CheckEditedContact, DisambiguateClash, UpdateContact, DisambiguateContact, DeleteContact,
        Committed, Reads
    <2> QED  BY <2>1, <2>2 DEF Goto, SameRequest
  <1>5. CASE InteractionStep(w)
    <2>1. ~(call[w].op \in ClientEdits)
      BY <1>5 DEF InteractionStep, SnapshotNewInteraction, AddInteraction,
        DisambiguateNewInteraction, SnapshotInteraction, UpdateInteraction,
        DisambiguateInteraction, DisambiguateContactRef, DeleteInteraction, At, ClientEdits
    <2>2. PICK label : Goto(w, label)
      BY <1>5 DEF InteractionStep, SnapshotNewInteraction, AddInteraction,
        DisambiguateNewInteraction, SnapshotInteraction, UpdateInteraction,
        DisambiguateInteraction, DisambiguateContactRef, DeleteInteraction, Committed, Reads
    <2> QED  BY <2>1, <2>2 DEF Goto, SameRequest
  <1> QED  BY <1>0, <1>1, <1>2, <1>3, <1>4, <1>5

(***************************************************************************)
(* The invariant is inductive.                                             *)
(***************************************************************************)
LEMMA ClientsEvolve ==
    ASSUME TypeOK, [Next]_vars, NEW c \in Client
    PROVE  Evolves(clients[c], clients'[c])
  <1> USE DEF TypeOK, TablesTypeOK
  <1>1. CASE UNCHANGED <<clients, history>>
    BY <1>1 DEF Evolves
  <1>2. ASSUME NEW d \in Client, NEW f \in Field, InsertClient(d, f)
        PROVE  Evolves(clients[c], clients'[c])
    BY <1>2 DEF InsertClient, Evolves
  <1>3. ASSUME NEW w \in Caller, Edit(w) PROVE Evolves(clients[c], clients'[c])
    <2> DEFINE d == call[w].client
    <2>1. d \in Client /\ clients[d].life = "live" /\ clients[d] \in ClientRow
      BY <1>3, CallTypes DEF Edit, At, ClientExists
    <2>2. CASE ReplaceFields(d, call[w].fields)
      <3>1. clients'[c] = IF c = d THEN Bump([clients[d] EXCEPT !.fields = call[w].fields])
                                   ELSE clients[c]
        BY <2>1, <2>2 DEF ReplaceFields
      <3>2. /\ Bump([clients[d] EXCEPT !.fields = call[w].fields]).life = "live"
            /\ Bump([clients[d] EXCEPT !.fields = call[w].fields]).version = clients[d].version + 1
        BY <2>1 DEF Bump, ClientRow
      <3> QED  BY <2>1, <3>1, <3>2 DEF Evolves
    <2>3. CASE MoveStatus(d, call[w].status, call[w].reason, call[w].prev)
      BY <2>1, <2>3 DEF MoveStatus, Evolves
    <2> QED  BY <1>3, <2>2, <2>3 DEF Edit
  <1>4. ASSUME NEW d \in Client, CascadeClient(d) PROVE Evolves(clients[c], clients'[c])
    BY <1>4 DEF CascadeClient, NoClientRow, Evolves
  <1> QED  BY <1>1, <1>2, <1>3, <1>4, ClientEffects

LEMMA SeenStep ==
    ASSUME TypeOK, TypeOK', SeenClients, [Next]_vars
    PROVE  SeenClients'
  <1> SUFFICES ASSUME NEW v \in Caller, call'[v].op \in ClientEdits
               PROVE  SeenClient(v)'
    BY DEF SeenClients, SeenClient
  <1>1. call'[v] \in Calls /\ call[v] \in Calls
    BY DEF TypeOK
  <1>2. CASE SameRequest(v)
    <2> DEFINE c == call[v].client
    <2>1. c \in Client /\ call[v].op \in ClientEdits /\ call[v].seen \in ClientRow
      BY <1>1, <1>2, CallTypes DEF SameRequest, ClientEdits
    <2>2. Evolves(clients[c], clients'[c])
      BY <2>1, ClientsEvolve
    <2>3. SeenClient(v) /\ clients[c] \in ClientRow /\ clients'[c] \in ClientRow
      BY <2>1 DEF SeenClients, TypeOK, TablesTypeOK
    <2>4. CASE clients'[c] = clients[c]
      BY <1>2, <2>1, <2>3, <2>4 DEF SameRequest, SeenClient
    <2>5. CASE clients'[c].life = "gone"
      BY <1>2, <2>1, <2>3, <2>5 DEF SameRequest, SeenClient
    <2>6. CASE clients[c].life = "live" /\ clients'[c].life = "live"
               /\ clients'[c].version = clients[c].version + 1
      <3>1. /\ call[v].seen.version \in Nat /\ clients[c].version \in Nat
            /\ clients[c].life \in Life
        BY <2>1, <2>3 DEF ClientRow
      <3>2. clients[c].life = "live" => call[v].seen.version <= clients[c].version
        BY <2>1, <2>3 DEF SeenClient
      <3>3. pc'[v] = "snapped" /\ call'[v].op = "changeStatus" => call'[v].prev = call'[v].seen.status
        BY <1>2, <2>1, <2>3 DEF SameRequest, SeenClient
      <3>4. clients[c].life = "live"
        BY <2>6
      <3>5. call[v].seen.version < clients'[c].version
        BY <2>6, <3>1, <3>2, <3>4
      <3> QED  BY <1>2, <2>6, <3>1, <3>3, <3>5 DEF SameRequest, SeenClient
    <2>7. clients[c].life # "unborn"
      BY <2>1, <2>3 DEF SeenClient
    <2> QED  BY <2>2, <2>4, <2>5, <2>6, <2>7 DEF Evolves
  <1>3. CASE Loads(v)
    BY <1>1, <1>3, CallTypes DEF Loads, SeenClient, ClientEdits, ClientRow, TypeOK, TablesTypeOK
  <1>4. CASE Snapshots(v)
    <2>1. SeenClient(v) /\ call[v].client \in Client /\ clients[call[v].client] \in ClientRow
      BY <1>1, <1>4, CallTypes DEF SeenClients, Snapshots, TypeOK, TablesTypeOK
    <2> QED  BY <1>4, <2>1 DEF Snapshots, SeenClient, ClientEdits, ClientExists
  <1>5. CASE FindsNothing(v)
    <2>1. SeenClient(v) /\ call[v].client \in Client /\ call[v].seen \in ClientRow
          /\ clients[call[v].client] \in ClientRow
      BY <1>1, <1>5, CallTypes DEF SeenClients, FindsNothing, ClientEdits, TypeOK, TablesTypeOK
    <2> QED  BY <1>5, <2>1 DEF FindsNothing, SeenClient, ClientEdits, ClientExists, ClientRow
  <1> QED  BY <1>2, <1>3, <1>4, <1>5, RequestSteps

LEMMA BlankStep ==
    ASSUME TypeOK, Blank, [Next]_vars
    PROVE  Blank'
  <1> USE DEF TypeOK, TablesTypeOK
  <1> SUFFICES ASSUME NEW c \in Client, clients'[c].life # "live"
               PROVE  clients'[c] = NoClientRow(clients'[c].life) /\ history'[c] = <<>>
    BY DEF Blank
  <1>1. CASE UNCHANGED <<clients, history>>
    BY <1>1 DEF Blank
  <1>2. ASSUME NEW d \in Client, NEW f \in Field, InsertClient(d, f)
        PROVE  clients'[c] = NoClientRow(clients'[c].life) /\ history'[c] = <<>>
    BY <1>2 DEF Blank, InsertClient
  <1>3. ASSUME NEW w \in Caller, Edit(w)
        PROVE  clients'[c] = NoClientRow(clients'[c].life) /\ history'[c] = <<>>
    <2> DEFINE d == call[w].client
    <2>1. d \in Client /\ clients[d].life = "live" /\ clients[d] \in ClientRow
      BY <1>3, CallTypes DEF Edit, At, ClientExists
    <2>2. Evolves(clients[d], clients'[d])
      BY <2>1, ClientsEvolve
    <2>3. clients'[d].life = "live"
      <3>1. CASE ReplaceFields(d, call[w].fields)
        <4>1. clients'[d] = Bump([clients[d] EXCEPT !.fields = call[w].fields])
          BY <2>1, <3>1 DEF ReplaceFields
        <4> QED  BY <2>1, <4>1 DEF Bump, ClientRow
      <3>2. CASE MoveStatus(d, call[w].status, call[w].reason, call[w].prev)
        BY <2>1, <3>2 DEF MoveStatus
      <3> QED  BY <1>3, <3>1, <3>2 DEF Edit
    <2>4. c # d /\ clients'[c] = clients[c] /\ history'[c] = history[c]
      BY <1>3, <2>1, <2>3 DEF Edit, ReplaceFields, MoveStatus
    <2> QED  BY <2>4 DEF Blank
  <1>4. ASSUME NEW d \in Client, CascadeClient(d)
        PROVE  clients'[c] = NoClientRow(clients'[c].life) /\ history'[c] = <<>>
    BY <1>4 DEF Blank, CascadeClient, NoClientRow
  <1> QED  BY <1>1, <1>2, <1>3, <1>4, ClientEffects

\* The chain of one client.
Chain(c) ==
    LET h == history[c] IN
    /\ \A j \in 1..Len(h) : h[j].from = IF j = 1 THEN Lead ELSE h[j-1].to
    /\ clients[c].status = IF Len(h) = 0 THEN Lead ELSE h[Len(h)].to

LEMMA ChainStep ==
    ASSUME ClientInv, TypeOK', [Next]_vars
    PROVE  HistoryIsAChain'
  <1> USE DEF TypeOK, TablesTypeOK
  <1>0. TypeOK /\ SeenClients /\ Blank /\ (\A c \in Client : Chain(c))
    BY DEF ClientInv, HistoryIsAChain, Chain
  <1> SUFFICES ASSUME NEW c \in Client PROVE Chain(c)'
    BY DEF HistoryIsAChain, Chain
  <1>1. CASE UNCHANGED <<clients, history>>
    BY <1>0, <1>1 DEF Chain
  <1>2. ASSUME NEW d \in Client, NEW f \in Field, InsertClient(d, f) PROVE Chain(c)'
    <2>1. history[d] = <<>>
      BY <1>0, <1>2 DEF Blank, InsertClient
    <2> QED  BY <1>0, <1>2, <2>1 DEF InsertClient, Chain
  <1>3. ASSUME NEW w \in Caller, Edit(w) PROVE Chain(c)'
    <2> DEFINE d == call[w].client
    <2>1. /\ d \in Client /\ clients[d] \in ClientRow
          /\ clients[d].life = "live" /\ call[w].seen.version = clients[d].version
          /\ call[w].op \in ClientEdits
      BY <1>0, <1>3, CallTypes DEF Edit, At, ClientExists, ClientEdits
    <2>2. CASE ReplaceFields(d, call[w].fields)
      <3>1. clients'[c] = IF c = d THEN Bump([clients[d] EXCEPT !.fields = call[w].fields])
                                   ELSE clients[c]
        BY <1>0, <2>1, <2>2 DEF ReplaceFields
      <3>2. clients'[c].status = clients[c].status
        BY <2>1, <3>1 DEF Bump, ClientRow
      <3> QED  BY <1>0, <2>2, <3>2 DEF ReplaceFields, Chain
    <2>3. CASE At(w, "snapped", "changeStatus")
               /\ MoveStatus(d, call[w].status, call[w].reason, call[w].prev)
      <3> DEFINE h == history[d]
                 new == [from |-> call[w].prev, to |-> call[w].status,
                         at |-> clients[d].version + 1]
      <3>1. SeenClient(w)
        BY <1>0 DEF SeenClients
      <3>2. call[w].prev = clients[d].status
        BY <2>1, <2>3, <3>1 DEF SeenClient, At
      <3>3. h \in Seq(HistoryRow) /\ new \in HistoryRow
        <4>1. call[w].prev \in Status /\ call[w].status \in Status
          BY <1>0, <2>3, CallTypes DEF At
        <4>2. clients[d].version + 1 \in Nat
          BY <2>1 DEF ClientRow
        <4>3. h \in Seq(HistoryRow)
          BY <1>0, <2>1
        <4> QED  BY <4>1, <4>2, <4>3 DEF HistoryRow
      <3>4. CASE c # d
        BY <1>0, <2>3, <3>4 DEF MoveStatus, Chain
      <3>5. CASE c = d
        <4>1. history'[d] = Append(h, new) /\ clients'[d].status = call[w].status
          BY <1>0, <2>1, <2>3 DEF MoveStatus
        <4>2. Chain(d)
          BY <1>0, <2>1
        <4>3. /\ Len(Append(h, new)) = Len(h) + 1
              /\ Append(h, new)[Len(h) + 1] = new
              /\ \A j \in 1..Len(h) : Append(h, new)[j] = h[j]
              /\ Len(h) \in Nat
          BY <3>3
        <4>4. ASSUME NEW j \in 1..(Len(h) + 1)
              PROVE  Append(h, new)[j].from = IF j = 1 THEN Lead ELSE Append(h, new)[j-1].to
          <5>1. CASE j \in 1..Len(h)
            BY <4>2, <4>3, <5>1 DEF Chain
          <5>2. CASE j = Len(h) + 1
            BY <3>2, <4>2, <4>3, <5>2 DEF Chain
          <5>3. Len(h) \in Nat
            BY <4>3
          <5>4. j \in 1..Len(h) \/ j = Len(h) + 1
            BY <5>3
          <5> QED  BY <5>1, <5>2, <5>4
        <4> QED  BY <3>5, <4>1, <4>3, <4>4 DEF Chain
      <3> QED  BY <3>4, <3>5
    <2> QED  BY <1>3, <2>2, <2>3 DEF Edit
  <1>4. ASSUME NEW d \in Client, CascadeClient(d) PROVE Chain(c)'
    BY <1>0, <1>4 DEF CascadeClient, NoClientRow, Chain
  <1> QED  BY <1>0, <1>1, <1>2, <1>3, <1>4, ClientEffects

LEMMA ClientInvInit == Init => ClientInv
  <1> SUFFICES ASSUME Init PROVE ClientInv
    OBVIOUS
  <1>1. TypeOK
    BY TypeInit
  <1>2. SeenClients
    BY DEF Init, Idle, SeenClients, SeenClient, ClientEdits
  <1>3. Blank /\ HistoryIsAChain
    BY DEF Init, EmptyTables, NoClientRow, Blank, HistoryIsAChain
  <1> QED  BY <1>1, <1>2, <1>3 DEF ClientInv

LEMMA ClientInvStep == ClientInv /\ [Next]_vars => ClientInv'
  BY TypeStep, SeenStep, BlankStep, ChainStep DEF ClientInv

LEMMA ClientInvariant == Spec => []ClientInv
  BY ClientInvInit, ClientInvStep, PTL DEF Spec

\* The status history is a gapless chain for every client, whatever transitions,
\* edits, deletes, retries and lost answers race each other.
THEOREM HistoryCorrect == Spec => []HistoryIsAChain
  BY ClientInvariant, PTL DEF ClientInv

(***************************************************************************)
(* The version guard.                                                      *)
(***************************************************************************)
Replaced(c) ==
    clients[c].life = "live" /\ clients'[c].life = "live" /\ clients'[c] # clients[c]

Replacer(c, w) ==
    /\ Acts(w, {"updateClient", "changeStatus"})
    /\ call[w].client = c
    /\ call[w].seen = clients[c]

LEMMA EditReplacesSeen ==
    ASSUME ClientInv, [Next]_vars, NEW c \in Client, Replaced(c)
    PROVE  \E w \in Caller : Replacer(c, w)
  <1>0. TypeOK /\ TablesTypeOK /\ SeenClients
    BY DEF ClientInv, TypeOK
  <1>1. ~UNCHANGED <<clients, history>>
    BY DEF Replaced
  <1>2. ASSUME NEW d \in Client, NEW f \in Field, InsertClient(d, f) PROVE FALSE
    BY <1>0, <1>2 DEF Replaced, InsertClient, TablesTypeOK
  <1>3. ASSUME NEW d \in Client, CascadeClient(d) PROVE FALSE
    BY <1>0, <1>3 DEF Replaced, CascadeClient, NoClientRow, TablesTypeOK
  <1>4. PICK w \in Caller : Edit(w)
    BY <1>0, <1>1, <1>2, <1>3, ClientEffects
  <1>5. call[w].client \in Client /\ call[w].op \in ClientEdits /\ pc[w] \in InFlight
    BY <1>0, <1>4, CallTypes DEF Edit, At, ClientEdits, InFlight, TypeOK
  <1>6. call[w].client = c
    BY <1>0, <1>4, <1>5 DEF Edit, ReplaceFields, MoveStatus, Replaced, TablesTypeOK
  <1>7. call[w].seen = clients[c]
    BY <1>0, <1>4, <1>5, <1>6 DEF SeenClients, SeenClient, Edit, ClientExists
  <1>8. pc'[w] # pc[w]
    BY <1>0, <1>4, <1>5 DEF Edit, InFlight, Answer, TypeOK
  <1> QED  BY <1>5, <1>6, <1>7, <1>8 DEF Replacer, Acts, ClientEdits

\* No client edit is lost: a row is replaced only by a caller who had loaded
\* exactly that row (ClientStore.UpdateAsync, ChangeStatusAsync).
THEOREM NoClientEditLost == Spec => NoLostClientEdit
  <1>1. ClientInv /\ [Next]_vars =>
          [\A c \in Client :
             (clients[c].life = "live" /\ clients'[c].life = "live" /\ clients'[c] # clients[c])
             => \E w \in Caller :
                   /\ Acts(w, {"updateClient", "changeStatus"})
                   /\ call[w].client = c
                   /\ call[w].seen = clients[c]]_vars
    BY EditReplacesSeen DEF Replaced, Replacer
  <1> QED  BY <1>1, ClientInvariant, PTL DEF Spec, NoLostClientEdit

(***************************************************************************)
(* The store implements VersionedRows.                                     *)
(***************************************************************************)

\* A step is taken on behalf of one caller.
LEMMA OneCaller ==
    ASSUME TypeOK, [Next]_vars, ~UNCHANGED vars
    PROVE  \E w \in Caller : \A v \in Caller : v # w => call'[v] = call[v]
  <1> USE DEF TypeOK
  <1>1. PICK w \in Caller : \/ Start(w) \/ Finish(w) \/ Retry(w) \/ Fail(w)
                            \/ ClientStep(w) \/ ContactStep(w) \/ InteractionStep(w)
    BY DEF Next, vars
  <1>2. CASE Start(w)
    BY <1>2 DEF Start, Issue, StartCreateClient, StartUpdateClient, StartChangeStatus,
       StartDeleteClient, StartAddContact, StartUpdateContact, StartDeleteContact,
       StartAddInteraction, StartUpdateInteraction, StartDeleteInteraction
  <1>3. CASE Finish(w) \/ Retry(w) \/ Fail(w)
    BY <1>3 DEF Finish, Retry, Fail, Reads, Goto
  <1>4. CASE ClientStep(w)
    BY <1>4 DEF ClientStep, CreateClient, UpdateClient, SnapshotStatus, ChangeStatus,
       DisambiguateClient, DeleteClient, Committed, Reads, Goto
  <1>5. CASE ContactStep(w)
    BY <1>5 DEF ContactStep, CheckNewContact, SnapshotNewContact, AddContact,
       CheckEditedContact, DisambiguateClash, UpdateContact, DisambiguateContact, DeleteContact,
       Committed, Reads, Goto
  <1>6. CASE InteractionStep(w)
    BY <1>6 DEF InteractionStep, SnapshotNewInteraction, AddInteraction,
       DisambiguateNewInteraction, SnapshotInteraction, UpdateInteraction,
       DisambiguateInteraction, DisambiguateContactRef, DeleteInteraction, Committed, Reads, Goto
  <1> QED  BY <1>1, <1>2, <1>3, <1>4, <1>5, <1>6

\* A step that leaves the clients alone loads, forgets or keeps what is held.
LEMMA HeldStep ==
    ASSUME TypeOK, [Next]_vars, UNCHANGED clients
    PROVE  [Rows!Next]_<<clients, Held>>
  <1>1. CASE UNCHANGED vars
    BY <1>1 DEF vars, Held
  <1>2. CASE ~UNCHANGED vars
    <2>1. PICK w \in Caller : \A v \in Caller : v # w => call'[v] = call[v]
      BY <1>2, OneCaller
    <2>2. \A v \in Caller : v # w => Held'[v] = Held[v]
      BY <2>1 DEF Held
    <2>3. CASE call'[w].op \notin ClientEdits
      <3>1. Held' = [Held EXCEPT ![w] = None]
        BY <2>2, <2>3 DEF Held, ClientEdits
      <3> QED  BY <3>1 DEF Rows!Next, Rows!Forget
    <2>4. CASE call'[w].op \in ClientEdits /\ Loads(w)
      <3> DEFINE c == call'[w].client
      <3>1. c \in Client /\ clients[c].life = "live" /\ call'[w].seen = clients[c]
        BY <2>4 DEF Loads
      <3>2. Held' = [Held EXCEPT ![w] = [key |-> c, row |-> clients[c]]]
        BY <2>2, <2>4, <3>1 DEF Held, ClientEdits
      <3>3. Rows!Load(w, c)
        BY <3>1, <3>2 DEF Rows!Load
      <3> QED  BY <3>1, <3>3 DEF Rows!Next
    <2>5. CASE call'[w].op \in ClientEdits /\ ~Loads(w)
      <3>1. SameRequest(w) \/ Snapshots(w) \/ FindsNothing(w)
        BY <2>5, RequestSteps
      <3>2. Held'[w] = Held[w]
        BY <2>5, <3>1 DEF Held, SameRequest, Snapshots, FindsNothing, ClientEdits
      <3>3. Held' = Held
        BY <2>2, <3>2 DEF Held
      <3> QED  BY <3>3
    <2> QED  BY <2>3, <2>4, <2>5
  <1> QED  BY <1>1, <1>2

\* A step that changes the clients is one of the abstract row operations.
LEMMA RowStep ==
    ASSUME ClientInv, ClientInv', [Next]_vars, ~UNCHANGED clients
    PROVE  Rows!Next
  <1>0. TypeOK /\ TypeOK' /\ TablesTypeOK /\ SeenClients
    BY DEF ClientInv, TypeOK
  <1>1. ASSUME NEW c \in Client, NEW f \in Field, InsertClient(c, f), call' = call
        PROVE  Rows!Next
    <2>1. Rows!Create(c)
      BY <1>0, <1>1 DEF InsertClient, TablesTypeOK, Rows!Create, Rows!Others, Held
    <2> QED  BY <2>1 DEF Rows!Next
  <1>2. ASSUME NEW w \in Caller, Edit(w) PROVE Rows!Next
    <2> DEFINE c == call[w].client
    <2>1. /\ c \in Client /\ clients[c] \in ClientRow /\ clients[c].life = "live"
          /\ call[w].op \in ClientEdits /\ call[w].seen = clients[c] /\ call' = call
      <3>1. call[w] \in Calls /\ call[w].op \in ClientEdits
        BY <1>0, <1>2 DEF TypeOK, Edit, At, ClientEdits
      <3>2. c \in Client
        BY <3>1, CallTypes DEF ClientEdits
      <3> QED  BY <1>0, <1>2, <3>1, <3>2
               DEF Edit, ClientExists, ClientEdits, SeenClients, SeenClient, TablesTypeOK
    <2>2. \A d \in Client \ {c} : clients'[d] = clients[d]
      BY <1>0, <1>2 DEF Edit, ReplaceFields, MoveStatus, TablesTypeOK
    <2>3. clients'[c].life = "live" /\ clients'[c].version = clients[c].version + 1
      <3>1. CASE ReplaceFields(c, call[w].fields)
        <4>1. clients'[c] = Bump([clients[c] EXCEPT !.fields = call[w].fields])
          BY <1>0, <2>1, <3>1 DEF ReplaceFields, TablesTypeOK
        <4> QED  BY <2>1, <4>1 DEF Bump, ClientRow
      <3>2. CASE MoveStatus(c, call[w].status, call[w].reason, call[w].prev)
        BY <1>0, <2>1, <3>2 DEF MoveStatus, TablesTypeOK
      <3> QED  BY <1>2, <3>1, <3>2 DEF Edit
    <2>4. Held[w] = [key |-> c, row |-> clients[c]] /\ Held' = Held
      BY <2>1 DEF Held, ClientEdits
    <2>5. Rows!Replace(w, c)
      BY <2>1, <2>2, <2>3, <2>4 DEF Rows!Replace, Rows!Others
    <2> QED  BY <2>1, <2>5 DEF Rows!Next
  <1>3. ASSUME NEW c \in Client, ClientExists(c), CascadeClient(c), call' = call
        PROVE  Rows!Next
    <2>1. Rows!Delete(c)
      BY <1>0, <1>3 DEF ClientExists, CascadeClient, NoClientRow, TablesTypeOK, Rows!Delete, Rows!Others, Held
    <2> QED  BY <2>1 DEF Rows!Next
  <1> QED  BY <1>0, <1>1, <1>2, <1>3, ClientEffects

\* Any number of callers, each of whose requests is several commands that fail
\* or lose their answers, edit the clients as if every row were replaced in one
\* step by somebody who holds it as it is (ClientStore.UpdateAsync,
\* ChangeStatusAsync, CreateAsync and DeleteAsync).
THEOREM RowsImplemented == Spec => ImplementsVersionedRows
  <1>1. Init => Rows!Init
    BY DEF Init, EmptyTables, NoClientRow, Idle, Held, Rows!Init
  <1>2. ClientInv /\ ClientInv' /\ [Next]_vars => [Rows!Next]_<<clients, Held>>
    BY HeldStep, RowStep DEF ClientInv
  <1> QED  BY <1>1, <1>2, ClientInvariant, PTL DEF Spec, ImplementsVersionedRows, Rows!Spec

(***************************************************************************)
(* Clients: lost_reason and acquired_at.                                   *)
(***************************************************************************)
LEMMA LostReasonStep ==
    ASSUME TypeOK, LostReasonShape, [Next]_vars
    PROVE  LostReasonShape'
  <1> USE DEF TypeOK, TablesTypeOK
  <1> SUFFICES ASSUME NEW c \in Client
               PROVE  clients'[c].lostReason # None => clients'[c].status = Lost
    BY DEF LostReasonShape
  <1> DEFINE Shape == clients'[c].lostReason # None => clients'[c].status = Lost
  <1>1. CASE UNCHANGED <<clients, history>>
    BY <1>1 DEF LostReasonShape
  <1>2. ASSUME NEW d \in Client, NEW f \in Field, InsertClient(d, f) PROVE Shape
    BY <1>2 DEF InsertClient, LostReasonShape
  <1>3. ASSUME NEW w \in Caller, Edit(w) PROVE Shape
    <2> DEFINE d == call[w].client
    <2>1. d \in Client /\ clients[d] \in ClientRow
      BY <1>3, CallTypes DEF Edit, At
    <2>2. CASE ReplaceFields(d, call[w].fields)
      <3>1. clients'[c] = IF c = d THEN Bump([clients[d] EXCEPT !.fields = call[w].fields])
                                   ELSE clients[c]
        BY <2>1, <2>2 DEF ReplaceFields
      <3>2. clients'[c].lostReason = clients[c].lostReason /\ clients'[c].status = clients[c].status
        BY <2>1, <3>1 DEF Bump, ClientRow
      <3> QED  BY <3>2 DEF LostReasonShape
    <2>3. CASE MoveStatus(d, call[w].status, call[w].reason, call[w].prev)
      BY <2>1, <2>3 DEF MoveStatus, ReasonAfter, LostReasonShape
    <2> QED  BY <1>3, <2>2, <2>3 DEF Edit
  <1>4. ASSUME NEW d \in Client, CascadeClient(d) PROVE Shape
    BY <1>4 DEF CascadeClient, NoClientRow, LostReasonShape
  <1> QED  BY <1>1, <1>2, <1>3, <1>4, ClientEffects

\* No sequence of edits, transitions, retries and deletes of any number of
\* callers runs into the CHECK clients_lost_reason_shape (0002:40).
THEOREM LostReasonCorrect == Spec => []LostReasonShape
  <1>1. Init => LostReasonShape
    BY DEF Init, EmptyTables, NoClientRow, LostReasonShape
  <1>2. TypeOK /\ LostReasonShape /\ [Next]_vars => LostReasonShape'
    BY LostReasonStep
  <1> QED  BY <1>1, <1>2, TypeCorrect, PTL DEF Spec

\* The acquisition date of one client.
Acquired(c) ==
    LET h == history[c]
        activations == {j \in 1..Len(h) : h[j].to = ActiveClient}
        acquired == clients[c].acquiredAt IN
    /\ acquired = 0 <=> activations = {}
    /\ acquired # 0 => \E j \in activations :
                          h[j].at = acquired /\ \A i \in activations : j <= i

\* One more transition: the date is taken by the first activation only.
LEMMA AcquiredByMove ==
    ASSUME TypeOK, TypeOK', NEW c \in Client, Acquired(c), NEW s \in Status, NEW r, NEW p \in Status,
           MoveStatus(c, s, r, p)
    PROVE  Acquired(c)'
  <1> USE DEF TypeOK, TablesTypeOK
  <1> DEFINE h == history[c]
             next == [from |-> p, to |-> s, at |-> clients[c].version + 1]
             before == {j \in 1..Len(h) : h[j].to = ActiveClient}
             after == {j \in 1..Len(h') : h'[j].to = ActiveClient}
  <1>1. h \in Seq(HistoryRow) /\ clients[c].version \in Nat /\ next \in HistoryRow
    <2>1. clients[c] \in ClientRow /\ h \in Seq(HistoryRow)
      OBVIOUS
    <2>2. clients[c].version \in Nat
      BY <2>1 DEF ClientRow
    <2>3. next \in HistoryRow
      BY <2>2 DEF HistoryRow
    <2> QED  BY <2>1, <2>2, <2>3
  <1>2. h' = Append(h, next) /\ clients'[c].acquiredAt = AcquiredAfter(clients[c], s)
    BY DEF MoveStatus
  <1>3. /\ Len(h') = Len(h) + 1 /\ Len(h) \in Nat
        /\ h'[Len(h) + 1] = next
        /\ \A j \in 1..Len(h) : h'[j] = h[j]
    BY <1>1, <1>2
  <1>4. after = before \cup (IF s = ActiveClient THEN {Len(h) + 1} ELSE {})
    BY <1>3
  <1>5. next.at = clients[c].version + 1 /\ next.at # 0
    BY <1>1
  <1>6. CASE s = ActiveClient /\ clients[c].acquiredAt = 0
    <2>1. after = {Len(h) + 1}
      BY <1>4, <1>6 DEF Acquired
    <2>2. clients'[c].acquiredAt = next.at
      BY <1>2, <1>6 DEF AcquiredAfter
    <2>3. h'[Len(h) + 1].at = next.at /\ \A i \in after : Len(h) + 1 <= i
      BY <1>3, <2>1
    <2> QED  BY <1>5, <2>1, <2>2, <2>3 DEF Acquired
  <1>7. CASE ~(s = ActiveClient /\ clients[c].acquiredAt = 0)
    <2>1. clients'[c].acquiredAt = clients[c].acquiredAt
      BY <1>2, <1>7 DEF AcquiredAfter
    <2>2. CASE clients[c].acquiredAt = 0
      <3>1. after = {}
        BY <1>4, <1>7, <2>2 DEF Acquired
      <3> QED  BY <2>1, <2>2, <3>1 DEF Acquired
    <2>3. CASE clients[c].acquiredAt # 0
      <3>1. PICK j \in before : h[j].at = clients[c].acquiredAt /\ \A i \in before : j <= i
        BY <2>3 DEF Acquired
      <3>2. j \in after /\ h'[j].at = clients[c].acquiredAt
        BY <1>3, <1>4, <3>1
      <3>3. \A i \in after : j <= i
        <4>1. j \in 1..Len(h) /\ j <= Len(h) + 1
          BY <1>3, <3>1
        <4>2. \A i \in after : i \in before \/ i = Len(h) + 1
          BY <1>4
        <4> HIDE DEF before, after
        <4> QED  BY <3>1, <4>1, <4>2
      <3>4. after # {}
        BY <3>2
      <3>5. \E k \in after : h'[k].at = clients'[c].acquiredAt /\ \A i \in after : k <= i
        BY <2>1, <3>2, <3>3
      <3>6. clients'[c].acquiredAt # 0
        BY <2>1, <2>3
      <3> QED  BY <3>4, <3>5, <3>6 DEF Acquired
    <2> QED  BY <2>2, <2>3
  <1> QED  BY <1>6, <1>7

LEMMA AcquiredStep ==
    ASSUME ClientInv, ClientInv', [Next]_vars, NEW c \in Client, Acquired(c)
    PROVE  Acquired(c)'
  <1> USE DEF TypeOK, TablesTypeOK
  <1>0. TypeOK /\ TypeOK' /\ Blank /\ Blank'
    BY DEF ClientInv
  <1>1. CASE UNCHANGED <<clients[c], history[c]>>
    BY <1>1 DEF Acquired
  <1>2. CASE clients'[c].acquiredAt = 0 /\ history'[c] = <<>>
    BY <1>2 DEF Acquired
  <1>3. ASSUME NEW d \in Client, NEW f \in Field, InsertClient(d, f) PROVE Acquired(c)'
    <2>1. CASE c = d
      BY <1>0, <1>2, <1>3, <2>1 DEF InsertClient, Blank
    <2>2. CASE c # d
      BY <1>0, <1>1, <1>3, <2>2 DEF InsertClient
    <2> QED  BY <2>1, <2>2
  <1>4. ASSUME NEW w \in Caller, Edit(w) PROVE Acquired(c)'
    <2> DEFINE d == call[w].client
    <2>1. d \in Client /\ clients[d] \in ClientRow
      BY <1>0, <1>4, CallTypes DEF Edit, At
    <2>2. CASE c # d
      BY <1>0, <1>1, <1>4, <2>1, <2>2 DEF Edit, ReplaceFields, MoveStatus
    <2>3. CASE c = d /\ ReplaceFields(d, call[w].fields)
      <3>1. clients'[d] = Bump([clients[d] EXCEPT !.fields = call[w].fields])
        BY <1>0, <2>1, <2>3 DEF ReplaceFields
      <3>2. clients'[d].acquiredAt = clients[d].acquiredAt
        BY <2>1, <3>1 DEF Bump, ClientRow
      <3> QED  BY <2>3, <3>2 DEF ReplaceFields, Acquired
    <2>4. CASE /\ c = d /\ At(w, "snapped", "changeStatus")
               /\ MoveStatus(d, call[w].status, call[w].reason, call[w].prev)
      <3>1. call[w].status \in Status /\ call[w].prev \in Status
        BY <1>0, <2>4, CallTypes DEF At
      <3> QED  BY <1>0, <2>1, <2>4, <3>1, AcquiredByMove
    <2> QED  BY <1>4, <2>2, <2>3, <2>4 DEF Edit
  <1>5. ASSUME NEW d \in Client, CascadeClient(d) PROVE Acquired(c)'
    <2>1. CASE c = d
      BY <1>0, <1>2, <1>5, <2>1 DEF CascadeClient, NoClientRow
    <2>2. CASE c # d
      BY <1>0, <1>1, <1>5, <2>2 DEF CascadeClient
    <2> QED  BY <2>1, <2>2
  <1> QED  BY <1>0, <1>1, <1>3, <1>4, <1>5, ClientEffects

\* acquired_at is the date of the first recorded activation and stays it, for
\* any number of transitions there and back (ChangeStatusAsync's coalesce).
THEOREM AcquiredCorrect == Spec => []AcquiredAtFirstActivation
  <1> DEFINE Inv == \A c \in Client : Acquired(c)
  <1>1. Init => Inv
    <2> SUFFICES ASSUME Init, NEW c \in Client PROVE Acquired(c)
      OBVIOUS
    <2>1. history[c] = <<>> /\ clients[c].acquiredAt = 0
      BY DEF Init, EmptyTables, NoClientRow
    <2> QED  BY <2>1 DEF Acquired
  <1>2. ClientInv /\ ClientInv' /\ Inv /\ [Next]_vars => Inv'
    BY AcquiredStep
  <1>3. Inv => AcquiredAtFirstActivation
    BY DEF Acquired, AcquiredAtFirstActivation
  <1> HIDE DEF Inv
  <1> QED  BY <1>1, <1>2, <1>3, ClientInvariant, PTL DEF Spec

(***************************************************************************)
(* Contacts and interactions: what a step does to them.                    *)
(***************************************************************************)
\* A request that is to link an interaction, after its snapshot.
Linking(w) == pc[w] = "snapped" /\ call[w].op \in {"addInteraction", "updateInteraction"}

\* The statements on contacts and interactions with what they were decided on.
ContactEffect ==
    \/ \E c \in Client, k \in Contact, e \in Email \cup {None} :
          ClientExists(c) /\ ~EmailTaken(c, e, None) /\ InsertContact(c, k, e)
    \/ \E w \in Caller :
          LET k == call[w].contact IN
          /\ pc[w] = "checked" /\ call[w].op = "updateContact"
          /\ k \in Contact /\ call[w].email \in Email \cup {None}
          /\ ContactExists(call[w].client, k) /\ contacts[k].version = call[w].seen.version
          /\ ~EmailTaken(call[w].client, call[w].email, k)
          /\ ReplaceContact(k, call[w].email)
          /\ call' = call /\ \E a \in Answer : pc' = [pc EXCEPT ![w] = a]
    \/ \E c \in Client, k \in Contact : ContactExists(c, k) /\ DetachContact(k)

InteractionEffect ==
    \/ \E w \in Caller, i \in Interaction :
          /\ Linking(w) /\ call[w].client \in Client /\ call[w].contact \in Contact \cup {None}
          /\ ClientExists(call[w].client) /\ ContactRefHolds(call[w].contact)
          /\ InsertInteraction(call[w].client, i, call[w].contact)
    \/ \E w \in Caller :
          /\ Linking(w) /\ call[w].op = "updateInteraction"
          /\ call[w].interaction \in Interaction /\ call[w].contact \in Contact \cup {None}
          /\ InteractionMatches(w) /\ ContactRefHolds(call[w].contact)
          /\ ReplaceInteraction(call[w].interaction, call[w].contact)
          /\ call' = call /\ \E a \in Answer : pc' = [pc EXCEPT ![w] = a]
    \/ \E c \in Client, i \in Interaction : InteractionExists(c, i) /\ DropInteraction(i)

LEMMA ChildEffects ==
    ASSUME TypeOK, [Next]_vars
    PROVE  \/ UNCHANGED <<contacts, interactions>>
           \/ \E c \in Client : ClientExists(c) /\ CascadeClient(c)
           \/ ContactEffect
           \/ InteractionEffect
  <1> USE DEF TypeOK
  <1> DEFINE Still == UNCHANGED <<contacts, interactions>>
             Cascade == \E c \in Client : ClientExists(c) /\ CascadeClient(c)
  <1> SUFFICES ASSUME NEW w \in Caller,
                      Start(w) \/ Finish(w) \/ Retry(w) \/ Fail(w)
                      \/ ClientStep(w) \/ ContactStep(w) \/ InteractionStep(w)
               PROVE  Still \/ Cascade \/ ContactEffect \/ InteractionEffect
    BY DEF Next, vars
  <1>0. call[w] \in Calls
    OBVIOUS
  <1>00. Committed(w) => call' = call /\ \E a \in Answer : pc' = [pc EXCEPT ![w] = a]
    BY DEF Committed, Goto, Answer
  <1>1. CASE Start(w)
    BY <1>1 DEF Start, Issue, tables, StartCreateClient, StartUpdateClient, StartChangeStatus,
        StartDeleteClient, StartAddContact, StartUpdateContact, StartDeleteContact,
        StartAddInteraction, StartUpdateInteraction, StartDeleteInteraction
  <1>2. CASE Finish(w) \/ Retry(w) \/ Fail(w)
    BY <1>2 DEF Finish, Retry, Fail, Reads, tables
  <1>3. CASE ClientStep(w)
    <2>1. CASE DeleteClient(w)
      <3>1. call[w].client \in Client
        BY <1>0, <2>1, CallTypes DEF DeleteClient, At
      <3> QED  BY <2>1, <3>1 DEF DeleteClient, Reads, tables
    <2>2. CASE CreateClient(w) \/ UpdateClient(w) \/ SnapshotStatus(w) \/ ChangeStatus(w)
               \/ DisambiguateClient(w)
      BY <2>2 DEF CreateClient, UpdateClient, SnapshotStatus, ChangeStatus, DisambiguateClient,
         InsertClient, ReplaceFields, MoveStatus, Reads, tables
    <2> QED  BY <1>3, <2>1, <2>2 DEF ClientStep
  <1>4. CASE ContactStep(w)
    <2>1. CASE AddContact(w)
      <3>1. call[w].client \in Client /\ call[w].email \in Email \cup {None}
        BY <1>0, <2>1, CallTypes DEF AddContact, At
      <3> QED  BY <2>1, <3>1 DEF AddContact, ContactEffect, Reads, tables
    <2>2. CASE UpdateContact(w)
      <3>1. call[w].contact \in Contact /\ call[w].email \in Email \cup {None}
        BY <1>0, <2>2, CallTypes DEF UpdateContact, At
      <3>2. CASE Still
        BY <3>2
      <3>3. CASE ~Still
        BY <1>00, <2>2, <3>1, <3>3 DEF UpdateContact, At, ContactEffect, Reads, tables
      <3> QED  BY <3>2, <3>3
    <2>3. CASE DeleteContact(w)
      <3>1. call[w].client \in Client /\ call[w].contact \in Contact
        BY <1>0, <2>3, CallTypes DEF DeleteContact, At
      <3> QED  BY <2>3, <3>1 DEF DeleteContact, ContactEffect, Reads, tables
    <2>4. CASE CheckNewContact(w) \/ SnapshotNewContact(w) \/ CheckEditedContact(w)
               \/ DisambiguateClash(w) \/ DisambiguateContact(w)
      BY <2>4 DEF CheckNewContact, SnapshotNewContact, CheckEditedContact, DisambiguateClash,
         DisambiguateContact, Reads, tables
    <2> QED  BY <1>4, <2>1, <2>2, <2>3, <2>4 DEF ContactStep
  <1>5. CASE InteractionStep(w)
    <2>1. CASE AddInteraction(w)
      <3>1. call[w].client \in Client /\ call[w].contact \in Contact \cup {None}
        BY <1>0, <2>1, CallTypes DEF AddInteraction, At
      <3> QED  BY <2>1, <3>1 DEF AddInteraction, At, Linking, InteractionEffect, Reads, tables
    <2>2. CASE UpdateInteraction(w)
      <3>1. call[w].interaction \in Interaction /\ call[w].contact \in Contact \cup {None}
        BY <1>0, <2>2, CallTypes DEF UpdateInteraction, At
      <3>2. CASE Still
        BY <3>2
      <3>3. CASE ~Still
        BY <1>00, <2>2, <3>1, <3>3 DEF UpdateInteraction, At, Linking, InteractionEffect, Reads, tables
      <3> QED  BY <3>2, <3>3
    <2>3. CASE DeleteInteraction(w)
      <3>1. call[w].client \in Client /\ call[w].interaction \in Interaction
        BY <1>0, <2>3, CallTypes DEF DeleteInteraction, At
      <3> QED  BY <2>3, <3>1 DEF DeleteInteraction, InteractionEffect, Reads, tables
    <2>4. CASE SnapshotNewInteraction(w) \/ DisambiguateNewInteraction(w) \/ SnapshotInteraction(w)
               \/ DisambiguateInteraction(w) \/ DisambiguateContactRef(w)
      BY <2>4 DEF SnapshotNewInteraction, DisambiguateNewInteraction, SnapshotInteraction,
         DisambiguateInteraction, DisambiguateContactRef, Reads, tables
    <2> QED  BY <1>5, <2>1, <2>2, <2>3, <2>4 DEF InteractionStep
  <1> QED  BY <1>1, <1>2, <1>3, <1>4, <1>5

\* How one row of contacts may change in a step: its client never does.
ContactEvolves(old, new) ==
    \/ new = old
    \/ old.life = "unborn"
    \/ new.life = "gone"
    \/ /\ old.life = "live" /\ new.life = "live" /\ new.client = old.client
       /\ new.version = old.version + 1

LEMMA ContactsEvolve ==
    ASSUME TypeOK, [Next]_vars, NEW k \in Contact
    PROVE  ContactEvolves(contacts[k], contacts'[k])
  <1> USE DEF TypeOK, TablesTypeOK
  <1>1. CASE contacts'[k] = contacts[k]
    BY <1>1 DEF ContactEvolves
  <1>2. ASSUME NEW c \in Client, CascadeClient(c) PROVE ContactEvolves(contacts[k], contacts'[k])
    BY <1>2 DEF CascadeClient, NoContactRow, ContactEvolves
  <1>3. ASSUME NEW c \in Client, NEW m \in Contact, NEW e \in Email \cup {None},
               InsertContact(c, m, e)
        PROVE  ContactEvolves(contacts[k], contacts'[k])
    BY <1>3 DEF InsertContact, ContactEvolves
  <1>4. ASSUME NEW m \in Contact, NEW e \in Email \cup {None}, contacts[m].life = "live",
               ReplaceContact(m, e)
        PROVE  ContactEvolves(contacts[k], contacts'[k])
    <2>1. contacts[m] \in ContactRow
      OBVIOUS
    <2>2. contacts'[k] = IF k = m THEN Bump([contacts[m] EXCEPT !.email = e]) ELSE contacts[k]
      BY <1>4 DEF ReplaceContact
    <2>3. LET new == Bump([contacts[m] EXCEPT !.email = e]) IN
          /\ new.life = "live" /\ new.client = contacts[m].client
          /\ new.version = contacts[m].version + 1
      BY <1>4, <2>1 DEF Bump, ContactRow
    <2> QED  BY <1>4, <2>2, <2>3 DEF ContactEvolves
  <1>5. ASSUME NEW m \in Contact, DetachContact(m)
        PROVE  ContactEvolves(contacts[k], contacts'[k])
    BY <1>5 DEF DetachContact, NoContactRow, ContactEvolves
  <1>6. CASE ContactEffect
    BY <1>3, <1>4, <1>5, <1>6 DEF ContactEffect, ContactExists
  <1>7. CASE InteractionEffect
    BY <1>1, <1>7 DEF InteractionEffect, InsertInteraction, ReplaceInteraction, DropInteraction
  <1> QED  BY <1>1, <1>2, <1>6, <1>7, ChildEffects

(***************************************************************************)
(* Links.  The foreign key accepts any client's contact, and the statement *)
(* looks at the client on its snapshot only: that it was this client's     *)
(* contact then is enough because a contact never changes its client and   *)
(* never comes back.                                                       *)
(***************************************************************************)
LinkKnown(w) ==
    LET k == call[w].contact IN
    Linking(w) /\ k # None =>
        /\ contacts[k].life # "unborn"
        /\ contacts[k].life = "live" => contacts[k].client = call[w].client

\* What was there is still so, or has just been read.
LEMMA LinkingSteps ==
    ASSUME TypeOK, [Next]_vars, NEW v \in Caller, Linking(v)'
    PROVE  /\ call'[v] = call[v]
           /\ \/ Linking(v)
              \/ contacts' = contacts /\ ContactRefOK(call[v].client, call[v].contact)
  <1> USE DEF TypeOK
  <1> DEFINE Goal == /\ call'[v] = call[v]
                     /\ \/ Linking(v)
                        \/ contacts' = contacts /\ ContactRefOK(call[v].client, call[v].contact)
  <1>1. CASE call'[v] = call[v] /\ pc'[v] = pc[v]
    BY <1>1 DEF Linking
  <1> SUFFICES ASSUME NEW w \in Caller, pc'[v] = "snapped",
                      Start(w) \/ Finish(w) \/ Retry(w) \/ Fail(w)
                      \/ ClientStep(w) \/ ContactStep(w) \/ InteractionStep(w)
               PROVE  Goal
    BY <1>1 DEF Next, vars, Linking
  <1>2. CASE Start(w)
    <2>1. /\ pc' = [pc EXCEPT ![w] = "submitted"]
          /\ \E r : call' = [call EXCEPT ![w] = r]
      BY <1>2 DEF Start, Issue, StartCreateClient, StartUpdateClient, StartChangeStatus,
        StartDeleteClient, StartAddContact, StartUpdateContact, StartDeleteContact,
        StartAddInteraction, StartUpdateInteraction, StartDeleteInteraction
    <2> QED  BY <1>1, <2>1
  <1>3. CASE Finish(w) \/ Retry(w) \/ Fail(w)
    BY <1>1, <1>3 DEF Finish, Retry, Fail, Reads, Goto
  <1>4. CASE ClientStep(w)
    <2>1. CASE SnapshotStatus(w)
      <3>1. v = w => call'[v].op = "changeStatus"
        BY <2>1 DEF SnapshotStatus, At, Goto, Calls, Idle
      <3> QED  BY <1>1, <2>1, <3>1 DEF SnapshotStatus, Goto, Linking
    <2>2. CASE CreateClient(w) \/ UpdateClient(w) \/ ChangeStatus(w) \/ DisambiguateClient(w)
               \/ DeleteClient(w)
      BY <1>1, <2>2 DEF CreateClient, UpdateClient, ChangeStatus, DisambiguateClient, DeleteClient,
         Committed, Reads, Goto
    <2> QED  BY <1>4, <2>1, <2>2 DEF ClientStep
  <1>5. CASE ContactStep(w)
    <2>1. call' = call /\ call[w].op \notin {"addInteraction", "updateInteraction"}
      BY <1>5 DEF ContactStep, CheckNewContact, SnapshotNewContact, AddContact, CheckEditedContact,
        DisambiguateClash, UpdateContact, DisambiguateContact, DeleteContact, At, Committed, Reads, Goto
    <2>2. \E label : pc' = [pc EXCEPT ![w] = label]
      BY <1>5 DEF ContactStep, CheckNewContact, SnapshotNewContact, AddContact, CheckEditedContact,
        DisambiguateClash, UpdateContact, DisambiguateContact, DeleteContact, Committed, Reads, Goto
    <2> QED  BY <1>1, <2>1, <2>2 DEF Linking
  <1>6. CASE InteractionStep(w)
    <2>1. CASE SnapshotNewInteraction(w) \/ SnapshotInteraction(w)
      BY <1>1, <2>1 DEF SnapshotNewInteraction, SnapshotInteraction, Reads, Goto, tables
    <2>2. CASE AddInteraction(w) \/ DisambiguateNewInteraction(w) \/ UpdateInteraction(w)
               \/ DisambiguateInteraction(w) \/ DisambiguateContactRef(w) \/ DeleteInteraction(w)
      BY <1>1, <2>2 DEF AddInteraction, DisambiguateNewInteraction, UpdateInteraction,
         DisambiguateInteraction, DisambiguateContactRef, DeleteInteraction, Committed, Reads, Goto
    <2> QED  BY <1>6, <2>1, <2>2 DEF InteractionStep
  <1> QED  BY <1>2, <1>3, <1>4, <1>5, <1>6

LEMMA LinkKnownStep ==
    ASSUME TypeOK, TypeOK', [Next]_vars, NEW v \in Caller, LinkKnown(v)
    PROVE  LinkKnown(v)'
  <1> SUFFICES ASSUME Linking(v)', call'[v].contact # None
               PROVE  LET k == call'[v].contact IN
                      /\ contacts'[k].life # "unborn"
                      /\ contacts'[k].life = "live" => contacts'[k].client = call'[v].client
    BY DEF LinkKnown
  <1> DEFINE k == call[v].contact
  <1>1. call'[v] = call[v] /\ (Linking(v) \/ (contacts' = contacts /\ ContactRefOK(call[v].client, k)))
    BY LinkingSteps
  <1>2. k \in Contact
    BY <1>1, CallTypes DEF TypeOK, Linking
  <1>3. ContactEvolves(contacts[k], contacts'[k]) /\ contacts[k].life \in Life /\ contacts'[k].life \in Life
    BY <1>2, ContactsEvolve DEF TypeOK, TablesTypeOK, ContactRow
  <1>4. CASE Linking(v)
    BY <1>1, <1>3, <1>4 DEF LinkKnown, ContactEvolves, Life
  <1>5. CASE contacts' = contacts /\ ContactRefOK(call[v].client, k)
    BY <1>1, <1>5 DEF ContactRefOK, ContactExists
  <1> QED  BY <1>1, <1>4, <1>5


(***************************************************************************)
(* The keys between the tables, as one inductive invariant.                *)
(***************************************************************************)
Owned ==
    /\ \A k \in Contact : contacts[k].life = "live" =>
          contacts[k].client \in Client /\ ClientExists(contacts[k].client)
    /\ \A i \in Interaction : interactions[i].life = "live" =>
          interactions[i].client \in Client /\ ClientExists(interactions[i].client)
    /\ \A i \in Interaction : interactions[i].life # "live" => interactions[i].contact = None

KeysInv ==
    ClientInv /\ OneContactPerEmail /\ Owned /\ ContactIsOwn /\ \A w \in Caller : LinkKnown(w)

\* A client that is there stays unless it is deleted, with all it owns.
LEMMA ClientsStay ==
    ASSUME TypeOK, [Next]_vars, NEW c \in Client, ClientExists(c)
    PROVE  ClientExists(c)' \/ CascadeClient(c)
  <1> USE DEF TypeOK, TablesTypeOK
  <1>1. CASE UNCHANGED <<clients, history>>
    BY <1>1 DEF ClientExists
  <1>2. ASSUME NEW d \in Client, NEW f \in Field, InsertClient(d, f) PROVE ClientExists(c)'
    BY <1>2 DEF InsertClient, ClientExists
  <1>3. ASSUME NEW w \in Caller, Edit(w) PROVE ClientExists(c)'
    <2> DEFINE d == call[w].client
    <2>1. d \in Client /\ clients[d] \in ClientRow /\ clients[d].life = "live"
      BY <1>3, CallTypes DEF Edit, At, ClientExists
    <2>2. CASE ReplaceFields(d, call[w].fields)
      <3>1. clients'[c] = IF c = d THEN Bump([clients[d] EXCEPT !.fields = call[w].fields])
                                   ELSE clients[c]
        BY <2>1, <2>2 DEF ReplaceFields
      <3> QED  BY <2>1, <3>1 DEF Bump, ClientRow, ClientExists
    <2>3. CASE MoveStatus(d, call[w].status, call[w].reason, call[w].prev)
      BY <2>1, <2>3 DEF MoveStatus, ClientExists
    <2> QED  BY <1>3, <2>2, <2>3 DEF Edit
  <1>4. ASSUME NEW d \in Client, CascadeClient(d) PROVE ClientExists(c)' \/ CascadeClient(c)
    BY <1>4 DEF CascadeClient, ClientExists
  <1> QED  BY <1>1, <1>2, <1>3, <1>4, ClientEffects

\* The parts of the invariant about contacts and interactions.
Keys == OneContactPerEmail /\ Owned /\ ContactIsOwn

LEMMA KeysStill ==
    ASSUME TypeOK, [Next]_vars, Keys, UNCHANGED <<contacts, interactions>>
    PROVE  Keys'
  <1>1. OneContactPerEmail' /\ ContactIsOwn'
    BY DEF Keys, OneContactPerEmail, ContactIsOwn, ContactExists
  <1>2. ASSUME NEW k \in Contact, contacts'[k].life = "live"
        PROVE  contacts'[k].client \in Client /\ clients'[contacts'[k].client].life = "live"
    BY <1>2, ClientsStay DEF Keys, Owned, ClientExists, ContactExists, CascadeClient, NoContactRow
  <1>3. ASSUME NEW i \in Interaction, interactions'[i].life = "live"
        PROVE  interactions'[i].client \in Client /\ clients'[interactions'[i].client].life = "live"
    BY <1>3, ClientsStay DEF Keys, Owned, ClientExists, InteractionExists, CascadeClient, NoInteractionRow
  <1>4. \A i \in Interaction : interactions'[i].life # "live" => interactions'[i].contact = None
    BY DEF Keys, Owned
  <1> QED  BY <1>1, <1>2, <1>3, <1>4 DEF Keys, Owned, ClientExists

LEMMA KeysCascade ==
    ASSUME TypeOK, Keys, NEW c \in Client, CascadeClient(c)
    PROVE  Keys'
  <1> USE DEF TypeOK, TablesTypeOK
  <1>1. \A k \in Contact : \/ contacts'[k].life = "gone"
                           \/ contacts'[k] = contacts[k] /\ ~ContactExists(c, k)
    BY DEF CascadeClient, NoContactRow
  <1>2. \A i \in Interaction :
           \/ interactions'[i].life = "gone" /\ interactions'[i].contact = None
           \/ interactions'[i] = interactions[i] /\ ~InteractionExists(c, i)
    BY DEF CascadeClient, NoInteractionRow
  <1>3. \A d \in Client \ {c} : clients'[d] = clients[d]
    BY DEF CascadeClient
  <1>4. OneContactPerEmail'
    BY <1>1 DEF Keys, OneContactPerEmail
  <1>5. Owned'
    <2>1. ASSUME NEW k \in Contact, contacts'[k].life = "live"
          PROVE  contacts'[k].client \in Client /\ clients'[contacts'[k].client].life = "live"
      <3>1. contacts'[k] = contacts[k] /\ contacts[k].life = "live" /\ contacts[k].client # c
        BY <1>1, <2>1 DEF ContactExists
      <3>2. contacts[k].client \in Client /\ clients[contacts[k].client].life = "live"
        BY <3>1 DEF Keys, Owned, ClientExists
      <3> QED  BY <1>3, <3>1, <3>2
    <2>2. ASSUME NEW i \in Interaction, interactions'[i].life = "live"
          PROVE  interactions'[i].client \in Client /\ clients'[interactions'[i].client].life = "live"
      <3>1. interactions'[i] = interactions[i] /\ interactions[i].life = "live"
            /\ interactions[i].client # c
        BY <1>2, <2>2 DEF InteractionExists
      <3>2. interactions[i].client \in Client /\ clients[interactions[i].client].life = "live"
        BY <3>1 DEF Keys, Owned, ClientExists
      <3> QED  BY <1>3, <3>1, <3>2
    <2>3. \A i \in Interaction : interactions'[i].life # "live" => interactions'[i].contact = None
      BY <1>2 DEF Keys, Owned
    <2> QED  BY <2>1, <2>2, <2>3 DEF Owned, ClientExists
  <1>6. ASSUME NEW i \in Interaction, interactions'[i].contact # None
        PROVE  LET k == interactions'[i].contact IN
               contacts'[k].life = "live" /\ contacts'[k].client = interactions'[i].client
    <2> DEFINE k == interactions[i].contact
    <2>1. interactions'[i] = interactions[i] /\ interactions[i].life = "live"
          /\ interactions[i].client # c
      BY <1>2, <1>6 DEF Keys, Owned, InteractionExists
    <2>2. k \in Contact /\ ContactExists(interactions[i].client, k)
      BY <1>6, <2>1 DEF Keys, ContactIsOwn, InteractionRow
    <2>3. contacts'[k] = contacts[k]
      BY <2>1, <2>2 DEF CascadeClient, ContactExists
    <2> QED  BY <2>1, <2>2, <2>3 DEF ContactExists
  <1> QED  BY <1>4, <1>5, <1>6 DEF Keys, ContactIsOwn, ContactExists

LEMMA KeysContact ==
    ASSUME TypeOK, Keys, ContactEffect
    PROVE  Keys'
  <1> USE DEF TypeOK, TablesTypeOK
  <1>1. ASSUME NEW c \in Client, NEW k \in Contact, NEW e \in Email \cup {None},
               ClientExists(c), ~EmailTaken(c, e, None), InsertContact(c, k, e)
        PROVE  Keys'
    <2>1. /\ contacts'[k] = [life |-> "live", version |-> 1, client |-> c, email |-> e]
          /\ contacts[k].life = "unborn" /\ UNCHANGED <<clients, interactions>>
          /\ \A m \in Contact \ {k} : contacts'[m] = contacts[m]
      BY <1>1 DEF InsertContact
    <2>2. OneContactPerEmail'
      <3>1. \A m \in Contact : ContactExists(c, m) /\ e # None => contacts[m].email # e
        BY <1>1, NoneAssumption DEF EmailTaken
      <3> QED  BY <2>1, <3>1 DEF Keys, OneContactPerEmail, ContactExists
    <2>3. Owned'
      BY <1>1, <2>1 DEF Keys, Owned, ClientExists
    <2>4. ContactIsOwn'
      BY <2>1 DEF Keys, ContactIsOwn, ContactExists, InteractionRow
    <2> QED  BY <2>2, <2>3, <2>4 DEF Keys
  <1>2. ASSUME NEW c, NEW k \in Contact, NEW e \in Email \cup {None},
               ContactExists(c, k), ~EmailTaken(c, e, k), ReplaceContact(k, e)
        PROVE  Keys'
    <2>1. contacts[k] \in ContactRow
      OBVIOUS
    <2>2. /\ contacts'[k] = Bump([contacts[k] EXCEPT !.email = e])
          /\ UNCHANGED <<clients, interactions>>
          /\ \A m \in Contact \ {k} : contacts'[m] = contacts[m]
      BY <1>2 DEF ReplaceContact
    <2>3. /\ contacts'[k].life = "live" /\ contacts'[k].client = c /\ contacts'[k].email = e
          /\ contacts[k].life = "live" /\ contacts[k].client = c
      BY <1>2, <2>1, <2>2 DEF Bump, ContactRow, ContactExists
    <2>4. OneContactPerEmail'
      <3>1. \A m \in Contact \ {k} : ContactExists(c, m) /\ e # None => contacts[m].email # e
        BY <1>2 DEF EmailTaken
      <3> QED  BY <2>2, <2>3, <3>1 DEF Keys, OneContactPerEmail, ContactExists
    <2>5. \A m \in Contact : /\ contacts'[m].life = contacts[m].life
                             /\ contacts'[m].client = contacts[m].client
      BY <2>2, <2>3
    <2>6. clients' = clients /\ interactions' = interactions
      BY <2>2
    <2>7. Owned'
      BY <2>5, <2>6 DEF Keys, Owned, ClientExists
    <2>8. ContactIsOwn'
      BY <2>5, <2>6 DEF Keys, ContactIsOwn, ContactExists, InteractionRow
    <2> QED  BY <2>4, <2>7, <2>8 DEF Keys
  <1>3. ASSUME NEW c \in Client, NEW k \in Contact, ContactExists(c, k), DetachContact(k)
        PROVE  Keys'
    <2>1. /\ contacts'[k].life = "gone" /\ UNCHANGED clients
          /\ \A m \in Contact \ {k} : contacts'[m] = contacts[m]
      BY <1>3 DEF DetachContact, NoContactRow
    <2>2. ASSUME NEW i \in Interaction
          PROVE  /\ interactions'[i].life = interactions[i].life
                 /\ interactions'[i].client = interactions[i].client
                 /\ interactions'[i].contact =
                      IF interactions[i].contact = k THEN None ELSE interactions[i].contact
      <3>1. interactions[i] \in InteractionRow
        OBVIOUS
      <3>2. interactions'[i] = IF interactions[i].contact = k
                               THEN [interactions[i] EXCEPT !.contact = None] ELSE interactions[i]
        BY <1>3 DEF DetachContact
      <3> QED  BY <3>1, <3>2 DEF InteractionRow
    <2>3. OneContactPerEmail'
      BY <2>1 DEF Keys, OneContactPerEmail
    <2>4. Owned'
      BY <2>1, <2>2 DEF Keys, Owned, ClientExists
    <2>5. ContactIsOwn'
      BY <2>1, <2>2 DEF Keys, ContactIsOwn, ContactExists, InteractionRow
    <2> QED  BY <2>3, <2>4, <2>5 DEF Keys
  <1> QED  BY <1>1, <1>2, <1>3 DEF ContactEffect

LEMMA KeysInteraction ==
    ASSUME TypeOK, Keys, \A w \in Caller : LinkKnown(w), InteractionEffect
    PROVE  Keys'
  <1> USE DEF TypeOK, TablesTypeOK
  \* What the snapshot showed of the contact, and the foreign key shows now.
  <1>0. ASSUME NEW w \in Caller, Linking(w), ContactRefHolds(call[w].contact), call[w].contact # None
        PROVE  ContactExists(call[w].client, call[w].contact)
    BY <1>0 DEF LinkKnown, ContactRefHolds, ContactExists
  <1>1. ASSUME NEW w \in Caller, NEW i \in Interaction, Linking(w), call[w].client \in Client,
               ClientExists(call[w].client), ContactRefHolds(call[w].contact),
               InsertInteraction(call[w].client, i, call[w].contact)
        PROVE  Keys'
    <2>1. /\ interactions'[i] = [life |-> "live", version |-> 1, client |-> call[w].client,
                                 contact |-> call[w].contact]
          /\ UNCHANGED <<clients, contacts>>
          /\ \A j \in Interaction \ {i} : interactions'[j] = interactions[j]
      BY <1>1 DEF InsertInteraction
    <2>2. call[w].contact # None => ContactExists(call[w].client, call[w].contact)
      BY <1>0, <1>1
    <2>3. ContactIsOwn'
      BY <2>1, <2>2 DEF Keys, ContactIsOwn, ContactExists
    <2>4. clients' = clients /\ contacts' = contacts
      BY <2>1
    <2>5. OneContactPerEmail'
      BY <2>4 DEF Keys, OneContactPerEmail
    <2>6. Owned'
      <3>1. ASSUME NEW j \in Interaction
            PROVE  /\ interactions'[j].life = "live" =>
                        /\ interactions'[j].client \in Client
                        /\ clients[interactions'[j].client].life = "live"
                   /\ interactions'[j].life # "live" => interactions'[j].contact = None
        <4>1. CASE j = i
          BY <1>1, <2>1, <4>1 DEF ClientExists
        <4>2. CASE j # i
          BY <2>1, <4>2 DEF Keys, Owned, ClientExists
        <4> QED  BY <4>1, <4>2
      <3> QED  BY <2>4, <3>1 DEF Keys, Owned, ClientExists
    <2> QED  BY <2>3, <2>5, <2>6 DEF Keys
  <1>2. ASSUME NEW w \in Caller, Linking(w), call[w].interaction \in Interaction,
               InteractionMatches(w), ContactRefHolds(call[w].contact),
               ReplaceInteraction(call[w].interaction, call[w].contact)
        PROVE  Keys'
    <2> DEFINE i == call[w].interaction
    <2>1. interactions[i] \in InteractionRow
      BY <1>2
    <2>2. /\ interactions'[i] = Bump([interactions[i] EXCEPT !.contact = call[w].contact])
          /\ UNCHANGED <<clients, contacts>>
          /\ \A j \in Interaction \ {i} : interactions'[j] = interactions[j]
      BY <1>2 DEF ReplaceInteraction
    <2>3. /\ interactions'[i].life = "live" /\ interactions'[i].client = interactions[i].client
          /\ interactions'[i].contact = call[w].contact
          /\ interactions[i].life = "live" /\ interactions[i].client = call[w].client
      BY <1>2, <2>1, <2>2 DEF Bump, InteractionRow, InteractionMatches, InteractionExists
    <2>4. ContactIsOwn'
      BY <1>0, <1>2, <2>2, <2>3 DEF Keys, ContactIsOwn, ContactExists
    <2> QED  BY <1>2, <2>2, <2>3, <2>4 DEF Keys, OneContactPerEmail, Owned, ClientExists
  <1>3. ASSUME NEW i \in Interaction, DropInteraction(i) PROVE Keys'
    <2>1. /\ interactions'[i].life = "gone" /\ interactions'[i].contact = None
          /\ UNCHANGED <<clients, contacts>>
          /\ \A j \in Interaction \ {i} : interactions'[j] = interactions[j]
      BY <1>3 DEF DropInteraction, NoInteractionRow
    <2> QED  BY <2>1 DEF Keys, OneContactPerEmail, Owned, ContactIsOwn, ClientExists, ContactExists
  <1> QED  BY <1>1, <1>2, <1>3 DEF InteractionEffect

LEMMA KeysInvInit == Init => KeysInv
  <1> SUFFICES ASSUME Init PROVE KeysInv
    OBVIOUS
  <1>1. ClientInv
    BY ClientInvInit
  <1>2. OneContactPerEmail /\ Owned /\ ContactIsOwn
    BY DEF Init, EmptyTables, NoContactRow, NoInteractionRow, OneContactPerEmail, Owned, ContactIsOwn
  <1>3. \A w \in Caller : LinkKnown(w)
    BY DEF Init, LinkKnown, Linking
  <1> QED  BY <1>1, <1>2, <1>3 DEF KeysInv

LEMMA KeysInvStep == KeysInv /\ [Next]_vars => KeysInv'
  <1> SUFFICES ASSUME KeysInv, [Next]_vars PROVE KeysInv'
    OBVIOUS
  <1>1. ClientInv /\ ClientInv' /\ TypeOK /\ TypeOK'
    BY ClientInvStep DEF KeysInv, ClientInv
  <1>2. \A w \in Caller : LinkKnown(w)'
    BY <1>1, LinkKnownStep DEF KeysInv
  <1>3. Keys'
    BY <1>1, ChildEffects, KeysStill, KeysCascade, KeysContact, KeysInteraction DEF KeysInv, Keys
  <1> QED  BY <1>1, <1>2, <1>3 DEF KeysInv, Keys

LEMMA KeysInvariant == Spec => []KeysInv
  BY KeysInvInit, KeysInvStep, PTL DEF Spec

\* No two contacts of a client share an email, whatever adds and edits race
\* between the advisory check and the write (AddContactAsync, UpdateContactAsync).
THEOREM EmailsUnique == Spec => []OneContactPerEmail
  BY KeysInvariant, PTL DEF KeysInv

\* A deleted client leaves no contact, interaction or history row behind,
\* whatever inserts race its delete (DeleteAsync and the cascades of 0001, 0002).
THEOREM NoOrphansLeft == Spec => []NoOrphans
  <1>1. KeysInv => NoOrphans
    BY DEF KeysInv, ClientInv, Owned, Blank, NoOrphans, ClientExists
  <1> QED  BY <1>1, KeysInvariant, PTL

\* An interaction links only to a live contact of its own client, although the
\* contact is looked up on a snapshot and the foreign key takes anybody's.
THEOREM LinksAreOwn == Spec => []ContactIsOwn
  BY KeysInvariant, PTL DEF KeysInv

(***************************************************************************)
(* What a step does to a request on a contact or an interaction.           *)
(***************************************************************************)
ChildEdits == {"updateContact", "addInteraction", "updateInteraction"}

\* The request is picked from rows that its caller has been shown.
Picks(v) ==
    LET r == call'[v] IN
    /\ UNCHANGED tables /\ pc'[v] = "submitted"
    /\ r.op = "updateContact" =>
          contacts[r.contact].life = "live" /\ r.seen = contacts[r.contact]
    /\ r.op = "addInteraction" => clients[r.client].life # "unborn"
    /\ r.op = "updateInteraction" =>
          interactions[r.interaction].life = "live" /\ r.seen = interactions[r.interaction]
    /\ (r.op # "updateContact" /\ r.contact # None) => contacts[r.contact].life # "unborn"

KeepsOn(v) ==
    call'[v] = call[v] /\ (pc'[v] = pc[v] \/ pc'[v] \notin {"zeroRows", "rowFound"})

MatchesNothing(v) ==
    LET r == call[v] IN
    /\ UNCHANGED tables /\ call'[v] = r /\ pc'[v] = "zeroRows"
    /\ r.op = "updateContact" =>
          ~(ContactExists(r.client, r.contact) /\ contacts[r.contact].version = r.seen.version)
    /\ r.op = "addInteraction" => ~(ClientExists(r.client) /\ ContactRefOK(r.client, r.contact))
    /\ r.op = "updateInteraction" => ~(InteractionMatches(v) /\ ContactRefOK(r.client, r.contact))

FindsTheRow(v) ==
    /\ UNCHANGED tables /\ call'[v] = call[v] /\ pc'[v] = "rowFound"
    /\ pc[v] = "zeroRows" /\ call[v].op = "updateInteraction"
    /\ InteractionExists(call[v].client, call[v].interaction) /\ call[v].contact # None

ChildRequestStep(v) == Picks(v) \/ KeepsOn(v) \/ MatchesNothing(v) \/ FindsTheRow(v)

LEMMA ChildRequestSteps ==
    ASSUME TypeOK, [Next]_vars, NEW v \in Caller, call'[v].op \in ChildEdits
    PROVE  ChildRequestStep(v)
  <1> USE DEF TypeOK
  <1>0. SUFFICES ASSUME NEW w \in Caller,
                        Start(w) \/ Finish(w) \/ Retry(w) \/ Fail(w)
                        \/ ClientStep(w) \/ ContactStep(w) \/ InteractionStep(w)
                 PROVE  ChildRequestStep(v)
    BY DEF Next, vars, ChildRequestStep, KeepsOn
  <1>1. CASE Start(w)
    <2>1. call'[w].op \in ChildEdits => Picks(w)
      <3>1. CASE StartUpdateContact(w)
        BY <3>1 DEF StartUpdateContact, Editable, Issue, Picks, tables
      <3>2. CASE StartAddInteraction(w)
        BY <3>2 DEF StartAddInteraction, KnownClients, KnownContacts, Issue, Picks, tables
      <3>3. CASE StartUpdateInteraction(w)
        BY <3>3 DEF StartUpdateInteraction, Editable, KnownContacts, Issue, Picks, tables
      <3>4. CASE StartCreateClient(w) \/ StartUpdateClient(w) \/ StartChangeStatus(w)
                 \/ StartDeleteClient(w)
        BY <3>4 DEF StartCreateClient, StartUpdateClient, StartChangeStatus, StartDeleteClient,
           Issue, ChildEdits
      <3>5. CASE StartAddContact(w) \/ StartDeleteContact(w) \/ StartDeleteInteraction(w)
        BY <3>5 DEF StartAddContact, StartDeleteContact, StartDeleteInteraction, Issue, ChildEdits
      <3> QED  BY <1>1, <3>1, <3>2, <3>3, <3>4, <3>5 DEF Start
    <2>2. v # w => call'[v] = call[v] /\ pc'[v] = pc[v]
      BY <1>1 DEF Start, Issue, StartCreateClient, StartUpdateClient, StartChangeStatus,
        StartDeleteClient, StartAddContact, StartUpdateContact, StartDeleteContact,
        StartAddInteraction, StartUpdateInteraction, StartDeleteInteraction
    <2> QED  BY <2>1, <2>2 DEF ChildRequestStep, KeepsOn
  <1>2. CASE Finish(w) \/ Retry(w) \/ Fail(w)
    BY <1>2 DEF Finish, Retry, Fail, Reads, Goto, ChildRequestStep, KeepsOn, ChildEdits, Idle
  <1>3. ASSUME v # w, call'[v] = call[v] /\ pc'[v] = pc[v] PROVE ChildRequestStep(v)
    BY <1>3 DEF ChildRequestStep, KeepsOn
  <1>4. CASE ClientStep(w)
    <2>1. v # w => call'[v] = call[v] /\ pc'[v] = pc[v]
      BY <1>4 DEF ClientStep, CreateClient, UpdateClient, SnapshotStatus, ChangeStatus,
         DisambiguateClient, DeleteClient, Committed, Reads, Goto
    <2>2. call[w].op \notin ChildEdits
      BY <1>4 DEF ClientStep, CreateClient, UpdateClient, SnapshotStatus, ChangeStatus,
         DisambiguateClient, DeleteClient, At, ChildEdits
    <2>3. call'[w].op \notin ChildEdits
      <3>1. CASE SnapshotStatus(w)
        <4>1. call[w] \in [op: {"changeStatus"}, client: Client, status: Status,
                           reason: Reason \cup {None}, prev: Status, seen: ClientRow]
          BY <3>1 DEF SnapshotStatus, At, Calls, Idle
        <4>2. [call[w] EXCEPT !.prev = clients[call[w].client].status].op = "changeStatus"
          BY <4>1
        <4> QED  BY <2>2, <3>1, <4>2 DEF SnapshotStatus, Goto, ChildEdits
      <3>2. CASE CreateClient(w) \/ UpdateClient(w) \/ ChangeStatus(w) \/ DisambiguateClient(w)
                 \/ DeleteClient(w)
        BY <2>2, <3>2 DEF CreateClient, UpdateClient, ChangeStatus, DisambiguateClient,
           DeleteClient, Committed, Reads, Goto
      <3> QED  BY <1>4, <3>1, <3>2 DEF ClientStep
    <2> QED  BY <1>3, <2>1, <2>3
  <1>5. CASE ContactStep(w)
    <2>1. CASE UpdateContact(w)
      <3>1. CASE Reads(w, "zeroRows") /\ v = w
        <4>1. CASE ContactExists(call[w].client, call[w].contact)
                   /\ contacts[call[w].contact].version = call[w].seen.version
          BY <2>1, <3>1, <4>1 DEF UpdateContact, Committed, Reads, Goto, ChildRequestStep, KeepsOn
        <4>2. CASE ~(ContactExists(call[w].client, call[w].contact)
                     /\ contacts[call[w].contact].version = call[w].seen.version)
          BY <2>1, <3>1, <4>2 DEF UpdateContact, At, Reads, Goto, tables, ChildRequestStep, MatchesNothing
        <4> QED  BY <4>1, <4>2
      <3>2. CASE ~(Reads(w, "zeroRows") /\ v = w)
        BY <2>1, <3>2 DEF UpdateContact, Committed, Reads, Goto, ChildRequestStep, KeepsOn
      <3> QED  BY <3>1, <3>2
    <2>2. CASE CheckNewContact(w) \/ SnapshotNewContact(w) \/ AddContact(w) \/ CheckEditedContact(w)
               \/ DisambiguateClash(w) \/ DisambiguateContact(w) \/ DeleteContact(w)
      BY <2>2 DEF CheckNewContact, SnapshotNewContact, AddContact, CheckEditedContact,
        DisambiguateClash, DisambiguateContact, DeleteContact, Committed, Reads, Goto,
        ChildRequestStep, KeepsOn
    <2> QED  BY <1>5, <2>1, <2>2 DEF ContactStep
  <1>6. CASE InteractionStep(w)
    <2>1. CASE SnapshotNewInteraction(w)
      BY <2>1 DEF SnapshotNewInteraction, At, Reads, Goto, tables, ChildRequestStep, KeepsOn, MatchesNothing
    <2>2. CASE SnapshotInteraction(w)
      BY <2>2 DEF SnapshotInteraction, At, Reads, Goto, tables, ChildRequestStep, KeepsOn, MatchesNothing
    <2>3. CASE UpdateInteraction(w)
      BY <2>3 DEF UpdateInteraction, At, Committed, Reads, Goto, tables,
         ChildRequestStep, KeepsOn, MatchesNothing
    <2>4. CASE DisambiguateInteraction(w)
      BY <2>4 DEF DisambiguateInteraction, At, Reads, Goto, tables, ChildRequestStep, KeepsOn, FindsTheRow
    <2>5. CASE AddInteraction(w) \/ DisambiguateNewInteraction(w) \/ DisambiguateContactRef(w)
               \/ DeleteInteraction(w)
      BY <2>5 DEF AddInteraction, DisambiguateNewInteraction, DisambiguateContactRef,
         DeleteInteraction, Committed, Reads, Goto, ChildRequestStep, KeepsOn
    <2> QED  BY <1>6, <2>1, <2>2, <2>3, <2>4, <2>5 DEF InteractionStep
  <1> QED  BY <1>0, <1>1, <1>2, <1>4, <1>5, <1>6

(***************************************************************************)
(* What a step does to a row that somebody has seen.                       *)
(***************************************************************************)
InteractionEvolves(old, new) ==
    \/ new = old
    \/ old.life = "unborn"
    \/ new.life = "gone"
    \/ new = [old EXCEPT !.contact = None]
    \/ /\ old.life = "live" /\ new.life = "live" /\ new.client = old.client
       /\ new.version = old.version + 1

LEMMA InteractionsEvolve ==
    ASSUME TypeOK, [Next]_vars, NEW i \in Interaction
    PROVE  InteractionEvolves(interactions[i], interactions'[i])
  <1> USE DEF TypeOK, TablesTypeOK
  <1> DEFINE Goal == InteractionEvolves(interactions[i], interactions'[i])
  <1>1. CASE interactions' = interactions
    BY <1>1 DEF InteractionEvolves
  <1>2. ASSUME NEW c \in Client, CascadeClient(c) PROVE Goal
    BY <1>2 DEF CascadeClient, NoInteractionRow, InteractionEvolves
  <1>3. ASSUME NEW k \in Contact, DetachContact(k) PROVE Goal
    BY <1>3 DEF DetachContact, InteractionEvolves
  <1>4. CASE ContactEffect
    BY <1>1, <1>3, <1>4 DEF ContactEffect, InsertContact, ReplaceContact
  <1>5. ASSUME NEW j \in Interaction, NEW c, NEW k, InsertInteraction(c, j, k) PROVE Goal
    BY <1>5 DEF InsertInteraction, InteractionEvolves
  <1>6. ASSUME NEW j \in Interaction, NEW k, interactions[j].life = "live", ReplaceInteraction(j, k)
        PROVE  Goal
    <2>1. interactions[j] \in InteractionRow
      OBVIOUS
    <2>2. interactions'[i] = IF i = j THEN Bump([interactions[j] EXCEPT !.contact = k])
                                      ELSE interactions[i]
      BY <1>6 DEF ReplaceInteraction
    <2>3. LET new == Bump([interactions[j] EXCEPT !.contact = k]) IN
          /\ new.life = "live" /\ new.client = interactions[j].client
          /\ new.version = interactions[j].version + 1
      BY <1>6, <2>1 DEF Bump, InteractionRow
    <2> QED  BY <1>6, <2>2, <2>3 DEF InteractionEvolves
  <1>7. ASSUME NEW j \in Interaction, DropInteraction(j) PROVE Goal
    BY <1>7 DEF DropInteraction, NoInteractionRow, InteractionEvolves
  <1>8. CASE InteractionEffect
    BY <1>5, <1>6, <1>7, <1>8 DEF InteractionEffect, InteractionMatches, InteractionExists
  <1> QED  BY <1>1, <1>2, <1>4, <1>8, ChildEffects

\* A contact reference that is wrong stays wrong: a contact never changes its
\* client and never comes back.
LEMMA BadReferenceStays ==
    ASSUME TypeOK, TypeOK', [Next]_vars, NEW c, NEW k \in Contact \cup {None},
           k # None => contacts[k].life # "unborn", ~ContactRefOK(c, k)
    PROVE  ~ContactRefOK(c, k)'
  <1>1. k \in Contact /\ contacts[k].life # "unborn" /\ ~ContactExists(c, k)
    BY DEF ContactRefOK
  <1>2. ContactEvolves(contacts[k], contacts'[k])
    BY <1>1, ContactsEvolve
  <1> QED  BY <1>1, <1>2 DEF ContactEvolves, ContactRefOK, ContactExists

\* Nor does a client or a contact that has been there become unborn.
LEMMA KnownStay ==
    ASSUME TypeOK, TypeOK', [Next]_vars
    PROVE  /\ \A c \in Client : clients[c].life # "unborn" => clients'[c].life # "unborn"
           /\ \A c \in Client : clients[c].life = "gone" => clients'[c].life = "gone"
           /\ \A k \in Contact : contacts[k].life # "unborn" => contacts'[k].life # "unborn"
  <1>1. \A c \in Client : Evolves(clients[c], clients'[c])
    BY ClientsEvolve
  <1>2. \A k \in Contact : ContactEvolves(contacts[k], contacts'[k])
    BY ContactsEvolve
  <1> QED  BY <1>1, <1>2 DEF Evolves, ContactEvolves

(***************************************************************************)
(* What a request in flight knows.                                         *)
(***************************************************************************)
SeenContact(v) ==
    LET r == call[v]
        row == contacts[r.contact] IN
    r.op = "updateContact" =>
        /\ row.life # "unborn"
        /\ row.life = "live" => /\ r.seen.version <= row.version
                                /\ r.seen.version = row.version => r.seen = row
        /\ (pc[v] = "zeroRows" /\ ContactExists(r.client, r.contact)) =>
                r.seen.version < row.version

LEMMA SeenContactStep ==
    ASSUME TypeOK, TypeOK', [Next]_vars, NEW v \in Caller, SeenContact(v)
    PROVE  SeenContact(v)'
  <1> USE DEF TypeOK, TablesTypeOK
  <1> SUFFICES ASSUME call'[v].op = "updateContact" PROVE SeenContact(v)'
    BY DEF SeenContact
  <1>1. ChildRequestStep(v) /\ call'[v] \in Calls /\ call[v] \in Calls
    BY ChildRequestSteps DEF ChildEdits
  <1>2. /\ call'[v].contact \in Contact /\ call'[v].seen \in ContactRow
        /\ contacts[call'[v].contact] \in ContactRow /\ contacts'[call'[v].contact] \in ContactRow
    BY <1>1, CallTypes
  <1>3. CASE Picks(v)
    BY <1>2, <1>3 DEF Picks, tables, SeenContact, ContactRow
  <1>4. CASE MatchesNothing(v)
    BY <1>2, <1>4 DEF MatchesNothing, tables, SeenContact, ContactRow, ContactExists
  <1>5. CASE FindsTheRow(v)
    BY <1>5 DEF FindsTheRow
  <1>6. CASE KeepsOn(v)
    <2> DEFINE row == contacts[call[v].contact]
    <2>1. call'[v] = call[v]
      BY <1>6 DEF KeepsOn
    <2>2. ContactEvolves(row, row')
      BY <1>2, <2>1, ContactsEvolve
    <2>3. /\ row.version \in Nat /\ row'.version \in Nat /\ call[v].seen.version \in Nat
          /\ row.life \in Life /\ row'.life \in Life
      BY <1>2, <2>1 DEF ContactRow
    <2>4. CASE row' = row
      BY <1>6, <2>1, <2>4 DEF KeepsOn, SeenContact, ContactExists
    <2>5. CASE row'.life = "gone"
      BY <1>6, <2>1, <2>5 DEF SeenContact, ContactExists
    <2>6. CASE row.life = "live" /\ row'.life = "live" /\ row'.version = row.version + 1
      BY <2>1, <2>3, <2>6 DEF SeenContact
    <2> QED  BY <2>1, <2>2, <2>4, <2>5, <2>6 DEF ContactEvolves, SeenContact
  <1> QED  BY <1>1, <1>3, <1>4, <1>5, <1>6 DEF ChildRequestStep

SeenNew(v) ==
    LET r == call[v] IN
    r.op = "addInteraction" =>
        /\ clients[r.client].life # "unborn"
        /\ r.contact # None => contacts[r.contact].life # "unborn"
        /\ pc[v] = "zeroRows" => ~(ClientExists(r.client) /\ ContactRefOK(r.client, r.contact))

LEMMA SeenNewStep ==
    ASSUME TypeOK, TypeOK', [Next]_vars, NEW v \in Caller, SeenNew(v)
    PROVE  SeenNew(v)'
  <1> USE DEF TypeOK, TablesTypeOK
  <1> SUFFICES ASSUME call'[v].op = "addInteraction" PROVE SeenNew(v)'
    BY DEF SeenNew
  <1>1. ChildRequestStep(v) /\ call'[v] \in Calls
    BY ChildRequestSteps DEF ChildEdits
  <1>2. call'[v].client \in Client /\ call'[v].contact \in Contact \cup {None}
    BY <1>1, CallTypes
  <1>3. CASE Picks(v)
    BY <1>3 DEF Picks, tables, SeenNew
  <1>4. CASE MatchesNothing(v)
    BY <1>4 DEF MatchesNothing, tables, SeenNew, ClientExists, ContactRefOK, ContactExists
  <1>5. CASE FindsTheRow(v)
    BY <1>5 DEF FindsTheRow
  <1>6. CASE KeepsOn(v)
    <2>1. /\ call'[v] = call[v]
          /\ clients[call[v].client].life # "unborn"
          /\ call[v].contact # None => contacts[call[v].contact].life # "unborn"
          /\ pc'[v] = "zeroRows" => pc[v] = "zeroRows"
      BY <1>6 DEF KeepsOn, SeenNew
    <2>2. pc'[v] = "zeroRows" =>
            ~(ClientExists(call[v].client) /\ ContactRefOK(call[v].client, call[v].contact))'
      <3>1. CASE ~ClientExists(call[v].client)
        <4>1. clients[call[v].client].life = "gone"
          BY <1>2, <2>1, <3>1 DEF ClientExists, ClientRow, Life
        <4> QED  BY <1>2, <2>1, <4>1, KnownStay DEF ClientExists
      <3>2. CASE ~ContactRefOK(call[v].client, call[v].contact)
        BY <1>2, <2>1, <3>2, BadReferenceStays
      <3> QED  BY <2>1, <3>1, <3>2 DEF SeenNew
    <2> QED  BY <1>2, <2>1, <2>2, KnownStay DEF SeenNew
  <1> QED  BY <1>1, <1>3, <1>4, <1>5, <1>6 DEF ChildRequestStep

SeenInteraction(v) ==
    LET r == call[v]
        row == interactions[r.interaction] IN
    r.op = "updateInteraction" =>
        /\ row.life # "unborn"
        /\ r.contact # None => contacts[r.contact].life # "unborn"
        /\ row.life = "live" =>
              /\ r.seen.version <= row.version
              /\ r.seen.version = row.version =>
                    row \in {r.seen, [r.seen EXCEPT !.contact = None]}
        /\ (pc[v] \in {"zeroRows", "rowFound"} /\ InteractionMatches(v)) =>
                ~ContactRefOK(r.client, r.contact)
        /\ (pc[v] = "rowFound" /\ row.life = "live") => row.client = r.client
        /\ pc[v] = "rowFound" => r.contact # None

LEMMA SeenInteractionStep ==
    ASSUME TypeOK, TypeOK', [Next]_vars, NEW v \in Caller, SeenInteraction(v)
    PROVE  SeenInteraction(v)'
  <1> USE DEF TypeOK, TablesTypeOK
  <1> SUFFICES ASSUME call'[v].op = "updateInteraction" PROVE SeenInteraction(v)'
    BY DEF SeenInteraction
  <1> DEFINE r == call'[v]
             row == interactions[r.interaction]
             next == interactions'[r.interaction]
  <1>1. ChildRequestStep(v) /\ r \in Calls
    BY ChildRequestSteps DEF ChildEdits
  <1>2. /\ r.interaction \in Interaction /\ r.contact \in Contact \cup {None}
        /\ r.seen \in InteractionRow /\ row \in InteractionRow /\ next \in InteractionRow
    BY <1>1, CallTypes
  <1>3. CASE Picks(v)
    BY <1>2, <1>3 DEF Picks, tables, SeenInteraction, InteractionRow
  <1>4. CASE MatchesNothing(v)
    BY <1>2, <1>4 DEF MatchesNothing, tables, SeenInteraction, InteractionMatches, InteractionExists,
       ContactRefOK, ContactExists
  <1>5. CASE FindsTheRow(v)
    BY <1>2, <1>5 DEF FindsTheRow, tables, SeenInteraction, InteractionMatches, InteractionExists,
       ContactRefOK, ContactExists
  <1>6. CASE KeepsOn(v)
    <2>1. /\ call'[v] = call[v]
          /\ pc'[v] \in {"zeroRows", "rowFound"} => pc'[v] = pc[v]
          /\ SeenInteraction(v) /\ call[v].op = "updateInteraction"
      BY <1>6 DEF KeepsOn
    <2>2. InteractionEvolves(row, next)
      BY <1>2, InteractionsEvolve
    <2>3. /\ row.version \in Nat /\ next.version \in Nat /\ r.seen.version \in Nat
          /\ row.life \in Life /\ next.life \in Life
      BY <1>2 DEF InteractionRow
    <2>4. /\ r.contact # None => contacts'[r.contact].life # "unborn"
          /\ pc'[v] = "rowFound" => r.contact # None
      BY <1>2, <2>1, KnownStay DEF SeenInteraction
    <2>5. ~ContactRefOK(r.client, r.contact) =>
            ~(contacts'[r.contact].life = "live" /\ contacts'[r.contact].client = r.client)
            /\ r.contact # None
      <3>1. r.contact # None => contacts[r.contact].life # "unborn"
        BY <2>1 DEF SeenInteraction
      <3>2. ASSUME ~ContactRefOK(r.client, r.contact) PROVE ~ContactRefOK(call[v].client, call[v].contact)'
        BY <1>2, <2>1, <3>1, <3>2, BadReferenceStays
      <3> QED  BY <2>1, <3>2 DEF ContactRefOK, ContactExists
    <2>6. CASE next.life = "gone"
      BY <2>1, <2>4, <2>6 DEF SeenInteraction, InteractionMatches, InteractionExists
    <2>7. CASE next.life = row.life /\ next.client = row.client /\ next.version = row.version
               /\ next \in {row, [row EXCEPT !.contact = None]}
      <3>1. row.life = "live" =>
              /\ r.seen.version <= row.version
              /\ r.seen.version = row.version => row \in {r.seen, [r.seen EXCEPT !.contact = None]}
        BY <2>1 DEF SeenInteraction
      <3>2. (row.life = "live" /\ r.seen.version = row.version) =>
              next \in {r.seen, [r.seen EXCEPT !.contact = None]}
        BY <1>2, <2>7, <3>1 DEF InteractionRow
      <3>3. (pc'[v] \in {"zeroRows", "rowFound"} /\ InteractionMatches(v)') =>
                ~ContactRefOK(r.client, r.contact)
        BY <2>1, <2>7 DEF SeenInteraction, InteractionMatches, InteractionExists
      <3>4. row.life # "unborn" /\ (pc'[v] = "rowFound" /\ next.life = "live" => next.client = r.client)
        BY <2>1, <2>7 DEF SeenInteraction
      <3> QED  BY <2>1, <2>4, <2>5, <2>7, <3>1, <3>2, <3>3, <3>4
               DEF SeenInteraction, InteractionMatches, InteractionExists, ContactRefOK, ContactExists
    <2>8. CASE /\ row.life = "live" /\ next.life = "live" /\ next.client = row.client
               /\ next.version = row.version + 1
      <3>1. r.seen.version < next.version
        BY <2>1, <2>3, <2>8 DEF SeenInteraction
      <3>2. pc'[v] = "rowFound" => next.client = r.client
        BY <2>1, <2>8 DEF SeenInteraction
      <3> QED  BY <2>1, <2>3, <2>4, <2>8, <3>1, <3>2
               DEF SeenInteraction, InteractionMatches, InteractionExists
    <2>9. next = row \/ next = [row EXCEPT !.contact = None] =>
            /\ next.life = row.life /\ next.client = row.client /\ next.version = row.version
            /\ next \in {row, [row EXCEPT !.contact = None]}
      BY <1>2 DEF InteractionRow
    <2>10. row.life # "unborn"
      BY <2>1 DEF SeenInteraction
    <2> QED  BY <2>2, <2>6, <2>7, <2>8, <2>9, <2>10 DEF InteractionEvolves
  <1> QED  BY <1>1, <1>3, <1>4, <1>5, <1>6 DEF ChildRequestStep

EditInv ==
    KeysInv /\ \A v \in Caller : SeenContact(v) /\ SeenNew(v) /\ SeenInteraction(v)

LEMMA EditInvariant == Spec => []EditInv
  <1>1. Init => EditInv
    <2> SUFFICES ASSUME Init PROVE EditInv
      OBVIOUS
    <2>1. \A v \in Caller : call[v].op = "none"
      BY DEF Init, Idle
    <2> QED  BY <2>1, KeysInvInit DEF EditInv, SeenContact, SeenNew, SeenInteraction
  <1>2. EditInv /\ [Next]_vars => EditInv'
    <2> SUFFICES ASSUME EditInv, [Next]_vars PROVE EditInv'
      OBVIOUS
    <2>1. KeysInv' /\ TypeOK /\ TypeOK'
      BY KeysInvStep DEF EditInv, KeysInv, ClientInv
    <2>2. ASSUME NEW v \in Caller PROVE (SeenContact(v) /\ SeenNew(v) /\ SeenInteraction(v))'
      BY <2>1, SeenContactStep, SeenNewStep, SeenInteractionStep DEF EditInv
    <2> QED  BY <2>1, <2>2 DEF EditInv
  <1> QED  BY <1>1, <1>2, PTL DEF Spec

(***************************************************************************)
(* No edit is lost.                                                        *)
(***************************************************************************)
ContactReplaced(k) ==
    contacts[k].life = "live" /\ contacts'[k].life = "live" /\ contacts'[k] # contacts[k]

ContactReplacer(k, w) ==
    /\ Acts(w, {"updateContact"})
    /\ call[w].contact = k
    /\ call[w].client = contacts[k].client
    /\ call[w].seen = contacts[k]

LEMMA ContactEditReplacesSeen ==
    ASSUME EditInv, [Next]_vars, NEW k \in Contact, ContactReplaced(k)
    PROVE  \E w \in Caller : ContactReplacer(k, w)
  <1>0. TypeOK /\ TablesTypeOK /\ \A w \in Caller : SeenContact(w)
    BY DEF EditInv, KeysInv, ClientInv, TypeOK
  <1>1. ~UNCHANGED <<contacts, interactions>>
    BY DEF ContactReplaced
  <1>2. ASSUME NEW c \in Client, CascadeClient(c) PROVE FALSE
    BY <1>0, <1>2 DEF ContactReplaced, CascadeClient, NoContactRow, TablesTypeOK
  <1>3. ~InteractionEffect
    BY DEF ContactReplaced, InteractionEffect, InsertInteraction, ReplaceInteraction, DropInteraction
  <1>4. ASSUME NEW c \in Client, NEW m \in Contact, NEW e, InsertContact(c, m, e) PROVE FALSE
    BY <1>0, <1>4 DEF ContactReplaced, InsertContact, TablesTypeOK
  <1>5. ASSUME NEW m \in Contact, DetachContact(m) PROVE FALSE
    BY <1>0, <1>5 DEF ContactReplaced, DetachContact, NoContactRow, TablesTypeOK
  <1>6. PICK w \in Caller :
          LET m == call[w].contact IN
          /\ pc[w] = "checked" /\ call[w].op = "updateContact"
          /\ m \in Contact
          /\ ContactExists(call[w].client, m) /\ contacts[m].version = call[w].seen.version
          /\ ReplaceContact(m, call[w].email)
          /\ \E a \in Answer : pc' = [pc EXCEPT ![w] = a]
    BY <1>0, <1>1, <1>2, <1>3, <1>4, <1>5, ChildEffects DEF ContactEffect
  <1>7. call[w].contact = k
    BY <1>0, <1>6 DEF ReplaceContact, ContactReplaced, TablesTypeOK
  <1>8. call[w].seen = contacts[k]
    BY <1>0, <1>6, <1>7 DEF SeenContact, ContactExists
  <1>9. pc'[w] # pc[w]
    BY <1>0, <1>6 DEF Answer, TypeOK
  <1> QED  BY <1>6, <1>7, <1>8, <1>9 DEF ContactReplacer, Acts, ContactExists

\* No edit of a contact is lost: a row is replaced only through the route of its
\* own client by a caller who had loaded exactly that row (UpdateContactAsync).
THEOREM NoContactEditLost == Spec => NoLostContactEdit
  <1>1. EditInv /\ [Next]_vars =>
          [\A k \in Contact :
             (contacts[k].life = "live" /\ contacts'[k].life = "live" /\ contacts'[k] # contacts[k])
             => \E w \in Caller :
                   /\ Acts(w, {"updateContact"})
                   /\ call[w].contact = k
                   /\ call[w].client = contacts[k].client
                   /\ call[w].seen = contacts[k]]_vars
    BY ContactEditReplacesSeen DEF ContactReplaced, ContactReplacer
  <1> QED  BY <1>1, EditInvariant, PTL DEF Spec, NoLostContactEdit

InteractionReplaced(i) ==
    /\ interactions[i].life = "live" /\ interactions'[i].life = "live"
    /\ interactions'[i] # interactions[i]

InteractionDetached(i) ==
    /\ interactions'[i] = [interactions[i] EXCEPT !.contact = None]
    /\ contacts'[interactions[i].contact].life = "gone"

InteractionReplacer(i, w) ==
    /\ Acts(w, {"updateInteraction"})
    /\ call[w].interaction = i
    /\ call[w].client = interactions[i].client
    /\ interactions[i] \in {call[w].seen, [call[w].seen EXCEPT !.contact = None]}

LEMMA InteractionEditReplacesSeen ==
    ASSUME EditInv, [Next]_vars, NEW i \in Interaction, InteractionReplaced(i)
    PROVE  InteractionDetached(i) \/ \E w \in Caller : InteractionReplacer(i, w)
  <1>0. TypeOK /\ TablesTypeOK /\ \A w \in Caller : SeenInteraction(w)
    BY DEF EditInv, KeysInv, ClientInv, TypeOK
  <1>1. interactions' # interactions
    BY DEF InteractionReplaced
  <1>2. ASSUME NEW c \in Client, CascadeClient(c) PROVE FALSE
    BY <1>0, <1>2 DEF InteractionReplaced, CascadeClient, NoInteractionRow, TablesTypeOK
  <1>3. ASSUME NEW k \in Contact, DetachContact(k) PROVE InteractionDetached(i)
    BY <1>0, <1>3 DEF InteractionReplaced, InteractionDetached, DetachContact, NoContactRow, TablesTypeOK
  <1>4. CASE ContactEffect
    BY <1>1, <1>3, <1>4 DEF ContactEffect, InsertContact, ReplaceContact
  <1>5. CASE InteractionEffect
    <2>1. ASSUME NEW c, NEW j \in Interaction, NEW k, InsertInteraction(c, j, k) PROVE FALSE
      BY <1>0, <2>1 DEF InteractionReplaced, InsertInteraction, TablesTypeOK
    <2>2. ASSUME NEW j \in Interaction, DropInteraction(j) PROVE FALSE
      BY <1>0, <2>2 DEF InteractionReplaced, DropInteraction, NoInteractionRow, TablesTypeOK
    <2>3. PICK w \in Caller :
            /\ Linking(w) /\ call[w].op = "updateInteraction" /\ call[w].interaction \in Interaction
            /\ InteractionMatches(w)
            /\ ReplaceInteraction(call[w].interaction, call[w].contact)
            /\ \E a \in Answer : pc' = [pc EXCEPT ![w] = a]
      BY <1>5, <2>1, <2>2 DEF InteractionEffect
    <2>4. call[w].interaction = i
      BY <1>0, <2>3 DEF ReplaceInteraction, InteractionReplaced, TablesTypeOK
    <2>5. interactions[i] \in {call[w].seen, [call[w].seen EXCEPT !.contact = None]}
      BY <1>0, <2>3, <2>4 DEF SeenInteraction, InteractionMatches, InteractionExists
    <2>6. pc'[w] # pc[w]
      BY <1>0, <2>3 DEF Answer, TypeOK, Linking
    <2> QED  BY <2>3, <2>4, <2>5, <2>6 DEF InteractionReplacer, Acts, InteractionMatches, InteractionExists
  <1> QED  BY <1>0, <1>1, <1>2, <1>4, <1>5, ChildEffects

\* No edit of an interaction is lost; all that may change beneath its editor is
\* the link, cleared when the contact is deleted (UpdateInteractionAsync).
THEOREM NoInteractionEditLost == Spec => NoLostInteractionEdit
  <1>1. EditInv /\ [Next]_vars =>
          [\A i \in Interaction :
             (interactions[i].life = "live" /\ interactions'[i].life = "live"
              /\ interactions'[i] # interactions[i])
             => \/ /\ interactions'[i] = [interactions[i] EXCEPT !.contact = None]
                   /\ contacts'[interactions[i].contact].life = "gone"
                \/ \E w \in Caller :
                      /\ Acts(w, {"updateInteraction"})
                      /\ call[w].interaction = i
                      /\ call[w].client = interactions[i].client
                      /\ interactions[i] \in {call[w].seen, [call[w].seen EXCEPT !.contact = None]}]_vars
    BY InteractionEditReplacesSeen DEF InteractionReplaced, InteractionDetached, InteractionReplacer
  <1> QED  BY <1>1, EditInvariant, PTL DEF Spec, NoLostInteractionEdit

(***************************************************************************)
(* A refusal is true.                                                      *)
(***************************************************************************)
Refused(w) ==
    LET r == call[w] IN
    \/ /\ pc'[w] = "conflict" /\ pc[w] = "zeroRows"
       /\ r.op \in ClientEdits /\ ClientExists(r.client)
    \/ /\ pc'[w] = "conflict" /\ pc[w] = "zeroRows"
       /\ r.op = "updateContact" /\ ContactExists(r.client, r.contact)
    \/ /\ pc'[w] = "conflict" /\ pc[w] = "zeroRows"
       /\ r.op = "updateInteraction" /\ InteractionExists(r.client, r.interaction) /\ r.contact = None
    \/ /\ pc'[w] = "conflict" /\ pc[w] = "rowFound"
       /\ r.op = "updateInteraction" /\ ContactExists(r.client, r.contact)
    \/ /\ pc'[w] = "invalidReference" /\ pc[w] = "zeroRows"
       /\ r.op = "addInteraction" /\ ClientExists(r.client)
    \/ /\ pc'[w] = "invalidReference" /\ pc[w] = "rowFound"
       /\ r.op = "updateInteraction" /\ ~ContactExists(r.client, r.contact)

LEMMA RefusalSteps ==
    ASSUME TypeOK, [Next]_vars, NEW v \in Caller,
           pc'[v] \in {"conflict", "invalidReference"}, pc'[v] # pc[v]
    PROVE  Refused(v) /\ call' = call /\ UNCHANGED tables
  <1> USE DEF TypeOK
  <1> SUFFICES ASSUME NEW w \in Caller,
                      Start(w) \/ Finish(w) \/ Retry(w) \/ Fail(w)
                      \/ ClientStep(w) \/ ContactStep(w) \/ InteractionStep(w)
               PROVE  Refused(v) /\ call' = call /\ UNCHANGED tables
    BY DEF Next, vars
  <1>1. CASE Start(w) \/ Finish(w) \/ Retry(w) \/ Fail(w)
    BY <1>1 DEF Start, Issue, StartCreateClient, StartUpdateClient, StartChangeStatus,
       StartDeleteClient, StartAddContact, StartUpdateContact, StartDeleteContact,
       StartAddInteraction, StartUpdateInteraction, StartDeleteInteraction,
       Finish, Retry, Fail, Reads, Goto
  <1>2. CASE ClientStep(w)
    <2>1. CASE DisambiguateClient(w)
      BY <2>1 DEF DisambiguateClient, Reads, Goto, Refused, ClientEdits
    <2>2. CASE CreateClient(w) \/ UpdateClient(w) \/ SnapshotStatus(w) \/ ChangeStatus(w)
               \/ DeleteClient(w)
      BY <2>2 DEF CreateClient, UpdateClient, SnapshotStatus, ChangeStatus, DeleteClient,
         Committed, Reads, Goto
    <2> QED  BY <1>2, <2>1, <2>2 DEF ClientStep
  <1>3. CASE ContactStep(w)
    <2>1. CASE DisambiguateContact(w)
      BY <2>1 DEF DisambiguateContact, At, Reads, Goto, Refused
    <2>2. CASE CheckNewContact(w) \/ SnapshotNewContact(w) \/ AddContact(w) \/ CheckEditedContact(w)
               \/ DisambiguateClash(w) \/ UpdateContact(w) \/ DeleteContact(w)
      BY <2>2 DEF CheckNewContact, SnapshotNewContact, AddContact, CheckEditedContact,
         DisambiguateClash, UpdateContact, DeleteContact, Committed, Reads, Goto
    <2> QED  BY <1>3, <2>1, <2>2 DEF ContactStep
  <1>4. CASE InteractionStep(w)
    <2>1. CASE DisambiguateNewInteraction(w) \/ DisambiguateInteraction(w) \/ DisambiguateContactRef(w)
      BY <2>1 DEF DisambiguateNewInteraction, DisambiguateInteraction, DisambiguateContactRef,
         At, Reads, Goto, Refused
    <2>2. CASE SnapshotNewInteraction(w) \/ AddInteraction(w) \/ SnapshotInteraction(w)
               \/ UpdateInteraction(w) \/ DeleteInteraction(w)
      BY <2>2 DEF SnapshotNewInteraction, AddInteraction, SnapshotInteraction, UpdateInteraction,
         DeleteInteraction, Committed, Reads, Goto
    <2> QED  BY <1>4, <2>1, <2>2 DEF InteractionStep
  <1> QED  BY <1>1, <1>2, <1>3, <1>4

RealConflict(w) ==
    \/ call[w].op = "updateInteraction" /\ TargetRow(call[w]).life = "gone"
    \/ TargetRow(call[w]).version > call[w].seen.version

LEMMA ConflictStep ==
    ASSUME EditInv, [Next]_vars, NEW w \in Caller, pc'[w] = "conflict", pc[w] # "conflict"
    PROVE  RealConflict(w)
  <1>0. /\ TypeOK /\ TablesTypeOK /\ SeenClients /\ SeenContact(w) /\ SeenInteraction(w)
        /\ call[w] \in Calls
    BY DEF EditInv, KeysInv, ClientInv, TypeOK
  <1>1. Refused(w)
    BY <1>0, RefusalSteps
  <1> DEFINE r == call[w]
  <1>2. CASE r.op \in ClientEdits /\ pc[w] = "zeroRows" /\ ClientExists(r.client)
    <2>1. SeenClient(w)
      BY <1>0 DEF SeenClients
    <2>2. r.client \in Client /\ r.seen.version \in Nat /\ clients[r.client].version \in Nat
      BY <1>0, <1>2, CallTypes DEF ClientEdits, TablesTypeOK, ClientRow
    <2>3. TargetRow(r) = clients[r.client]
      BY <1>2 DEF TargetRow, ClientEdits
    <2>4. r.seen.version < clients[r.client].version
      BY <1>2, <2>1 DEF SeenClient, ClientExists
    <2> QED  BY <2>2, <2>3, <2>4 DEF RealConflict
  <1>3. CASE r.op = "updateContact" /\ pc[w] = "zeroRows" /\ ContactExists(r.client, r.contact)
    <2>1. r.contact \in Contact /\ r.seen.version \in Nat /\ contacts[r.contact].version \in Nat
      BY <1>0, <1>3, CallTypes DEF TablesTypeOK, ContactRow
    <2>2. TargetRow(r) = contacts[r.contact]
      BY <1>3 DEF TargetRow
    <2>3. r.seen.version < contacts[r.contact].version
      BY <1>0, <1>3 DEF SeenContact
    <2> QED  BY <2>1, <2>2, <2>3 DEF RealConflict
  <1>4. CASE r.op = "updateInteraction" /\ pc[w] \in {"zeroRows", "rowFound"}
             /\ ContactRefOK(r.client, r.contact)
             /\ (pc[w] = "zeroRows" => InteractionExists(r.client, r.interaction))
    <2> DEFINE row == interactions[r.interaction]
    <2>1. /\ r.interaction \in Interaction /\ r.seen.version \in Nat /\ row.version \in Nat
          /\ row.life \in Life
      BY <1>0, <1>4, CallTypes DEF TablesTypeOK, InteractionRow
    <2>2. TargetRow(r) = row
      BY <1>4 DEF TargetRow
    <2>3. row.life # "unborn" /\ ~InteractionMatches(w)
      BY <1>0, <1>4 DEF SeenInteraction
    <2>4. CASE row.life = "gone"
      BY <1>4, <2>2, <2>4 DEF RealConflict
    <2>5. CASE row.life = "live"
      <3>1. row.client = r.client
        BY <1>0, <1>4, <2>5 DEF SeenInteraction, InteractionExists
      <3>2. row.version # r.seen.version
        BY <2>3, <2>5, <3>1 DEF InteractionMatches, InteractionExists
      <3>3. r.seen.version <= row.version
        BY <1>0, <1>4, <2>5 DEF SeenInteraction
      <3> QED  BY <2>1, <2>2, <3>2, <3>3 DEF RealConflict
    <2> QED  BY <2>1, <2>3, <2>4, <2>5 DEF Life
  <1> QED  BY <1>1, <1>2, <1>3, <1>4 DEF Refused, ContactRefOK

\* A 409 is told only to a caller whose row somebody has changed (or, of an
\* interaction, deleted) since it was loaded, although finding nothing and
\* explaining it are separate commands (UpdateAsync, ChangeStatusAsync,
\* UpdateContactAsync, UpdateInteractionAsync).
THEOREM ConflictsAreReal == Spec => ConflictIsReal
  <1>1. EditInv /\ [Next]_vars =>
          [\A w \in Caller :
             (pc'[w] = "conflict" /\ pc[w] # "conflict")
             => \/ call[w].op = "updateInteraction" /\ TargetRow(call[w]).life = "gone"
                \/ TargetRow(call[w]).version > call[w].seen.version]_vars
    BY ConflictStep DEF RealConflict
  <1> QED  BY <1>1, EditInvariant, PTL DEF Spec, ConflictIsReal

LEMMA InvalidReferenceStep ==
    ASSUME EditInv, [Next]_vars, NEW w \in Caller,
           pc'[w] = "invalidReference", pc[w] # "invalidReference"
    PROVE  call[w].contact # None /\ ~ContactExists(call[w].client, call[w].contact)
  <1>0. TypeOK /\ SeenNew(w) /\ SeenInteraction(w)
    BY DEF EditInv, KeysInv, ClientInv
  <1>1. Refused(w)
    BY <1>0, RefusalSteps
  <1> QED  BY <1>0, <1>1 DEF Refused, SeenNew, SeenInteraction, ContactRefOK

\* "That contact doesn't belong to this client" is told only when it does not,
\* at the time of the answer, although the statement that found so and the query
\* that explains it are separate commands (AddInteractionAsync, UpdateInteractionAsync).
THEOREM ReferenceAnswersReal == Spec => InvalidReferenceIsReal
  <1>1. EditInv /\ [Next]_vars =>
          [\A w \in Caller :
             (pc'[w] = "invalidReference" /\ pc[w] # "invalidReference")
             => /\ call[w].contact # None
                /\ ~ContactExists(call[w].client, call[w].contact)]_vars
    BY InvalidReferenceStep
  <1> QED  BY <1>1, EditInvariant, PTL DEF Spec, InvalidReferenceIsReal
(***************************************************************************)
(* The store implements requests that are one step each.                   *)
(***************************************************************************)

\* What the routes and the bound ask of a request when it is issued.
Asked(v) ==
    /\ call[v].op \in ClientEdits \cup {"updateContact", "updateInteraction"} =>
          call[v].seen.version < MaxVersion
    /\ call[v].op = "changeStatus" => (call[v].reason # None => call[v].status = Lost)

WholeInv == EditInv /\ \A v \in Caller : Asked(v)

\* A request is what it was issued as, but for the status its snapshot read.
LEMMA AskedStep ==
    ASSUME TypeOK, [Next]_vars, NEW v \in Caller, Asked(v)
    PROVE  Asked(v)'
  <1> USE DEF TypeOK, ClientEdits
  <1>1. SUFFICES ASSUME NEW w \in Caller,
                        Start(w) \/ Finish(w) \/ Retry(w) \/ Fail(w)
                        \/ ClientStep(w) \/ ContactStep(w) \/ InteractionStep(w)
                 PROVE  Asked(v)'
    BY DEF Next, vars, Asked
  <1>2. call'[v] = call[v] => Asked(v)'
    BY DEF Asked
  <1>3. CASE v # w
    <2>1. call'[v] = call[v]
      BY <1>1, <1>3 DEF Start, Issue, StartCreateClient, StartUpdateClient, StartChangeStatus,
         StartDeleteClient, StartAddContact, StartUpdateContact, StartDeleteContact,
         StartAddInteraction, StartUpdateInteraction, StartDeleteInteraction,
         Finish, Retry, Fail, Reads, Goto, Committed,
         ClientStep, CreateClient, UpdateClient, SnapshotStatus, ChangeStatus,
         DisambiguateClient, DeleteClient,
         ContactStep, CheckNewContact, SnapshotNewContact, AddContact, CheckEditedContact,
         DisambiguateClash, UpdateContact, DisambiguateContact, DeleteContact,
         InteractionStep, SnapshotNewInteraction, AddInteraction, DisambiguateNewInteraction,
         SnapshotInteraction, UpdateInteraction, DisambiguateInteraction,
         DisambiguateContactRef, DeleteInteraction
    <2> QED  BY <1>2, <2>1
  <1>4. CASE v = w /\ Start(w)
    <2>1. CASE StartUpdateClient(w) \/ StartUpdateContact(w) \/ StartUpdateInteraction(w)
      BY <1>4, <2>1 DEF StartUpdateClient, StartUpdateContact, StartUpdateInteraction,
         Issue, Editable, Asked
    <2>2. CASE StartChangeStatus(w)
      BY <1>4, <2>2 DEF StartChangeStatus, Issue, Editable, Asked
    <2>3. CASE \/ StartCreateClient(w) \/ StartDeleteClient(w) \/ StartAddContact(w)
               \/ StartDeleteContact(w) \/ StartAddInteraction(w) \/ StartDeleteInteraction(w)
      BY <1>4, <2>3 DEF StartCreateClient, StartDeleteClient, StartAddContact,
         StartDeleteContact, StartAddInteraction, StartDeleteInteraction, Issue, Asked
    <2> QED  BY <1>4, <2>1, <2>2, <2>3 DEF Start
  <1>5. CASE v = w /\ Finish(w)
    BY <1>5 DEF Finish, Idle, Asked
  <1>6. CASE v = w /\ SnapshotStatus(w)
    <2>1. call[v] \in Calls
      OBVIOUS
    <2>2. call'[v] = call[v] \/ call'[v] = [call[v] EXCEPT !.prev = clients[call[v].client].status]
      BY <1>6 DEF SnapshotStatus, Goto
    <2>3. call[v].op = "changeStatus"
      BY <1>6 DEF SnapshotStatus, At
    <2>4. call[v] \in [op: {"changeStatus"}, client: Client, status: Status, reason: Reason \cup {None},
                       prev: Status, seen: ClientRow]
      BY <2>1, <2>3 DEF Calls, Idle
    <2>5. /\ call'[v].op = call[v].op /\ call'[v].seen = call[v].seen
          /\ call'[v].reason = call[v].reason /\ call'[v].status = call[v].status
      BY <2>2, <2>4
    <2> QED  BY <2>5 DEF Asked
  <1>7. CASE v = w /\ ~Start(w) /\ ~Finish(w) /\ ~SnapshotStatus(w)
    <2>1. call' = call
      BY <1>1, <1>7 DEF Retry, Fail, Reads, Goto, Committed,
         ClientStep, CreateClient, UpdateClient, ChangeStatus, DisambiguateClient, DeleteClient,
         ContactStep, CheckNewContact, SnapshotNewContact, AddContact, CheckEditedContact,
         DisambiguateClash, UpdateContact, DisambiguateContact, DeleteContact,
         InteractionStep, SnapshotNewInteraction, AddInteraction, DisambiguateNewInteraction,
         SnapshotInteraction, UpdateInteraction, DisambiguateInteraction,
         DisambiguateContactRef, DeleteInteraction
    <2> QED  BY <1>2, <2>1
  <1> QED  BY <1>1, <1>3, <1>4, <1>5, <1>6, <1>7

LEMMA WholeInvariant == Spec => []WholeInv
  <1>1. Init => \A v \in Caller : Asked(v)
    BY DEF Init, Idle, ClientEdits, Asked
  <1>2. EditInv /\ (\A v \in Caller : Asked(v)) /\ [Next]_vars => (\A v \in Caller : Asked(v))'
    <2> SUFFICES ASSUME EditInv, \A v \in Caller : Asked(v), [Next]_vars,
                        NEW v \in Caller
                 PROVE  Asked(v)'
      OBVIOUS
    <2> QED  BY AskedStep DEF EditInv, KeysInv, ClientInv
  <1>3. Spec => [](\A v \in Caller : Asked(v))
    BY <1>1, <1>2, EditInvariant, PTL DEF Spec
  <1> QED  BY <1>3, EditInvariant, PTL DEF WholeInv

\* The edit of a client is decided on the row, and `prev' is the status it leaves.
LEMMA WholeEdit ==
    ASSUME WholeInv, NEW w \in Caller, Edit(w)
    PROVE  Whole!ElsewhereClients
  <1> DEFINE c == call[w].client
  <1>1. /\ TypeOK /\ TablesTypeOK /\ SeenClient(w) /\ Asked(w)
        /\ call[w] \in Calls
    BY DEF WholeInv, EditInv, KeysInv, ClientInv, SeenClients, TypeOK
  <1>2. call[w].op \in ClientEdits /\ c \in Client /\ clients[c].life = "live"
    BY <1>1, CallTypes DEF Edit, At, ClientEdits, ClientExists
  <1>3. call[w].seen = clients[c] /\ clients[c].version < MaxVersion
    BY <1>1, <1>2 DEF Edit, SeenClient, Asked
  <1>4. CASE At(w, "submitted", "updateClient") /\ ReplaceFields(c, call[w].fields)
    <2>1. call[w].fields \in Field
      BY <1>1, <1>4, CallTypes DEF At
    <2>2. Whole!ReplaceFields(c, call[w].fields)
      BY <1>4 DEF ReplaceFields, Whole!ReplaceFields, Bump, Whole!Bump
    <2> QED  BY <1>2, <1>3, <2>1, <2>2 DEF Whole!ElsewhereClients, Whole!ClientExists
  <1>5. CASE At(w, "snapped", "changeStatus")
             /\ MoveStatus(c, call[w].status, call[w].reason, call[w].prev)
    <2>1. /\ call[w].status \in Status /\ call[w].reason \in Reason \cup {None}
          /\ call[w].reason # None => call[w].status = Lost
          /\ call[w].prev = clients[c].status
      BY <1>1, <1>2, <1>3, <1>5, CallTypes DEF At, Asked, SeenClient
    <2>2. Whole!MoveStatus(c, call[w].status, call[w].reason, clients[c].status)
      BY <1>5, <2>1 DEF MoveStatus, Whole!MoveStatus, AcquiredAfter, Whole!AcquiredAfter,
         ReasonAfter, Whole!ReasonAfter
    <2> QED  BY <1>2, <1>3, <2>1, <2>2 DEF Whole!ElsewhereClients, Whole!ClientExists
  <1> QED  BY <1>4, <1>5 DEF Edit

\* A change of a contact.
LEMMA WholeContact ==
    ASSUME WholeInv, ContactEffect
    PROVE  Whole!ElsewhereContacts
  <1> USE DEF Whole!ClientExists, ClientExists, Whole!ContactExists, ContactExists,
              Whole!EmailTaken, EmailTaken
  <1>1. ASSUME NEW c \in Client, NEW k \in Contact, NEW e \in Email \cup {None},
               ClientExists(c), ~EmailTaken(c, e, None), InsertContact(c, k, e)
        PROVE  Whole!ElsewhereContacts
    <2>1. Whole!InsertContact(c, k, e)
      BY <1>1 DEF InsertContact, Whole!InsertContact
    <2> QED  BY <1>1, <2>1 DEF Whole!ElsewhereContacts
  <1>2. ASSUME NEW w \in Caller, call[w].op = "updateContact",
               call[w].contact \in Contact, call[w].email \in Email \cup {None},
               ContactExists(call[w].client, call[w].contact),
               contacts[call[w].contact].version = call[w].seen.version,
               ~EmailTaken(call[w].client, call[w].email, call[w].contact),
               ReplaceContact(call[w].contact, call[w].email)
        PROVE  Whole!ElsewhereContacts
    <2>1. Whole!ReplaceContact(call[w].contact, call[w].email)
      BY <1>2 DEF ReplaceContact, Whole!ReplaceContact, Bump, Whole!Bump
    <2>2. contacts[call[w].contact].version < MaxVersion
      BY <1>2 DEF WholeInv, Asked
    <2> QED  BY <1>2, <2>1, <2>2 DEF Whole!ElsewhereContacts
  <1>3. ASSUME NEW c \in Client, NEW k \in Contact, ContactExists(c, k), DetachContact(k)
        PROVE  Whole!ElsewhereContacts
    <2>1. Whole!DetachContact(k)
      BY <1>3 DEF DetachContact, Whole!DetachContact, NoContactRow, Whole!NoContactRow
    <2> QED  BY <1>3, <2>1 DEF Whole!ElsewhereContacts
  <1> QED  BY <1>1, <1>2, <1>3 DEF ContactEffect

\* A change of an interaction: the contact that was the client's on the snapshot
\* is still there when the foreign key is checked, so it is the client's now.
LEMMA WholeInteraction ==
    ASSUME WholeInv, InteractionEffect
    PROVE  Whole!ElsewhereInteractions
  <1> USE DEF Whole!ClientExists, ClientExists, Whole!ContactExists, ContactExists
  <1>1. ASSUME NEW w \in Caller, Linking(w), ContactRefHolds(call[w].contact)
        PROVE  Whole!ContactRefOK(call[w].client, call[w].contact)
    BY <1>1 DEF WholeInv, EditInv, KeysInv, LinkKnown, ContactRefHolds, Whole!ContactRefOK
  <1>2. ASSUME NEW w \in Caller, NEW i \in Interaction,
               Linking(w), call[w].client \in Client, call[w].contact \in Contact \cup {None},
               ClientExists(call[w].client), ContactRefHolds(call[w].contact),
               InsertInteraction(call[w].client, i, call[w].contact)
        PROVE  Whole!ElsewhereInteractions
    <2>1. Whole!InsertInteraction(call[w].client, i, call[w].contact)
      BY <1>2 DEF InsertInteraction, Whole!InsertInteraction
    <2> QED  BY <1>1, <1>2, <2>1 DEF Whole!ElsewhereInteractions
  <1>3. ASSUME NEW w \in Caller, Linking(w), call[w].op = "updateInteraction",
               call[w].interaction \in Interaction, call[w].contact \in Contact \cup {None},
               InteractionMatches(w), ContactRefHolds(call[w].contact),
               ReplaceInteraction(call[w].interaction, call[w].contact)
        PROVE  Whole!ElsewhereInteractions
    <2> DEFINE i == call[w].interaction
    <2>1. Whole!ReplaceInteraction(i, call[w].contact)
      BY <1>3 DEF ReplaceInteraction, Whole!ReplaceInteraction, Bump, Whole!Bump
    <2>2. interactions[i].life = "live" /\ interactions[i].client = call[w].client
      BY <1>3 DEF InteractionMatches, InteractionExists
    <2>3. interactions[i].version < MaxVersion
      BY <1>3 DEF InteractionMatches, WholeInv, Asked
    <2>4. Whole!ContactRefOK(interactions[i].client, call[w].contact)
      BY <1>1, <1>3, <2>2
    <2> QED  BY <1>3, <2>1, <2>2, <2>3, <2>4 DEF Whole!ElsewhereInteractions
  <1>4. ASSUME NEW c \in Client, NEW i \in Interaction, InteractionExists(c, i), DropInteraction(i)
        PROVE  Whole!ElsewhereInteractions
    <2>1. Whole!DropInteraction(i)
      BY <1>4 DEF DropInteraction, Whole!DropInteraction, NoInteractionRow, Whole!NoInteractionRow
    <2> QED  BY <1>4, <2>1 DEF Whole!ElsewhereInteractions, InteractionExists
  <1> QED  BY <1>2, <1>3, <1>4 DEF InteractionEffect

LEMMA WholeStep ==
    ASSUME WholeInv, [Next]_vars
    PROVE  [Whole!AnyRequest]_tables
  <1>0. TypeOK
    BY DEF WholeInv, EditInv, KeysInv, ClientInv
  <1>1. ASSUME NEW c \in Client, ClientExists(c), CascadeClient(c) PROVE Whole!ElsewhereClients
    <2>1. Whole!CascadeClient(c)
      BY <1>1 DEF CascadeClient, Whole!CascadeClient, NoClientRow, Whole!NoClientRow,
         NoContactRow, Whole!NoContactRow, NoInteractionRow, Whole!NoInteractionRow,
         ContactExists, Whole!ContactExists, InteractionExists, Whole!InteractionExists
    <2> QED  BY <1>1, <2>1 DEF Whole!ElsewhereClients, ClientExists, Whole!ClientExists
  <1>2. ASSUME NEW c \in Client, NEW f \in Field, InsertClient(c, f) PROVE Whole!ElsewhereClients
    <2>1. Whole!InsertClient(c, f)
      BY <1>2 DEF InsertClient, Whole!InsertClient
    <2> QED  BY <2>1 DEF Whole!ElsewhereClients
  <1>3. CASE UNCHANGED <<clients, history>>
    <2>1. CASE UNCHANGED <<contacts, interactions>>
      BY <1>3, <2>1 DEF tables
    <2> QED  BY <1>0, <1>1, <2>1, ChildEffects, WholeContact, WholeInteraction DEF Whole!AnyRequest
  <1> QED  BY <1>0, <1>1, <1>2, <1>3, ClientEffects, WholeEdit DEF Whole!AnyRequest

\* Whatever falls between the commands of a request, the tables change as if every
\* request were one step that is decided on the rows as they are (the statements
\* of ClientStore.cs under READ COMMITTED).  So whoever models the other users of
\* the API as single steps leaves nothing out that they may do to the tables.
THEOREM WholeRequestsImplemented == Spec => ImplementsWholeRequests
  <1>1. Init => Whole!EmptyTables
    BY DEF Init, EmptyTables, Whole!EmptyTables, NoClientRow, Whole!NoClientRow, NoContactRow,
       Whole!NoContactRow, NoInteractionRow, Whole!NoInteractionRow
  <1>2. WholeInv /\ [Next]_vars => [Whole!AnyRequest]_(Whole!tables)
    BY WholeStep DEF tables, Whole!tables
  <1> QED  BY <1>1, <1>2, WholeInvariant, PTL DEF Spec, ImplementsWholeRequests, Whole!RequestsSpec
=============================================================================
