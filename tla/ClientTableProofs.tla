------------------------- MODULE ClientTableProofs -------------------------
(***************************************************************************)
(* Lemmas about the statements of ClientTables, whoever runs them.         *)
(***************************************************************************)
EXTENDS ClientTables, TLAPS

LEMMA EmptyRowTypes ==
    ASSUME NEW life \in Life
    PROVE  /\ NoClientRow(life) \in ClientRow
           /\ NoContactRow(life) \in ContactRow
           /\ NoInteractionRow(life) \in InteractionRow
  BY StatusAssumption DEF NoClientRow, NoContactRow, NoInteractionRow,
       ClientRow, ContactRow, InteractionRow

LEMMA BumpTypes ==
    /\ \A row \in ClientRow : Bump(row) \in ClientRow
    /\ \A row \in ContactRow : Bump(row) \in ContactRow
    /\ \A row \in InteractionRow : Bump(row) \in InteractionRow
  BY DEF Bump, ClientRow, ContactRow, InteractionRow

(***************************************************************************)
(* Every statement keeps the tables well typed.                            *)
(***************************************************************************)
LEMMA ClientStatementTypes ==
    ASSUME TablesTypeOK, NEW c \in Client
    PROVE  /\ \A f \in Field : InsertClient(c, f) => TablesTypeOK'
           /\ \A f \in Field : ReplaceFields(c, f) => TablesTypeOK'
           /\ \A s \in Status, r \in Reason \cup {None}, p \in Status :
                 MoveStatus(c, s, r, p) => TablesTypeOK'
           /\ CascadeClient(c) => TablesTypeOK'
  <1>1. ASSUME NEW f \in Field, InsertClient(c, f) PROVE TablesTypeOK'
    BY <1>1, StatusAssumption DEF TablesTypeOK, InsertClient, ClientRow, Life
  <1>2. ASSUME NEW f \in Field, ReplaceFields(c, f) PROVE TablesTypeOK'
    <2>1. [clients[c] EXCEPT !.fields = f] \in ClientRow
      BY DEF TablesTypeOK, ClientRow
    <2> QED  BY <1>2, <2>1, BumpTypes DEF TablesTypeOK, ReplaceFields
  <1>3. ASSUME NEW s \in Status, NEW r \in Reason \cup {None}, NEW p \in Status,
               MoveStatus(c, s, r, p)
        PROVE  TablesTypeOK'
    <2>1. clients' \in [Client -> ClientRow]
      BY <1>3 DEF TablesTypeOK, MoveStatus, ClientRow, Life, AcquiredAfter, ReasonAfter
    <2>2. [from |-> p, to |-> s, at |-> clients[c].version + 1] \in HistoryRow
      BY DEF TablesTypeOK, ClientRow, HistoryRow
    <2>3. history' \in [Client -> Seq(HistoryRow)]
      BY <1>3, <2>2 DEF TablesTypeOK, MoveStatus
    <2> QED  BY <1>3, <2>1, <2>3 DEF TablesTypeOK, MoveStatus
  <1>4. ASSUME CascadeClient(c) PROVE TablesTypeOK'
    <2>1. clients' \in [Client -> ClientRow]
      BY <1>4, EmptyRowTypes DEF TablesTypeOK, CascadeClient, Life
    <2>2. contacts' \in [Contact -> ContactRow] /\ interactions' \in [Interaction -> InteractionRow]
      BY <1>4, EmptyRowTypes DEF TablesTypeOK, CascadeClient, Life
    <2>3. history' \in [Client -> Seq(HistoryRow)]
      BY <1>4 DEF TablesTypeOK, CascadeClient
    <2> QED  BY <2>1, <2>2, <2>3 DEF TablesTypeOK
  <1> QED  BY <1>1, <1>2, <1>3, <1>4

LEMMA ContactStatementTypes ==
    ASSUME TablesTypeOK, NEW k \in Contact
    PROVE  /\ \A c \in Client, e \in Email \cup {None} : InsertContact(c, k, e) => TablesTypeOK'
           /\ \A e \in Email \cup {None} : ReplaceContact(k, e) => TablesTypeOK'
           /\ DetachContact(k) => TablesTypeOK'
  <1>1. ASSUME NEW c \in Client, NEW e \in Email \cup {None}, InsertContact(c, k, e)
        PROVE  TablesTypeOK'
    BY <1>1 DEF TablesTypeOK, InsertContact, ContactRow, Life
  <1>2. ASSUME NEW e \in Email \cup {None}, ReplaceContact(k, e)
        PROVE  TablesTypeOK'
    <2>1. [contacts[k] EXCEPT !.email = e] \in ContactRow
      BY DEF TablesTypeOK, ContactRow
    <2> QED  BY <1>2, <2>1, BumpTypes DEF TablesTypeOK, ReplaceContact
  <1>3. ASSUME DetachContact(k) PROVE TablesTypeOK'
    <2>1. contacts' \in [Contact -> ContactRow]
      BY <1>3, EmptyRowTypes DEF TablesTypeOK, DetachContact, Life
    <2>2. interactions' \in [Interaction -> InteractionRow]
      BY <1>3 DEF TablesTypeOK, DetachContact, InteractionRow
    <2> QED  BY <1>3, <2>1, <2>2 DEF TablesTypeOK, DetachContact
  <1> QED  BY <1>1, <1>2, <1>3

LEMMA InteractionStatementTypes ==
    ASSUME TablesTypeOK, NEW i \in Interaction
    PROVE  /\ \A c \in Client, k \in Contact \cup {None} :
                 InsertInteraction(c, i, k) => TablesTypeOK'
           /\ \A k \in Contact \cup {None} : ReplaceInteraction(i, k) => TablesTypeOK'
           /\ DropInteraction(i) => TablesTypeOK'
  <1>1. ASSUME NEW c \in Client, NEW k \in Contact \cup {None}, InsertInteraction(c, i, k)
        PROVE  TablesTypeOK'
    BY <1>1 DEF TablesTypeOK, InsertInteraction, InteractionRow, Life
  <1>2. ASSUME NEW k \in Contact \cup {None}, ReplaceInteraction(i, k)
        PROVE  TablesTypeOK'
    <2>1. [interactions[i] EXCEPT !.contact = k] \in InteractionRow
      BY DEF TablesTypeOK, InteractionRow
    <2> QED  BY <1>2, <2>1, BumpTypes DEF TablesTypeOK, ReplaceInteraction
  <1>3. ASSUME DropInteraction(i) PROVE TablesTypeOK'
    BY <1>3, EmptyRowTypes DEF TablesTypeOK, DropInteraction, Life
  <1> QED  BY <1>1, <1>2, <1>3

(***************************************************************************)
(* What any step of the API does to the tables: at most one statement,     *)
(* with what its where clause and its keys ask for.                        *)
(***************************************************************************)
ClientStatement ==
    \/ \E c \in Client, f \in Field : InsertClient(c, f)
    \/ \E c \in Client, f \in Field : ClientExists(c) /\ ReplaceFields(c, f)
    \/ \E c \in Client, s \in Status, x \in Reason \cup {None} :
          ClientExists(c) /\ MoveStatus(c, s, x, clients[c].status)
    \/ \E c \in Client : CascadeClient(c)

ContactStatement ==
    \/ \E c \in Client, k \in Contact, e \in Email \cup {None} : InsertContact(c, k, e)
    \/ \E k \in Contact, e \in Email \cup {None} : contacts[k].life = "live" /\ ReplaceContact(k, e)
    \/ \E k \in Contact : DetachContact(k)

InteractionStatement ==
    \/ \E c \in Client, i \in Interaction, k \in Contact \cup {None} :
          ContactRefOK(c, k) /\ InsertInteraction(c, i, k)
    \/ \E i \in Interaction, k \in Contact \cup {None} :
          /\ interactions[i].life = "live" /\ ContactRefOK(interactions[i].client, k)
          /\ ReplaceInteraction(i, k)
    \/ \E i \in Interaction : DropInteraction(i)

Statement ==
    UNCHANGED tables \/ ClientStatement \/ ContactStatement \/ InteractionStatement

LEMMA StatementTypes ==
    ASSUME TablesTypeOK, Statement
    PROVE  TablesTypeOK'
  <1>1. CASE UNCHANGED tables
    BY <1>1 DEF tables, TablesTypeOK
  <1>2. CASE ClientStatement
    <2>1. \A c \in Client : clients[c].status \in Status
      BY DEF TablesTypeOK, ClientRow
    <2> QED  BY <1>2, <2>1, ClientStatementTypes DEF ClientStatement
  <1>3. CASE ContactStatement
    BY <1>3, ContactStatementTypes DEF ContactStatement
  <1>4. CASE InteractionStatement
    BY <1>4, InteractionStatementTypes DEF InteractionStatement
  <1> QED  BY <1>1, <1>2, <1>3, <1>4 DEF Statement

(***************************************************************************)
(* How one row may change in a step.  A link that goes with its contact is *)
(* the one change that no version tells of.                                *)
(***************************************************************************)
Grows(old, new) ==
    \/ new = old
    \/ old.life = "unborn"
    \/ new.life = "gone"
    \/ old.life = "live" /\ new.life = "live" /\ new.version = old.version + 1

LinkSevered(i) ==
    /\ interactions[i].life = "live" /\ interactions[i].contact \in Contact
    /\ interactions'[i] = [interactions[i] EXCEPT !.contact = None]
    /\ contacts'[interactions[i].contact].life = "gone"

LEMMA ClientGrows ==
    ASSUME TablesTypeOK, Statement, NEW d \in Client
    PROVE  Grows(clients[d], clients'[d])
  <1> USE DEF TablesTypeOK
  <1>1. CASE clients' = clients
    BY <1>1 DEF Grows
  <1>2. ASSUME NEW c \in Client, NEW f \in Field, InsertClient(c, f)
        PROVE  Grows(clients[d], clients'[d])
    BY <1>2 DEF InsertClient, Grows
  <1>3. ASSUME NEW c \in Client, NEW f \in Field, ClientExists(c), ReplaceFields(c, f)
        PROVE  Grows(clients[d], clients'[d])
    <2>1. LET new == Bump([clients[c] EXCEPT !.fields = f]) IN
          new.life = "live" /\ new.version = clients[c].version + 1
      BY <1>3 DEF Bump, ClientRow, ClientExists
    <2>2. clients'[d] = IF d = c THEN Bump([clients[c] EXCEPT !.fields = f]) ELSE clients[d]
      BY <1>3 DEF ReplaceFields
    <2> QED  BY <1>3, <2>1, <2>2 DEF Grows, ClientExists
  <1>4. ASSUME NEW c \in Client, NEW s \in Status, NEW x \in Reason \cup {None}, ClientExists(c),
               MoveStatus(c, s, x, clients[c].status)
        PROVE  Grows(clients[d], clients'[d])
    BY <1>4 DEF MoveStatus, Grows, ClientExists
  <1>5. ASSUME NEW c \in Client, CascadeClient(c) PROVE Grows(clients[d], clients'[d])
    BY <1>5 DEF CascadeClient, NoClientRow, Grows
  <1>6. CASE ContactStatement \/ InteractionStatement
    BY <1>1, <1>6 DEF ContactStatement, InteractionStatement, InsertContact, ReplaceContact,
       DetachContact, InsertInteraction, ReplaceInteraction, DropInteraction
  <1> QED  BY <1>1, <1>2, <1>3, <1>4, <1>5, <1>6 DEF Statement, ClientStatement, tables

\* A contact that is there stays its client's.
LEMMA ContactGrows ==
    ASSUME TablesTypeOK, Statement, NEW m \in Contact
    PROVE  /\ Grows(contacts[m], contacts'[m])
           /\ contacts[m].life = "live" /\ contacts'[m].life = "live"
                 => contacts'[m].client = contacts[m].client
  <1> USE DEF TablesTypeOK
  <1> DEFINE Goal == /\ Grows(contacts[m], contacts'[m])
                     /\ contacts[m].life = "live" /\ contacts'[m].life = "live"
                           => contacts'[m].client = contacts[m].client
  <1>1. CASE contacts' = contacts
    BY <1>1 DEF Grows
  <1>2. ASSUME NEW c \in Client, NEW k \in Contact, NEW e \in Email \cup {None},
               InsertContact(c, k, e)
        PROVE  Goal
    BY <1>2 DEF InsertContact, Grows
  <1>3. ASSUME NEW k \in Contact, NEW e \in Email \cup {None}, contacts[k].life = "live",
               ReplaceContact(k, e)
        PROVE  Goal
    <2>1. LET new == Bump([contacts[k] EXCEPT !.email = e]) IN
          /\ new.life = "live" /\ new.version = contacts[k].version + 1
          /\ new.client = contacts[k].client
      BY <1>3 DEF Bump, ContactRow
    <2>2. contacts'[m] = IF m = k THEN Bump([contacts[k] EXCEPT !.email = e]) ELSE contacts[m]
      BY <1>3 DEF ReplaceContact
    <2> QED  BY <1>3, <2>1, <2>2 DEF Grows
  <1>4. ASSUME NEW k \in Contact, DetachContact(k) PROVE Goal
    BY <1>4 DEF DetachContact, NoContactRow, Grows
  <1>5. ASSUME NEW c \in Client, CascadeClient(c) PROVE Goal
    BY <1>5 DEF CascadeClient, NoContactRow, Grows
  <1>6. CASE ClientStatement
    BY <1>1, <1>5, <1>6 DEF ClientStatement, InsertClient, ReplaceFields, MoveStatus
  <1>7. CASE InteractionStatement
    BY <1>1, <1>7 DEF InteractionStatement, InsertInteraction, ReplaceInteraction, DropInteraction
  <1> QED  BY <1>1, <1>2, <1>3, <1>4, <1>6, <1>7 DEF Statement, ContactStatement, tables

LEMMA InteractionGrows ==
    ASSUME TablesTypeOK, Statement, NEW j \in Interaction
    PROVE  Grows(interactions[j], interactions'[j]) \/ LinkSevered(j)
  <1> USE DEF TablesTypeOK
  <1> DEFINE Goal == Grows(interactions[j], interactions'[j]) \/ LinkSevered(j)
  <1>1. CASE interactions' = interactions
    BY <1>1 DEF Grows
  <1>2. ASSUME NEW c \in Client, NEW i \in Interaction, NEW k \in Contact \cup {None},
               InsertInteraction(c, i, k)
        PROVE  Goal
    BY <1>2 DEF InsertInteraction, Grows
  <1>3. ASSUME NEW i \in Interaction, NEW k \in Contact \cup {None}, interactions[i].life = "live",
               ReplaceInteraction(i, k)
        PROVE  Goal
    <2>1. LET new == Bump([interactions[i] EXCEPT !.contact = k]) IN
          new.life = "live" /\ new.version = interactions[i].version + 1
      BY <1>3 DEF Bump, InteractionRow
    <2>2. interactions'[j] = IF j = i THEN Bump([interactions[i] EXCEPT !.contact = k])
                             ELSE interactions[j]
      BY <1>3 DEF ReplaceInteraction
    <2> QED  BY <1>3, <2>1, <2>2 DEF Grows
  <1>4. ASSUME NEW i \in Interaction, DropInteraction(i) PROVE Goal
    BY <1>4 DEF DropInteraction, NoInteractionRow, Grows
  <1>5. ASSUME NEW c \in Client, CascadeClient(c) PROVE Goal
    BY <1>5 DEF CascadeClient, NoInteractionRow, Grows
  <1>6. CASE ClientStatement
    BY <1>1, <1>5, <1>6 DEF ClientStatement, InsertClient, ReplaceFields, MoveStatus
  <1>7. ASSUME NEW k \in Contact, DetachContact(k) PROVE Goal
    <2>1. interactions'[j] = IF interactions[j].contact = k
                             THEN [interactions[j] EXCEPT !.contact = None] ELSE interactions[j]
      BY <1>7 DEF DetachContact
    <2>2. contacts'[k].life = "gone"
      BY <1>7 DEF DetachContact, NoContactRow
    <2>3. interactions[j] \in InteractionRow
      OBVIOUS
    <2>4. CASE interactions[j].life = "live"
      BY <2>1, <2>2, <2>4 DEF Grows, LinkSevered
    <2>5. CASE interactions[j].life = "gone"
      BY <2>1, <2>3, <2>5 DEF Grows, InteractionRow
    <2> QED  BY <2>3, <2>4, <2>5 DEF Grows, InteractionRow, Life
  <1>8. CASE ContactStatement
    BY <1>1, <1>7, <1>8 DEF ContactStatement, InsertContact, ReplaceContact
  <1> QED  BY <1>1, <1>2, <1>3, <1>4, <1>6, <1>8 DEF Statement, InteractionStatement, tables

\* A contact that is gone stays gone.
LEMMA GoneStays ==
    ASSUME TablesTypeOK, Statement, NEW k \in Contact, contacts[k].life = "gone"
    PROVE  contacts'[k].life = "gone"
  BY ContactGrows DEF Grows

(***************************************************************************)
(* What the tables always say.                                             *)
(***************************************************************************)
\* A client that is there has its columns.
Filled == \A c \in Client : ClientExists(c) => clients[c].fields \in Field

LEMMA FilledStep ==
    ASSUME TablesTypeOK, Filled, Statement
    PROVE  Filled'
  <1> USE DEF TablesTypeOK
  <1> SUFFICES ASSUME NEW d \in Client, clients'[d].life = "live"
               PROVE  clients'[d].fields \in Field
    BY DEF Filled, ClientExists
  <1>1. CASE clients' = clients
    BY <1>1 DEF Filled, ClientExists
  <1>2. ASSUME NEW c \in Client, NEW f \in Field, InsertClient(c, f)
        PROVE  clients'[d].fields \in Field
    BY <1>2 DEF InsertClient, Filled, ClientExists
  <1>3. ASSUME NEW c \in Client, NEW f \in Field, ReplaceFields(c, f)
        PROVE  clients'[d].fields \in Field
    <2>1. clients'[d] = IF d = c THEN Bump([clients[c] EXCEPT !.fields = f]) ELSE clients[d]
      BY <1>3 DEF ReplaceFields
    <2>2. Bump([clients[c] EXCEPT !.fields = f]).fields = f
      BY DEF Bump, ClientRow
    <2> QED  BY <1>3, <2>1, <2>2 DEF Filled, ClientExists
  <1>4. ASSUME NEW c \in Client, NEW s \in Status, NEW x \in Reason \cup {None}, ClientExists(c),
               MoveStatus(c, s, x, clients[c].status)
        PROVE  clients'[d].fields \in Field
    BY <1>4 DEF MoveStatus, Filled, ClientExists
  <1>5. ASSUME NEW c \in Client, CascadeClient(c) PROVE clients'[d].fields \in Field
    BY <1>5 DEF CascadeClient, NoClientRow, Filled, ClientExists
  <1>6. CASE ContactStatement \/ InteractionStatement
    BY <1>1, <1>6 DEF ContactStatement, InteractionStatement, InsertContact, ReplaceContact,
       DetachContact, InsertInteraction, ReplaceInteraction, DropInteraction
  <1> QED  BY <1>1, <1>2, <1>3, <1>4, <1>5, <1>6 DEF Statement, ClientStatement, tables

\* An interaction that is there is linked to a contact of its own client.
OwnLinks ==
    \A i \in Interaction :
        interactions[i].life = "live"
            => ContactRefOK(interactions[i].client, interactions[i].contact)

LEMMA OwnLinksStep ==
    ASSUME TablesTypeOK, OwnLinks, Statement
    PROVE  OwnLinks'
  <1> USE DEF TablesTypeOK
  <1> DEFINE Linked(j) == interactions'[j].life = "live" /\ interactions'[j].contact # None
             Own(j) == LET k == interactions'[j].contact IN
                       contacts'[k].life = "live" /\ contacts'[k].client = interactions'[j].client
  <1> SUFFICES ASSUME NEW j \in Interaction, Linked(j)
               PROVE  Own(j)
    BY DEF OwnLinks, ContactRefOK, ContactExists
  <1>0. interactions[j] \in InteractionRow
    OBVIOUS
  <1>1. ASSUME interactions'[j] = interactions[j]
        PROVE  LET k == interactions[j].contact IN
               /\ k \in Contact /\ contacts[k].life = "live"
               /\ contacts[k].client = interactions[j].client
    BY <1>0, <1>1 DEF OwnLinks, ContactRefOK, ContactExists, InteractionRow
  <1>2. CASE contacts' = contacts /\ interactions' = interactions
    BY <1>1, <1>2
  <1>3. ASSUME NEW c \in Client, CascadeClient(c) PROVE Own(j)
    <2>1. interactions'[j] = interactions[j] /\ interactions[j].client # c
      BY <1>0, <1>3, <1>1 DEF CascadeClient, NoInteractionRow, InteractionExists
    <2>2. \A k \in Contact : contacts[k].client # c => contacts'[k] = contacts[k]
      BY <1>3 DEF CascadeClient, ContactExists
    <2> QED  BY <1>1, <2>1, <2>2
  <1>4. ASSUME NEW c \in Client, NEW k \in Contact, NEW e \in Email \cup {None},
               InsertContact(c, k, e)
        PROVE  Own(j)
    <2>1. interactions'[j] = interactions[j]
      BY <1>4 DEF InsertContact
    <2>2. \A m \in Contact : contacts[m].life = "live" => contacts'[m] = contacts[m]
      BY <1>4 DEF InsertContact
    <2> QED  BY <1>1, <2>1, <2>2
  <1>5. ASSUME NEW k \in Contact, NEW e \in Email \cup {None}, ReplaceContact(k, e)
        PROVE  Own(j)
    <2>1. interactions'[j] = interactions[j]
      BY <1>5 DEF ReplaceContact
    <2>2. LET new == Bump([contacts[k] EXCEPT !.email = e]) IN
          new.life = contacts[k].life /\ new.client = contacts[k].client
      BY DEF Bump, ContactRow
    <2>3. contacts' = [contacts EXCEPT ![k] = Bump([contacts[k] EXCEPT !.email = e])]
      BY <1>5 DEF ReplaceContact
    <2> QED  BY <1>1, <2>1, <2>2, <2>3
  <1>6. ASSUME NEW k \in Contact, DetachContact(k) PROVE Own(j)
    <2>1. interactions[j].contact # k /\ interactions'[j] = interactions[j]
      BY <1>0, <1>6 DEF DetachContact, InteractionRow
    <2>2. \A m \in Contact \ {k} : contacts'[m] = contacts[m]
      BY <1>6 DEF DetachContact
    <2> QED  BY <1>1, <2>1, <2>2
  <1>7. ASSUME NEW c \in Client, NEW i \in Interaction, NEW k \in Contact \cup {None},
               ContactRefOK(c, k), InsertInteraction(c, i, k)
        PROVE  Own(j)
    <2>1. CASE j = i
      BY <1>7, <2>1 DEF InsertInteraction, ContactRefOK, ContactExists
    <2>2. CASE j # i
      BY <1>1, <1>7, <2>2 DEF InsertInteraction
    <2> QED  BY <2>1, <2>2
  <1>8. ASSUME NEW i \in Interaction, NEW k \in Contact \cup {None},
               ContactRefOK(interactions[i].client, k), ReplaceInteraction(i, k)
        PROVE  Own(j)
    <2>1. LET new == Bump([interactions[i] EXCEPT !.contact = k]) IN
          new.contact = k /\ new.client = interactions[i].client
      BY DEF Bump, InteractionRow
    <2>2. interactions'[j] = IF j = i THEN Bump([interactions[i] EXCEPT !.contact = k])
                             ELSE interactions[j]
      BY <1>8 DEF ReplaceInteraction
    <2>3. contacts' = contacts
      BY <1>8 DEF ReplaceInteraction
    <2> QED  BY <1>1, <1>8, <2>1, <2>2, <2>3 DEF ContactRefOK, ContactExists
  <1>9. ASSUME NEW i \in Interaction, DropInteraction(i) PROVE Own(j)
    BY <1>1, <1>9 DEF DropInteraction, NoInteractionRow
  <1>10. CASE ClientStatement
    BY <1>2, <1>3, <1>10 DEF ClientStatement, InsertClient, ReplaceFields, MoveStatus
  <1>11. CASE ContactStatement
    BY <1>4, <1>5, <1>6, <1>11 DEF ContactStatement
  <1>12. CASE InteractionStatement
    BY <1>7, <1>8, <1>9, <1>12 DEF InteractionStatement
  <1> QED  BY <1>2, <1>10, <1>11, <1>12 DEF Statement, tables

\* All of it holds of a database in which nobody has written yet.
LEMMA EmptyTablesOK ==
    ASSUME EmptyTables
    PROVE  TablesTypeOK /\ Filled /\ OwnLinks
  <1>1. TablesTypeOK
    BY EmptyRowTypes DEF EmptyTables, TablesTypeOK, Life
  <1>2. Filled /\ OwnLinks
    BY DEF EmptyTables, NoClientRow, NoInteractionRow, Filled, OwnLinks, ClientExists
  <1> QED  BY <1>1, <1>2
=============================================================================
