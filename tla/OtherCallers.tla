---------------------------- MODULE OtherCallers ----------------------------
(***************************************************************************)
(* Everybody else: complete requests of other tabs, users and assistants   *)
(* to the clients routes (ClientEndpoints.cs), each applied in one step.   *)
(* ClientStore, where a request is several commands that other requests    *)
(* fall between, implements RequestsSpec.  The modules that model one      *)
(* client of the API in detail let these requests happen between its steps.*)
(***************************************************************************)
EXTENDS ClientTables

CONSTANTS
    MaxClientVersion,   \* bounds: no edit starts on a row at this version
    MaxChildVersion

ASSUME BoundAssumption == MaxClientVersion \in Nat \ {0} /\ MaxChildVersion \in Nat \ {0}

ElsewhereClients ==
    \/ \E c \in Client, f \in Field : InsertClient(c, f)
    \/ \E c \in Client :
          /\ ClientExists(c)
          /\ clients[c].version < MaxClientVersion
          /\ \/ \E f \in Field : ReplaceFields(c, f)
             \/ \E s \in Status, r \in Reason \cup {None} :
                   (r # None => s = Lost) /\ MoveStatus(c, s, r, clients[c].status)
    \/ \E c \in Client : ClientExists(c) /\ CascadeClient(c)

ElsewhereContacts ==
    \/ \E c \in Client, k \in Contact, e \in Email \cup {None} :
          ClientExists(c) /\ ~EmailTaken(c, e, None) /\ InsertContact(c, k, e)
    \/ \E k \in Contact, e \in Email \cup {None} :
          /\ contacts[k].life = "live" /\ contacts[k].version < MaxChildVersion
          /\ ~EmailTaken(contacts[k].client, e, k)
          /\ ReplaceContact(k, e)
    \/ \E k \in Contact : contacts[k].life = "live" /\ DetachContact(k)

ElsewhereInteractions ==
    \/ \E c \in Client, i \in Interaction, k \in Contact \cup {None} :
          ClientExists(c) /\ ContactRefOK(c, k) /\ InsertInteraction(c, i, k)
    \/ \E i \in Interaction, k \in Contact \cup {None} :
          /\ interactions[i].life = "live" /\ interactions[i].version < MaxChildVersion
          /\ ContactRefOK(interactions[i].client, k)
          /\ ReplaceInteraction(i, k)
    \/ \E i \in Interaction : interactions[i].life = "live" /\ DropInteraction(i)

\* A request of anybody, whole.
AnyRequest == ElsewhereClients \/ ElsewhereContacts \/ ElsewhereInteractions

\* The tables under requests that are one step each.
RequestsSpec == EmptyTables /\ [][AnyRequest]_tables
=============================================================================
