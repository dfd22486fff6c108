----------------------------- MODULE ClientPages -----------------------------
(***************************************************************************)
(* One browser tab on the clients pages, the API it works on through the   *)
(* Server Actions, and everybody else who works on the same clients.       *)
(***************************************************************************)
EXTENDS ClientListPage, ClientDetailPage

pages == <<session, list, detail>>
vars == <<tables, pages>>

Init ==
    /\ SessionInit
    /\ url = EveryClient /\ listing = NothingListed("loading")
    /\ listLoad = "reading" /\ RowsUnmounted
    /\ DetailInit

\* A link, the back button, a typed URL, a reload: a new page, whose state is
\* its initial one.  A request in flight is one of everybody else's from here
\* on: nobody waits for its answer.
VisitPage(p, q) ==
    /\ route' = p
    /\ request' = NoRequest /\ result' = "none" /\ failure' = "none"
    /\ url' = q /\ listing' = NothingListed("loading") /\ RowsUnmount
    /\ listLoad' = IF p = List THEN "reading" ELSE "none"
    /\ shown' = Blank("loading") /\ Unmount
    /\ reads' = IF p = List THEN NoReads ELSE StartReads
    /\ UNCHANGED tables

Visit ==
    \/ \E q \in Query : VisitPage(List, q)
    \/ \E c \in Client : VisitPage(c, EveryClient)

\* router.push("/clients") after the page's own client was deleted; what the
\* refresh of deleteClient makes of the page in between is gone with it.
AfterDelete ==
    /\ OnDetail /\ result = "ok" /\ request.op = "deleteClient"
    /\ VisitPage(List, EveryClient)

ListStep ==
    /\ ListLoad \/ ListRefresh \/ ListRefused \/ ListReload \/ Browse \/ ListControl
    /\ UNCHANGED detail

DetailStep ==
    /\ Load \/ Refresh \/ Refused \/ Reload \/ DetailSubmit \/ DetailControl
    /\ UNCHANGED list

Next ==
    \/ ListStep \/ DetailStep
    \/ Visit \/ AfterDelete
    \/ Serve /\ UNCHANGED <<list, detail>>
    \/ Elsewhere /\ UNCHANGED <<list, detail>>

\* The API, the gateway in front of it and the browser answer or give up, and
\* what is loading arrives or fails.  Users and everybody else need not act.
Fairness ==
    /\ WF_vars(Serve /\ UNCHANGED <<list, detail>>)
    /\ WF_vars((ListLoad \/ ListRefresh \/ ListRefused) /\ UNCHANGED detail)
    /\ WF_vars((Load \/ Refresh \/ Refused) /\ UNCHANGED list)
    /\ WF_vars(AfterDelete)

Spec == Init /\ [][Next]_vars
FairSpec == Spec /\ Fairness

TypeOK == SessionTypeOK /\ ListTypeOK /\ DetailTypeOK

(***************************************************************************)
(* Properties.                                                             *)
(***************************************************************************)
Sent(op) == request.op = op

\* The API has dealt with the tab's request in this step.
ByTab == result = "none" /\ result' # "none"

Replaced(row, next) == row.life = "live" /\ next.life = "live" /\ row # next

\* The row is as it was loaded.  Deleting a contact clears links to it without
\* a new version, which an edit of the interaction may overwrite.
AsSeen(row) == row = request.seen
AsSeenButLink(row) == row = request.seen \/ row = [request.seen EXCEPT !.contact = None]

\* What the tab replaces is what its form was populated from, whichever control
\* it is, whatever was loaded beneath the open form and whoever else edited the
\* row: nobody's edit is overwritten unseen (client-manager.tsx:28-34,
\* client-detail.tsx:43-48).
NoUnseenEdit ==
    [][ByTab =>
         /\ \A c \in Client : Replaced(clients[c], clients'[c]) => AsSeen(clients[c])
         /\ \A k \in Contact : Replaced(contacts[k], contacts'[k]) => AsSeen(contacts[k])
         /\ \A i \in Interaction :
               Replaced(interactions[i], interactions'[i]) /\ Sent("updateInteraction")
                  => AsSeenButLink(interactions[i])]_vars

\* PATCH replaces every column, yet no control changes a column it does not
\* show: the client form keeps the owner, the list row everything else, and the
\* owner buttons all but the owner (actions.ts:72-84, client-detail.tsx:96-99).
NothingWiped ==
    [][ByTab /\ Sent("updateClient") =>
         \A c \in Client :
            LET before == clients[c].fields
                after == clients'[c].fields IN
            Replaced(clients[c], clients'[c]) =>
               /\ request.from # "owner" => after.owner = before.owner
               /\ request.from # "form" => after.rest = before.rest
               /\ request.from = "owner" => after.name = before.name]_vars

\* The status form submits a live version, yet a status that takes effect was
\* chosen against the status the client has (client-detail.tsx:118-123).
StatusChoiceCurrent ==
    [][ByTab /\ Sent("changeClientStatus") =>
         \A c \in Client :
            Replaced(clients[c], clients'[c])
               => request.chosen.status = clients[c].status]_vars

\* When an action has succeeded and the page settles, it shows the row with
\* that edit or a later one, or not at all.
Settles == result = "refreshing" /\ request' = NoRequest
ReadsOwnWrites ==
    [][Settles /\ route' = route =>
         /\ Sent("updateClient") /\ request.client \in DOMAIN listing'.rows
               => listing'.rows[request.client].version > request.version
         /\ (Sent("updateClient") \/ Sent("changeClientStatus")) /\ shown'.kind = "view"
               => shown'.row.version > request.version]_vars

\* "An open editor holds the version its form was populated from" and its values
\* "freeze when the form mounts" (client-detail.tsx:43-45): an interaction that is
\* saved without its contact select being used keeps the contact it is linked to.
UntouchedLinkStays ==
    [][ByTab /\ Sent("updateInteraction") /\ ~request.touched =>
         \A i \in Interaction :
            Replaced(interactions[i], interactions'[i])
               => interactions'[i].contact = interactions[i].contact]_vars

\* It does when the select had that contact among its options to begin with,
\* whatever the loads beneath the open form bring or leave out.
OfferedLinkStays ==
    [][ByTab /\ Sent("updateInteraction") /\ ~request.touched /\ request.offered =>
         \A i \in Interaction :
            Replaced(interactions[i], interactions'[i])
               => interactions'[i].contact = interactions[i].contact]_vars

\* A page of the list that arrives says `0 clients' only when none matches,
\* although the total rides on the rows and a page past the end has none, and
\* rows come and go while somebody pages (ClientStore.cs:149-155).
TotalIsHonest ==
    [][listLoad # "none" /\ listing'.kind = "view" /\ listLoad' = "none" /\ listing'.total = 0
         => Matching(url) = {}]_vars

\* Controls are disabled while an action is pending: it always ends, whatever
\* the API, the loads and everybody else do, and the page can be used again.
EveryActionEnds == IsPending ~> ~IsPending
=============================================================================
