---------------------------- MODULE ClientListPage ----------------------------
(***************************************************************************)
(* The list of clients: its loader (clients/page.tsx) and its manager      *)
(* (client-manager.tsx).                                                   *)
(*                                                                         *)
(* Search, filter and page live in the URL, which the loader reads; the    *)
(* controls compose the next URL from the props, which are those of the    *)
(* URL before while a navigation is loading.  The industry filter, which   *)
(* no control sets, behaves as the search does and is left out.            *)
(*                                                                         *)
(* The order of the list is abstracted: a page holds any rows that match,  *)
(* as many as an offset leaves.                                            *)
(***************************************************************************)
EXTENDS ClientActions, FiniteSetsExt

CONSTANTS
    Search,     \* bounds: the searches a user types, the statuses one filters by,
    Filter,
    MaxPage,    \* and the last page a URL asks for
    PageSize    \* PAGE_SIZE

ASSUME ListAssumption ==
    Search \subseteq Name /\ Filter \subseteq Status /\ PageSize \in Nat \ {0} /\ MaxPage \in Nat \ {0}

\* A table has finitely many rows, which count(*) counts.
ASSUME CountAssumption == IsFiniteSet(Client)

VARIABLES
    url,        \* the query of the URL
    listing,    \* the props of ClientManager, or what is there instead
    listLoad,   \* the load in progress
    editingRow, \* the open row form
    creating    \* whether the form of a new client is open

list == <<url, listing, listLoad, editingRow, creating>>
rowForms == <<editingRow, creating>>

\* page = 0 stands for a parameter that is missing or no number.
Query == [search: Search \cup {None}, status: Filter \cup {None}, page: 0..MaxPage]
EveryClient == [search |-> None, status |-> None, page |-> 0]

\* A listed row stands for the ClientSummary; that it is the whole row is for
\* the properties, no control uses more than name and version.
Listing(kind, rows, total, q) == [kind |-> kind, rows |-> rows, total |-> total, query |-> q]
NothingListed(kind) == Listing(kind, [c \in {} |-> {}], 0, EveryClient)

NoRow == [open |-> FALSE]

ListTypeOK ==
    /\ url \in Query
    /\ listing.kind \in {"loading", "error", "view"}
    /\ RowsOf(listing.rows, Client, ClientRow)
    /\ listing.total \in Nat /\ listing.query \in Query
    /\ listLoad \in {"none", "reading", "counting"}
    /\ editingRow \in {NoRow} \cup [open: {TRUE}, id: Client, version: Nat, seen: ClientRow]
    /\ creating \in BOOLEAN

RowsUnmounted == editingRow = NoRow /\ creating = FALSE
RowsUnmount == editingRow' = NoRow /\ creating' = FALSE

(***************************************************************************)
(* ClientList and GET /clients.                                            *)
(***************************************************************************)
\* The props are always of a page that exists in the pager's sense: 1 or more.
PageNumber(p) == IF p > 1 THEN p ELSE 1

Matching(q) ==
    {c \in Client : /\ ClientExists(c)
                    /\ q.search # None => clients[c].fields.name = q.search
                    /\ q.status # None => clients[c].status = q.status}

Offset(q) == (PageNumber(q.page) - 1) * PageSize
Sanitised(q) == [q EXCEPT !.page = PageNumber(@)]

\* limit @limit offset @offset over Matching(q)
PageOf(q) ==
    LET left == Cardinality(Matching(q)) - Offset(q) IN
    kSubset(IF left < 0 THEN 0 ELSE IF left < PageSize THEN left ELSE PageSize, Matching(q))

\* The form an action's handler closes when it has succeeded.
RowSaved == result = "refreshing" /\ request.op = "updateClient"
ClientAdded == result = "refreshing" /\ request.op = "createClient"

\* The props are there.  After an action of this page its handler goes on.
ListArrives(props) ==
    /\ listing' = props
    /\ listLoad' = "none"
    /\ editingRow' = IF RowSaved THEN NoRow ELSE editingRow
    /\ creating' = (creating /\ ~ClientAdded)
    /\ request' = IF result = "refreshing" THEN NoRequest ELSE request
    /\ result' = IF result = "refreshing" THEN "none" ELSE result
    /\ UNCHANGED <<tables, route, failure, url>>

\* Slip: the total is only the one the rows carry.
ReadListUncounted ==
    /\ listLoad = "reading"
    /\ \E S \in PageOf(url) :
          ListArrives(Listing("view", [c \in S |-> clients[c]],
                              IF S = {} THEN 0 ELSE Cardinality(Matching(url)), Sanitised(url)))

\* The total rides on the rows; a page past the end has none.
ReadList ==
    /\ listLoad = "reading"
    /\ \E S \in PageOf(url) :
          IF S = {} /\ Offset(url) > 0
          THEN listLoad' = "counting" /\ UNCHANGED <<tables, session, url, listing, rowForms>>
          ELSE ListArrives(Listing("view", [c \in S |-> clients[c]],
                                   Cardinality(Matching(url)), Sanitised(url)))

\* CountAsync, the second statement of the page past the end.
CountList ==
    /\ listLoad = "counting"
    /\ ListArrives(Listing("view", [c \in {} |-> {}], Cardinality(Matching(url)), Sanitised(url)))

\* Slip: the action of a manager that is gone is never over.
ListFailsUnsettled ==
    /\ listLoad # "none"
    /\ listing' = NothingListed("error") /\ listLoad' = "none"
    /\ RowsUnmount
    /\ UNCHANGED <<tables, session, url>>

\* ApiError takes the place of the manager, and its state goes with it.
ListFails ==
    /\ listLoad # "none"
    /\ listing' = NothingListed("error") /\ listLoad' = "none"
    /\ RowsUnmount
    /\ request' = IF result = "refreshing" THEN NoRequest ELSE request
    /\ result' = IF result = "refreshing" THEN "none" ELSE result
    /\ failure' = "none"
    /\ UNCHANGED <<tables, route, url>>

ListLoad == ReadList \/ CountList \/ ListFails

(***************************************************************************)
(* What becomes of an action.                                              *)
(***************************************************************************)
OnList == route = List

ListRefresh ==
    /\ OnList /\ result = "ok"
    /\ result' = "refreshing"
    /\ listLoad' = "reading"
    /\ UNCHANGED <<tables, route, request, failure, url, listing, rowForms>>

ListRefused ==
    /\ OnList /\ result \in {"conflict", "refused"}
    /\ failure' = result
    /\ request' = NoRequest /\ result' = "none"
    /\ UNCHANGED <<tables, route, list>>

ListReload ==
    /\ OnList /\ failure = "conflict" /\ ~IsPending /\ listLoad = "none"
    /\ listLoad' = "reading"
    /\ UNCHANGED <<tables, session, url, listing, rowForms>>

(***************************************************************************)
(* Search, filter and pager.                                               *)
(***************************************************************************)
ListView == OnList /\ listing.kind = "view"

\* router.replace: the load of the URL before, if any, is dropped.
Navigate(q) ==
    /\ url' = q
    /\ listLoad' = "reading"
    /\ UNCHANGED <<tables, session, listing, rowForms>>

Shows == listing.query
Filtered == Shows.search # None \/ Shows.status # None
LastRow == Offset(Shows) + Cardinality(DOMAIN listing.rows)
First(q) == [q EXCEPT !.page = 0]

OnSearch ==
    /\ ListView /\ ~IsPending
    /\ \E s \in Search \cup {None} : Navigate(First([Shows EXCEPT !.search = s]))

OnFilter ==
    /\ ListView /\ ~IsPending
    /\ \E s \in Filter \cup {None} :
          s # Shows.status /\ Navigate(First([Shows EXCEPT !.status = s]))

Clear ==
    /\ ListView /\ ~IsPending /\ Filtered
    /\ Navigate(EveryClient)

\* The empty list's buttons are not disabled while an action is pending.
EmptyView == ListView /\ DOMAIN listing.rows = {}

ShowAll == EmptyView /\ Filtered /\ Navigate(EveryClient)

BackToFirst == EmptyView /\ ~Filtered /\ Shows.page > 1 /\ Navigate(First(Shows))

Previous ==
    /\ ListView /\ ~IsPending /\ Offset(Shows) > 0
    /\ Navigate([Shows EXCEPT !.page = IF @ = 2 THEN 0 ELSE @ - 1])

NextPage ==
    /\ ListView /\ ~IsPending /\ LastRow < listing.total
    /\ Shows.page < MaxPage
    /\ Navigate([Shows EXCEPT !.page = @ + 1])

Browse == OnSearch \/ OnFilter \/ Clear \/ ShowAll \/ BackToFirst \/ Previous \/ NextPage

(***************************************************************************)
(* The row form, the form of a new client and the delete buttons.          *)
(***************************************************************************)
ListReady == ListView /\ ~IsPending
Editing(c) == editingRow.open /\ editingRow.id = c
RowFormShown == editingRow.open /\ editingRow.id \in DOMAIN listing.rows

ToggleCreate ==
    /\ ListReady
    /\ creating' = ~creating
    /\ UNCHANGED <<tables, session, url, listing, listLoad, editingRow>>

\* Version and inputs of one render; reset of the banner.
OpenRow ==
    /\ ListReady
    /\ \E c \in DOMAIN listing.rows :
          LET row == listing.rows[c] IN
          /\ ~Editing(c) /\ row.version < MaxClientVersion
          /\ editingRow' = [open |-> TRUE, id |-> c, version |-> row.version, seen |-> row]
    /\ failure' = "none"
    /\ UNCHANGED <<tables, route, request, result, url, listing, listLoad, creating>>

CancelRow ==
    /\ ListReady /\ RowFormShown
    /\ editingRow' = NoRow
    /\ UNCHANGED <<tables, session, url, listing, listLoad, creating>>

ListSends(r) == ListView /\ Submit(r) /\ UNCHANGED list

\* The inputs of the form of a new client, which has no owner.
CreateFields == [name: Name, rest: Rest \cup {None}, owner: {None}]

OnCreate ==
    /\ creating
    /\ \E f \in CreateFields : ListSends([op |-> "createClient", fields |-> f])

OnSaveRow ==
    /\ ListView /\ RowFormShown
    /\ \E n \in Name :
          ListSends([op |-> "updateClientFromRow", client |-> editingRow.id, name |-> n,
                     version |-> editingRow.version, seen |-> editingRow.seen])

OnDelete ==
    /\ ListView
    /\ \E c \in DOMAIN listing.rows :
          ~Editing(c) /\ ListSends([op |-> "deleteClient", client |-> c])

ListControl == ToggleCreate \/ OpenRow \/ CancelRow \/ OnCreate \/ OnSaveRow \/ OnDelete
=============================================================================
