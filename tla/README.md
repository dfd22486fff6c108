# looped-in: a TLA+ verification development

Looped-in is a small CRM: an ASP.NET API (`backend/LoopedIn.Api`) over Postgres
(Neon) and S3, a Next.js front end, an MCP server that offers the API to
assistants, and a spreadsheet importer. The API runs on Lambda, so there are
many instances of it, each handling requests concurrently, and none keeps
business state in memory. The pages keep nothing but snapshots: forms that were
opened on a row, and props that are read again after every action. What can go
wrong goes wrong *between* things: two requests between two SQL commands, a
rename between two S3 calls, two cold starts between reading the journal and
writing it, a refresh beneath an open form, an assistant's read and its patch. That is what this project models.

Every module is a translation of the source lines that `PROJECT.json` ("map")
names. `B/` below stands for `backend/LoopedIn.Api/`, `F/` for `frontend/app/`.

## 1. Inventory

| Component | State | Operations | Interacts through | What is hard | What makes it correct |
|---|---|---|---|---|---|
| Client tables (`B/Infrastructure/Database/Migrations/*.sql`) | `clients`, `contacts`, `interactions`, `client_status_history` | the SQL statements; cascades, `set null`, the unique index, two CHECKs | shared by all instances | referential actions that run with somebody else's statement | no orphans, one contact per email and client, the shape of `lost_reason` |
| Client store and routes (`ClientStore.cs`, `ClientEndpoints.cs`, `DatabaseGateFilter.cs`) | none of its own; a request's progress and the version its caller loaded | create, update, status, delete; the same for contacts and interactions; reads | one pooled connection and one autocommitted transaction per command | lost updates, disambiguation after zero rows, check-then-write, retries after a lost answer | an edit replaces what its author saw; the history is a chain; 409 and 400 are true |
| Migrator and `DatabaseState` (`DatabaseMigrator.cs`) | journal table, advisory lock, per-process availability | one start-up | journal and lock, shared by all builds | concurrent cold starts, crashes, commits in doubt, rollbacks, edited files | each file once, in order, and nobody serves on less |
| Document store and routes (`DocumentStore.cs`, `DocumentEndpoints.cs`, `DocumentKey.cs`) | the bucket: one object per document, its name in its key | upload target, describe, download URL, rename, delete, list | S3 calls; the browser PUTs directly | no transactions, late PUTs, rename is copy and delete | never lost, one object, deletes final, 404 true |
| Probe cache (`ProbeCache.cs`, `/db/ping`, `/documents/ping`) | one entry per key | `GetOrProbeAsync` | `ConcurrentDictionary`, `Lazy` | stale clock readings, contention, a caller that leaves | no more probes than one per TTL since the start, an answer no older than that, an answer for everybody |
| Clients list (`F/(app)/clients/page.tsx`, `client-manager.tsx`) | props, URL, the open row form | search, filter, page, add, edit, delete | Server Actions, refresh | a list that changes beneath a form and a pager | what is replaced was seen; a total is honest |
| Client page (`F/(app)/clients/[id]/*`) | props of several reads, four kinds of open forms | save, owner, status, delete; contacts; interactions | Server Actions, refresh | frozen forms over live props; a page read at several moments | a form replaces what it was populated from, wipes nothing, and a status is chosen against the present one |
| Server Actions and `callBackend` (`clients/actions.ts`, `lib/backend.ts`) | none | one per operation; `updateClientFromRow` is two | HTTP | an answer lost after the write | the three outcomes a page tells apart are true |
| Documents page (`F/(app)/documents/document-manager.tsx`) | `isPending`, the batch, the row being renamed | upload batch, rename, delete, download | API and S3 | failure between target, PUT and complete | a batch that ends without an error is all there |
| Palette (`F/lib/palette*.ts*`, `colour-picker.tsx`, `loop-scene.tsx`) | `localStorage`, `<html>`, the panel, the scene | boot, mount, choose, mix, scheme, copy a link | storage shared by tabs, one DOM event | two readers of one storage, a scene that arrives late | page, panel and scene agree; a link shows its sender's palette |
| Client validation (`ClientValidation.cs`), key grammar (`DocumentKey.cs`) | none | pure parsing and normalisation | called by the routes | strings | – |
| MCP tools (`mcp/looped_in_mcp`) | none | read, then full replacement | API | read and patch are two requests | a merge keeps what it was not given |
| Importer (`scripts/import_clients.py`) | the folded clients of one run | fold rows, render SQL | the tables, once | rerun, order of rows | deterministic ids, first value wins |
| Other pages, authentication, configuration, infrastructure, `deploy.mjs` | none | rendering; start-up wiring | libraries | – | – |

The hazards are listed at their source lines in `PROJECT.json` ("hazards"), each
with the properties that cover it or a note why none does.

## 2. Modules

| Module | Models | Depth |
|---|---|---|
| `ClientTables` | the tables and the effect of each statement | data; no concurrency |
| `ClientStore` | requests of many callers on those tables | one step per SQL command; EXTENDS `ClientTables` |
| `VersionedRows` | what optimistic concurrency promises | abstract; `ClientStore` implements it |
| `ClientTableProofs` | lemmas about the statements, whoever runs them | TLAPS |
| `ClientStoreProofs` | theorems about `ClientStore` | TLAPS |
| `OtherCallers` | everybody else's requests to the clients routes | one step per request; EXTENDS `ClientTables`; `ClientStore` implements it |
| `ClientActions` | the Server Actions of one tab | one step per request; EXTENDS `OtherCallers` |
| `ClientListPage`, `ClientDetailPage` | the two clients pages | one step per user event, per statement of a load, per answer; EXTEND `ClientActions` |
| `ClientPages` | a tab that goes from one page to the other | composes the two pages; the properties |
| `ClientPagesProofs` | theorems about `ClientPages` | TLAPS |
| `AssistantTools` | the MCP server's update tools for one assistant | one step per request; EXTENDS `OtherCallers` |
| `AssistantProofs` | theorems about `AssistantTools` | TLAPS |
| `Migrator` | start-ups of several instances of several builds | one step per command or transaction boundary |
| `MigratorProofs` | theorems about `Migrator` | TLAPS |
| `DocumentStore` | documents of one owner in S3 | one step per S3 call |
| `DocumentManager` | the documents page at work on that bucket | EXTENDS `DocumentStore`; one step per await |
| `DocumentProofs` | theorems about `DocumentStore` and `DocumentManager` | TLAPS |
| `Palette` | storage, boot, picker, links and scene of several tabs | one step per event or effect |
| `PaletteProofs` | theorems about `Palette` | TLAPS |
| `ProbeCache` | one key of the cache in one process | one step per dictionary operation |
| `ProbeCacheProofs` | theorems about `ProbeCache` | TLAPS |
| `MCClientStore`, `MCClientPages`, `MCAssistantTools`, `MCMigrator`, `MCDocumentStore`, `MCPalette` | symmetry, builds and records, for TLC | |

Operators commented "Slip:" are plausible mistakes in the definition that
follows them. They are not part of any specification; they show, one per
property, that the property would notice the mistake.

### ClientTables and ClientStore

*State.* Each table is a function from the ids that may ever exist to rows. Ids
are fresh UUIDs, so a row is `unborn`, `live`, then `gone`. The columns PATCH
replaces are one value (`fields`). `acquired_at` and `changed_at` are the
version the row got from the statement that took the date. Emails stand for
`lower(email)`.

*Requests.* `pc` and `call` are a request's progress and its arguments, with
`seen`, the row its caller had loaded (its version is the request's
`expectedVersion`). A request can be submitted any time after it was loaded.
The steps are the moments another request can fall between:

| Route | Steps |
|---|---|
| POST, DELETE | one statement (`CreateClient`, `DeleteClient`, `DeleteContact`, `DeleteInteraction`) |
| PATCH client | `UpdateClient`, then after zero rows `DisambiguateClient` |
| status | `SnapshotStatus` (the CTEs' snapshot), `ChangeStatus` (the row lock and the re-evaluated where clause), then `DisambiguateClient` |
| POST contact | `CheckNewContact`, `SnapshotNewContact` (`where exists`), `AddContact` (index, then foreign key) |
| PATCH contact | `CheckEditedContact`, `DisambiguateClash` or `UpdateContact`, then `DisambiguateContact` |
| POST interaction | `SnapshotNewInteraction`, `AddInteraction`, then `DisambiguateNewInteraction` |
| PATCH interaction | `SnapshotInteraction`, `UpdateInteraction`, then `DisambiguateInteraction`, `DisambiguateContactRef` |

Every command runs on its own pooled connection and commits by itself. A plain
`update ... where version = @expected` is one step: under READ COMMITTED its
where clause is evaluated again on the row it finally locks, and versions only
grow, so what it decides is decided there. A statement that decides on its
snapshot *and* writes is two steps. The contact list that a successful command
also selects is not modelled, nor is the "name already exists" warning.

*Failures* (`Outages`). Any command may fail without effect (`Fail`), and a
committed write may lose its answer (`Committed`); the gate filter answers 503
to both, and the caller may submit the same request again (`Retry`). Deadlocks
that Postgres breaks (an interaction update against a client delete) are `Fail`
too. An abandoned request (a client that disconnects) is one of these.

*Properties.* `HistoryIsAChain`, `AcquiredAtFirstActivation`, `LostReasonShape`,
`OneContactPerEmail`, `NoOrphans`, `ContactIsOwn` say what the tables always
look like; `NoLostClientEdit`, `NoLostContactEdit`, `NoLostInteractionEdit` that
a row is only replaced by somebody who saw it; `ConflictIsReal` and
`InvalidReferenceIsReal` that what a caller is told is true when it is told.
`ConflictIsReal` excuses an interaction that is gone by the time its conflict
is reported: its explanation takes two queries, and the code returns
`VersionConflict` after the second without asking for the row again.

*Refinement.* `VersionedRows` is the promise the clients routes make: rows are
created, loaded, replaced and deleted in single steps, and only somebody who
holds exactly the present row replaces it. `ImplementsVersionedRows` maps `row`
to `clients` and `held` to what a request in flight was loaded from (`Held`);
snapshots, zero rows, failures and retries are stutters. `ImplementsWholeRequests`
is the same for all four tables at once: they change as if every request were
one step of `OtherCallers`, decided on the rows as they are. The pages and the
tools below rest on it: to them a request of somebody else is one step. Their
own requests are whole steps too, of the same statements: `TabIsACaller` and
`AssistantIsACaller` prove that what either does to the tables is one of the
requests of `OtherCallers`, whatever was loaded in between.

### ClientActions, ClientListPage, ClientDetailPage, ClientPages

*One tab.* `route` is the page; `request`, `result` and `failure` are the Server
Action in flight, its `ApiResult` and the banner. `isPending` is `request #
NoRequest`: every control that submits or opens a form is disabled by it. An
action goes `none` (submitted), `ok`, `conflict` or `refused` (answered),
`refreshing` (its `refresh()` has begun), and is over when the new props are
there. `Applied` may answer `refused` although the write stands: a 503, a
gateway timeout or a broken connection. `updateClientFromRow` reads, then turns
into an `updateClient`.

*Everybody else* (`Elsewhere`, from `OtherCallers`) works on the same tables: other tabs, other users,
assistants. Their requests are single steps, which is what
`ImplementsWholeRequests` justifies.

*The list* reads its query from the URL. Controls compose the next URL from the
*props*, which are those of the previous URL while a navigation is loading. A
listed page is any set of matching rows of the right size: the order of the
list is abstracted. The name of a client stands for everything `search` looks at
(name, industry, location, contacts), and the industry filter is left out: no
control sets it.

*The detail page* is loaded in parts (`reads`): the client and then its contacts
(`FindAsync`, two statements with a snapshot each) and, in parallel, the
interactions, whose failure degrades to an empty list. Forms keep the row and
the version they were opened on. The inputs of a form are chosen when it is
submitted, except where a property depends on what the browser does with an
input nobody touched: the contact select (`LinkDefault`, `LinkNow`), the reason
(`ReasonSent`) and the status select, which is remounted by its key
(`StatusFormNow`).

*Navigation* (`Visit`) is a link, a reload or the back button: the page starts
again and its request is one of everybody else's from then on.

*Properties* (all of `ClientPages`): `NoUnseenEdit`, `NothingWiped`,
`StatusChoiceCurrent`, `ReadsOwnWrites`, `OfferedLinkStays`, `TotalIsHonest`, and
the liveness property `EveryActionEnds`. `UntouchedLinkStays` does not hold (section 4).

### AssistantTools

*State.* The MCP server keeps nothing between calls. `known` is the row an
assistant has read with `get_client` or `list_client_interactions`, whose
version it passes as `expected_version`; `call` is its update tool under way,
with what it was given, what it is to clear, and the row it was made on. An
assistant that remembers several rows acts like several assistants, and those
are among everybody else.

*Steps.* `CallUpdate`, then `ReadCurrent` (the tool's GET, the row it picks from
it and the body `_replacement_body` makes of it), then `Patch`. A tool error
leaves what the assistant knows, so it may call again; an applied PATCH may lose
its answer (`Learns`). `change_client_status` is one step. The tools that are one
request without a version (create, add, delete) are what `OtherCallers` does.
The columns of a client are its name and the rest: what distinguishes them to a
merge is that a name cannot be cleared.

### Migrator

*State.* `journal` (file to recorded checksum), `schema` (the files whose
statements took effect, in order, with the checksum of the text that ran),
`lock`, and per instance `pc`, `build`, `todo` (the plan's pending files). A
transaction's work exists only in its instance's `pc` until `Record` commits
it. `pc` "available" and "unavailable" are `DatabaseState`.

*What goes wrong.* A command fails or times out (`Fail`, `LockTimeout`), the
process ends (`Crash`); either way the server may roll back at once, or keep
the session, its lock, and perhaps a COMMIT that was already sent (`inDoubt`)
until `Reap`. A commit of `create table if not exists` in doubt is left out: it
could only make `tableExists` true earlier. `reading` covers both the missing
table and the empty one, which the code treats alike.

*Assumption.* `AppendOnly`: a build has a prefix of the files, as rule 1 of the
migrations' README asks; an *edited text* of a file is allowed and modelled. A
file numbered below one that has been applied elsewhere is not.

### DocumentStore and DocumentManager

*The bucket.* `objects[d]` is the set of names document `d` has an object under;
names are numbers in S3's listing order, because `LocateAsync` takes the first
key (`MaxKeys = 1`). `upload` and `target` follow the presigned PUT, which lands
at any time before it expires; that the same URL could be used twice is not
modelled. `used` and `erased` remember what has been asked for,
`leftover` the documents a rename stopped on between its copy and its delete,
and `steady` the requests whose document has been one object ever since they
began to look for it (a describe at the end of a rename begins to look again).
These four are history: no guard but those of `FreshNames` reads them.

*Steps.* `Locate` (list), `Head`, `Copy`, `Unlink` (the delete of a rename),
`DeleteObject`; a rename ends with a describe. `Failures` lets any call fail
without effect, or take effect and lose its answer, and ends the request there
(503, or an instance that is gone).

*The page.* `task` is the handler under way and `step` what it awaits: an upload
target, the direct PUT, a call of the API, or the list that is read again after
every file that was confirmed. `batch` is what was picked, what is left of it, in hand and confirmed.
The page's call is the `Tab` caller's request of `DocumentStore`. A list that
cannot be read puts an error card in place of the manager while its loop goes on
unseen (`RereadFails`). The list (`Listed`) holds at most `MaxListed` objects, in the
order of ids and then names in which S3 enumerates keys: past this ceiling the
newest are left out, and the page says so (`truncated`). Leaving the page (`Visit`) ends the handler and not the
request. One upload loop at a time: a second one, begun after such a card, is
not modelled.

*Constants as hypotheses.* `Serial` is a set of documents whose requests come one
at a time. That is what one browser tab does (`document-manager.tsx` disables its
controls while `isPending`); two tabs or an API client do not. `FreshNames` is a set
of documents nobody renames to a name they had before. On all others requests
overlap as they like.

*Properties.* `OneObjectUnlessLeftover` and `DeleteIsFinal` are about the documents in
`Serial`; `NeverLost` about all, in an instance where each is in one of the two
sets; `NotFoundIsReal` needs neither: a request whose key went stale between the
list and the head answers 404 only when the document has not been one object all
the while. `BatchHonest` counts: a loop that skipped a file, or ended early, without
an error would have confirmed fewer than were picked.

### Palette

*State.* `stored` is `localStorage`, which starts as anything an earlier visit,
an older release or a hand may have left; `clip` the link last copied; per tab
its page (`life`), what `<html>` wears, the panel's state, and the scene. A
palette is one value for its seven colours; `None` is "no overrides".

*Steps.* The inline script reads and validates by itself (`Boot`); the effect on
mount reads again, prefers a link, and stores what it applies; every write may
fail silently (quota, private mode). The scene is imported at any time after
the mount and is told of every change by an event. No tab listens to another's
storage.

*`undisturbed`* says that what a tab booted on was well-formed and is still what
is stored when it mounts; `InStep` promises that panel and page agree for such
a tab only (section 4 says what happens otherwise).

### ProbeCache

*State.* The entries ever installed, numbered (`expires`, `started`), the one in
the dictionary (`cached`), the probes that have a result (`ended`), and per
caller the clock reading it came with (`now`) and the entry it found. A caller
reads the clock, loads the entry, and reuses it, installs another, or loses the
race and loads again *with the old reading*; then the `Lazy` runs the probe for
whoever comes first. The clock does not go backwards (a wall clock stepped back
is outside the model).

## 3. Runs

`PROJECT.json` ("runs") says in a sentence what each run shows and "mutants" names
the slip that breaks each of its properties.

| Run | Instance | Distinct states | Checks |
|---|---|---|---|
| `clients` | 2 callers, 1 client, 2 field values, 3 statuses, versions to 4, outages | 0.3 M | the clients routes and what they implement |
| `children` | 2 callers, 2 clients, 2 contacts, 1 interaction, 1 email, versions to 2, outages | 4.3 M | contacts and interactions |
| `boots` | 2 instances, 3 builds (old, new, one edited text), 3 files, 4 starts, outages | 0.1 M | the migrator, with liveness |
| `lost` | 2 callers, 2 names, no failures | *violated* | section 4 |
| `uploads` | 2 documents (one `Serial`, one in `FreshNames`), 2 names, the tab and 1 caller, batches of 2, a list of 2 objects, failures | 14.7 M | the page and the bucket |
| `pages` | 1 client, versions to 3, 1 name, 1 other text, 1 reason, the filter `lost` | 2.2 M | the forms of a client |
| `logs` | 1 client, 1 contact, 1 interaction, their versions to 2 | 1.7 M | the forms of contacts and interactions |
| `unlinked` | as `logs` | *violated* | section 4 |
| `browse` | 2 clients, pages of 1, the filter, fairness | 0.1 M | the total, and liveness |
| `tools` | 1 client (versions to 3), 2 contacts and 1 interaction (to 2), 2 names, 1 other text | 1.2 M | an assistant's merges |
| `palette` | 2 tabs, 2 colours, the shipped and 1 preset, 2 schemes | 0.5 M | storage, page, panel, scene |
| `probes` | 2 callers, TTL 2, clock to 4 | 0.2 M | the probe cache, with liveness |

Each takes seconds to three minutes with two workers. `clients` has no contacts and
no interactions: what `ImplementsWholeRequests` says of those is not met there and
rests on the theorem `WholeRequestsImplemented`.

*Why the bounds are enough.* Every race of the client store is between two
requests on the same rows, so two callers meet all of them; a second client is
there where a request may name another client's child. Four versions give lead,
active, lost, active again with an edit in between. In the pages and the tools
everybody else is any number of callers already, because their requests are
single steps; three versions let two foreign edits come between a form and its
save. Four starts of instances of three builds give two concurrent boots, a
crash with its commit in doubt, a restart, and a boot of the third build. Two
names are a rename and its reverse; a list of two objects shows everything until a
rename under way, or one that stopped, makes a third. TTL 2 with a clock to 4 lets a caller sleep through a lifetime.

*Deadlock* is not checked: ids, versions, starts and the clock run out by the
bounds, and nobody need ask anything. *Symmetry* is used where no liveness is
checked.

*Fairness.* `Migrator`: an instance goes on with its start-up (every command has
a 30 second timeout); nobody need start, crash, or be reaped, and `BootEnds` holds
because the wait for the lock times out. `ProbeCache`: a caller takes its steps
and a started probe ends (it runs on its own cancellation token); nobody need
come, or stay. `ClientPages` (`FairSpec`): the API, the gateway before it or the
browser answers or gives up, a load arrives or fails, and the handler of an
answered action goes on; users, visits and everybody else need do nothing.

## 4. Where code and text disagree

*A document can be lost* (`lost`). `DocumentStore.cs:249-251` says that copy, then
delete, leaves the original intact when it fails midway. Two renames in
opposite directions need no failure: each copies, and then each deletes the
other's copy. The run `uploads` and the theorem `RenamesLoseNothing` say when this
cannot happen: each document has one request at a time, or its names do not come
back.

*A link can be removed unseen* (`unlinked`). A contact and an interaction linked
to it are added between the two reads of one page. The form of the interaction
opens without that contact among its options, and saving it untouched sends
`contactId: null` with the right version.

Smaller ones, which are in the models but have no run:

- `ClientStore.cs:187-188` says that a client's contacts "cannot be read from a
  moment other than the one the client row came from". Under READ COMMITTED the
  two statements of the command take a snapshot each (`ReadClient` and
  `ReadContacts` of `ClientDetailPage`): a client deleted in between is served
  as one without contacts.
- A client deleted between the snapshot of `insert ... where exists` and its
  foreign key gives 503 and not the 404 of `ClientStore.cs:470-472`.
- `DocumentKey.cs:14-15` says one document is always one object. After a rename
  that stopped half way it is two, until it is renamed or deleted again. It is two
  without any failure when two renames to different names overlap: both locate the
  old name and copy from it before either deletes it. And when a
  delete has located the old name before a rename copies, it removes that and
  leaves the document there under its new name, after the 204. `Serial` excludes both, and `OneObjectUnlessLeftover` and
  `DeleteIsFinal` are about documents in `Serial` only.
- A 404 (`DocumentStore.cs:197-201`) may be about a document that has just been renamed:
  the list found the old name, the head no longer does. `NotFoundIsReal` says that
  this takes another request that made it two objects, or none, in between.
- Past `MaxListedObjects` the list leaves out the *newest* documents
  (`DocumentStore.cs:57-60` says so): a file that was just confirmed has no row, and the
  page ends the batch with the hint that it does not show everything.
- The banner of a 409 offers to reload, also when the 409 is a duplicate email,
  which a reload does not cure.
- `clients.py:295-296` tells assistants that a 409 means somebody else's edit; after
  a timeout of a PATCH that was applied it is their own.
- A malformed palette beside a valid scheme: the boot script applies the scheme,
  `readPickerState` then rejects both, and page and panel differ until something
  is chosen. The same when another tab clears the storage between a tab's boot
  and its mount. `InStep` speaks of tabs that are `undisturbed`.
- A stored preset of an older release whose colours have changed since: a link
  names the preset, and shows the new colours. `OldPresets = FALSE` excludes it from
  `LinkShowsSender`.

## 5. Proofs

TLAPS checks every theorem for all values of the constants that satisfy the
named assumptions, and every set of callers, instances, rows, names and tabs.
`PROJECT.json` ("theorems") lists the results. Each property that a passing run
checks is proved, but for the liveness ones.

**The tables.** `ClientTableProofs` has what the proofs about the store, the pages and
the tools share: a step of the API is at most one `Statement`; a row `Grows` by it,
which is to say that it is born, moves up one version, is severed from its
contact (the one change without a version) or goes, and what is gone stays gone;
and a link, once it names a contact of its own client, does so or is severed
(`OwnLinks`). Whoever reads a row and acts on it later needs no more of the rest
of the world than this.

**ClientStore.** `TypeCorrect` is inductive by itself. `HistoryCorrect` needs to know
what a request in flight holds: the `from_status` that goes into a history row
comes from the statement's snapshot, and only the version it was loaded with
ties it to the row. So `ClientInv` says for every caller (`SeenClient`) that a row it
has seen is of an older version than the present one, or is the present one;
`NoClientEditLost` follows from the same. `RowsImplemented` is a step simulation:
the two or three steps that write are `Load` and `Replace` of `VersionedRows`, all
others stutter. `AcquiredCorrect` relates a column to the history by
which it was set; `KeysInv` carries email uniqueness, ownership and links
together, because each needs the others when a client cascades, and `LinkKnown`
says why a contact that was the client's in a snapshot still is, or is gone: it
never changes its client and never comes back. `EditInv` does for contacts and
interactions what `SeenClient` does for clients, with the link that is severed
without a version as the exception; the truth of 409 and 400 follows, since
what explained zero rows stays true. `WholeRequestsImplemented` needs all of these
at once. A snapshot may be old by the time its statement writes; `SeenClient` says
that the status it read is the one the row still has when the version still
matches, and `LinkKnown` that the contact it found is the client's when the
foreign key finds it at all.

**Migrator.** `MigratorInv` is `TypeOK` with `Agree` (journal and schema have the same
files with the same checksums), `LockHeld` (who is past the lock is the one that
holds it), `Doubt` (an abandoned commit belongs to a session that still has the
lock), `Progress`, `Knows` (past the recheck an instance knows what the journal
says of its next file) and `Serves`. `LockHeld` is why a recheck under the lock is
enough, `Doubt` why a commit nobody waits for cannot slip in after it. Order
needs `AppendOnly`.

**Documents.** `DocInv` says how far a request can have come and what an upload
leaves. For fresh names, `Fresh` keeps the names of requests apart: nobody is about
to unlink the object another has just copied. For serial requests, `Alone` says
that there is one request on a document. Under either, `Kept` says that a wanted
document has an object nobody is about to unlink, which is `RenamesLoseNothing`;
each hypothesis is about one document, and the theorem asks that every document
meets one of them. `SerialInv` gives one object and final deletes for the documents
in `Serial`. `NotFoundsAreReal` has no hypothesis: `SteadyInv` says that as long as a
document has been one object, the key a request has found is that object, because
no single step replaces a document's one object by another (`OneStaysTheSame`): a
rename passes through two. `PageIsACaller` shows that
the handlers of the page are steps of the store's specification, which brings
all of these to the composition. `BatchesAreHonest` adds what the loop counts
(`Counted`: the files confirmed and those left are those picked, since an id that
was minted is none of the confirmed ones), and that below its ceiling the list
has a row for every object (`ListedUnlessTruncated`).

**Palette.** `PaletteInv` says of each tab what its life has established: what it
booted with, what it mounted with, what the scene was raised with. `AgreeInv` says
that a preset's id and its colours go together wherever they are: storage,
panel, clipboard and link.

**ProbeCache.** `CacheInv`: entries are spaced by a lifetime (`Spaced`), a probe that
runs is of an entry in force when its caller came (`RunInForce`), and what a
caller holds had not expired at the reading it came with (`Holds`).

**AssistantTools.** `AssistantInv`: what the assistant knows and what its call was
made on is the present row or an older version of it (`Held`), and the body of a
PATCH whose version is still the row's is the merge of the *present* columns
(`Accurate`). The exception shows why the invariant is needed: a contact may be
deleted after the tool's GET, which changes the row and not its version. The
body then names a contact that is gone, and gone contacts stay gone, so the API
refuses it.

**ClientPages.** `PagesInv` has one part per place a row can be copied to: the props of
the two pages, the open forms, the request in flight. Each copy is `Held`: the
present row, or an edit with its version can no longer be applied. That gives
`NobodysEditIsOverwritten` where a form is frozen; the client form takes its owner
from the live props, and there the proof needs that the form is never newer
than what is shown, so the owner passed through is the owner the form's version
had, or the PATCH is refused. For a status that is submitted under a live
version, `StatusChosenInSight` needs that the form is remounted whenever the status
it was mounted on changes. `ReadsOK` orders the parts of a load: what is being
read is not older than what is shown, and a contact missing from what is shown
is missing for good. With `Outrun` (an edit that was applied has moved its row on,
and the refresh reads after that) this gives `OwnWritesAreRead`. `LinkKept` says what a select that
offered the contact sends, and gives `OfferedLinkIsKept`; without the offer there is
the counterexample of `unlinked`. `TabIsACaller` adds that every form's version is
within its bound and no reason goes with a status that has none. `TotalsAreHonest` counts rows and needs
`CountAssumption`: a table has finitely many rows.

*Only model-checked.* Liveness (`BootEnds`, `Answered`, `EveryActionEnds`): fairness is
out of the prover's reach. What is proved assumes what the
models assume: statement-level atomicity of Postgres under READ COMMITTED,
linearizable S3 calls, single-use presigned URLs.

## 6. Not modelled

- *Pages.* What a Server Action's transport does when the answer is no answer
  at all (the error boundary takes the page); a form that is remounted with the
  values of a newer row under its old version; layout toggles, the fold of the
  add forms, a second upload loop after an error card; the follow-up list; the
  dashboard, account and connect pages, which render one read.
- *Lists.* The order of the document list on the page, and the pages S3 hands it out
  in; the industry
  filter; what `search` matches.
- *Pure functions on strings and numbers.* Client validation, the key grammar,
  MIME types, contrast and random palettes. Unit tests reach them; TLC's data
  would not. The drag of the colour panel and the animation of the scene.
- *MCP.* The list and history readers, the rewriting of OAuth documents, token
  checks.
- *Importer.* A sequential script that renders SQL from one spreadsheet, run by
  hand before there were other users; its ids and its first-value rule are
  deterministic functions of the sheet.
- *Authentication, configuration, infrastructure, `deploy.mjs`.* Wiring of
  libraries, declarative resources, and one command after another.
