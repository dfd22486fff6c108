--------------------------- MODULE DocumentManager ---------------------------
(***************************************************************************)
(* The documents page of one tab (documents/document-manager.tsx, its      *)
(* Server Actions and its loader) at work on the bucket that everybody     *)
(* else who has the owner's documents works on too.                        *)
(*                                                                         *)
(* The page keeps no copy of the list: it renders props, and a mutation    *)
(* that succeeds is followed by a new read of them (refresh()).  A handler *)
(* is one async function: what it is waiting for is `step'.  An upload is  *)
(* a loop over the files picked; it sends the bytes past the API, straight *)
(* to S3.                                                                  *)
(***************************************************************************)
EXTENDS DocumentStore

CONSTANTS
    Tab,        \* the caller this page is
    NoDoc,
    MaxListed,  \* options.MaxListedObjects
    MaxFiles    \* bound: the files picked at a time

ASSUME ManagerAssumption ==
    /\ Tab \in Caller
    /\ NoDoc \notin Doc
    /\ Doc \subseteq Nat      \* ids in the order S3 lists them in
    /\ IsFiniteSet(Doc) /\ IsFiniteSet(Name)
    /\ MaxListed \in Nat \ {0} /\ MaxFiles \in Nat \ {0}

VARIABLES
    page,       \* what DocumentLibrary rendered: the manager or an error card
    rows,       \* the props: the documents that have a row,
    truncated,  \* and whether there are more than it shows
    task,       \* the handler under way
    step,       \* and what it waits for
    batch,      \* the files picked and still to send, the one being sent, those confirmed
    renaming    \* the row that is a rename form

manager == <<page, rows, truncated, task, step, batch, renaming>>
bucket == <<objects, upload, target, used, erased, leftover, steady, pc, call>>
allVars == <<bucket, manager>>

NoBatch == [picked |-> 0, left |-> 0, doc |-> NoDoc, done |-> {}]

PageTypeOK ==
    /\ TypeOK
    /\ page \in {"view", "error"}
    /\ rows \in SUBSET Doc
    /\ truncated \in BOOLEAN
    /\ task \in {"none", "upload", "rename", "delete", "download"}
    /\ step \in {"none", "target", "put", "call", "reread"}
    /\ batch \in [picked: 0..MaxFiles, left: 0..MaxFiles, doc: Doc \cup {NoDoc}, done: SUBSET Doc]
    /\ renaming \in Doc \cup {NoDoc}
    /\ task = "none" <=> step = "none"

ManagerInit ==
    /\ Init
    /\ page = "view" /\ rows = {} /\ truncated = FALSE
    /\ task = "none" /\ step = "none" /\ batch = NoBatch
    /\ renaming = NoDoc

(***************************************************************************)
(* Handlers begin.  Every control is disabled={isPending}.                 *)
(***************************************************************************)
Enabled == page = "view" /\ task = "none" /\ pc[Tab] = "idle"

\* startTransition(async () => { ... })
Begin(t, s) ==
    /\ Enabled
    /\ task' = t /\ step' = s
    /\ UNCHANGED <<page, rows, truncated, renaming>>

OnFilesPicked ==
    /\ \E n \in 1..MaxFiles : batch' = [NoBatch EXCEPT !.picked = n, !.left = n]
    /\ Begin("upload", "target")
    /\ UNCHANGED bucket

\* A row that is a form has no other buttons.
Row(d) == d \in rows /\ renaming # d

OnDownload ==
    /\ Begin("download", "call") /\ UNCHANGED batch
    /\ StartDescribe(Tab) /\ Row(call'[Tab].doc)

OnDelete ==
    /\ Begin("delete", "call") /\ UNCHANGED batch
    /\ StartDelete(Tab) /\ Row(call'[Tab].doc)

\* The draft is whatever the user has typed; an empty one does nothing.
OnRenameSubmit ==
    /\ renaming # NoDoc /\ renaming \in rows
    /\ Begin("rename", "call") /\ UNCHANGED batch
    /\ StartRename(Tab) /\ call'[Tab].doc = renaming

StartRenaming ==
    /\ Enabled
    /\ \E d \in Doc : Row(d) /\ renaming' = d
    /\ UNCHANGED <<bucket, page, rows, truncated, task, step, batch>>

CancelRenaming ==
    /\ Enabled /\ renaming # NoDoc /\ renaming \in rows
    /\ renaming' = NoDoc
    /\ UNCHANGED <<bucket, page, rows, truncated, task, step, batch>>

(***************************************************************************)
(* Handlers go on.                                                         *)
(***************************************************************************)
At(t, s) == task = t /\ step = s

\* setError(...); return: the rest of a batch is not sent.
GiveUp ==
    /\ task' = "none" /\ step' = "none"
    /\ batch' = NoBatch
    /\ UNCHANGED <<page, rows, truncated, renaming>>

\* The loop takes the next file, any other handler is over.
GoesOn ==
    IF task = "upload" /\ batch.left > 1
    THEN /\ step' = "target" /\ batch' = [batch EXCEPT !.left = @ - 1, !.doc = NoDoc]
         /\ UNCHANGED task
    ELSE /\ task' = "none" /\ step' = "none"
         /\ batch' = NoBatch

\* await createUploadTarget(...)
TargetSigned ==
    /\ At("upload", "target")
    /\ \E d \in Doc : CreateUploadTarget(d) /\ batch' = [batch EXCEPT !.doc = d]
    /\ step' = "put"
    /\ UNCHANGED <<page, rows, truncated, task, renaming>>

\* No name, too large, no token, no bucket, no answer.
TargetRefused == At("upload", "target") /\ GiveUp /\ UNCHANGED bucket

\* S3 says it has the bytes: POST .../complete.
Uploaded ==
    /\ At("upload", "put") /\ upload[batch.doc] = "landed"
    /\ StartDescribe(Tab) /\ call'[Tab].doc = batch.doc
    /\ step' = "call"
    /\ UNCHANGED <<page, rows, truncated, task, batch, renaming>>

\* Slip: `continue' in place of `return'.
PutSkipped ==
    /\ At("upload", "put") /\ GoesOn
    /\ UNCHANGED <<bucket, page, rows, truncated, renaming>>

\* S3 rejects the PUT, or fetch() does: no connection, CORS, whether or not the
\* bytes have landed or will yet.
PutFails == At("upload", "put") /\ GiveUp /\ UNCHANGED bucket

\* if (result.ok) { refresh(); }, of the call's Server Action.
Succeeded ==
    /\ step = "call" /\ task # "download" /\ pc[Tab] \in {"found", "deleted"}
    /\ Finish(Tab)
    /\ step' = "reread"
    /\ batch' = IF task = "upload" THEN [batch EXCEPT !.done = @ \cup {batch.doc}] ELSE batch
    /\ UNCHANGED <<page, rows, truncated, task, renaming>>

\* window.location.href = the signed URL; the page stays.
Downloaded ==
    /\ At("download", "call") /\ pc[Tab] = "found"
    /\ Finish(Tab)
    /\ task' = "none" /\ step' = "none"
    /\ UNCHANGED <<page, rows, truncated, batch, renaming>>

Failed ==
    /\ step = "call" /\ pc[Tab] \in {"notFound", "unavailable"}
    /\ Finish(Tab)
    /\ GiveUp

\* ListAsync: every object is a row, up to the ceiling.  S3 lists keys by id and
\* then by name; past the ceiling it is the last of them that are left out.
Stored == {o \in Doc \X Name : o[2] \in objects[o[1]]}
Before(o) == {p \in Stored : p[1] < o[1] \/ (p[1] = o[1] /\ p[2] < o[2])}
Listed == {o[1] : o \in {o \in Stored : Cardinality(Before(o)) < MaxListed}}
Truncated == Cardinality(Stored) > MaxListed

\* DocumentLibrary is rendered again.
Reread ==
    /\ step = "reread"
    /\ page' = "view" /\ rows' = Listed /\ truncated' = Truncated
    /\ renaming' = IF task = "rename" THEN NoDoc ELSE renaming
    /\ GoesOn
    /\ UNCHANGED bucket

\* GET /documents fails: an error card in place of the manager, whose loop goes
\* on unseen.
RereadFails ==
    /\ step = "reread"
    /\ page' = "error" /\ rows' = {} /\ truncated' = FALSE
    /\ renaming' = NoDoc /\ GoesOn
    /\ UNCHANGED bucket

\* The page is left and visited again, which ends its handler and not the
\* request the handler was waiting for.
Visit ==
    /\ \/ page' = "view" /\ rows' = Listed /\ truncated' = Truncated
       \/ page' = "error" /\ rows' = {} /\ truncated' = FALSE
    /\ task' = "none" /\ step' = "none"
    /\ renaming' = NoDoc
    /\ batch' = NoBatch
    /\ UNCHANGED bucket

Unanswered == task = "none" /\ Finish(Tab) /\ UNCHANGED manager

Page ==
    \/ OnFilesPicked \/ OnDownload \/ OnDelete \/ OnRenameSubmit
    \/ StartRenaming \/ CancelRenaming
    \/ TargetSigned \/ TargetRefused \/ Uploaded \/ PutFails
    \/ Succeeded \/ Downloaded \/ Failed \/ Reread \/ RereadFails
    \/ Visit \/ Unanswered

(***************************************************************************)
(* The browser and S3, everybody else, and the API.                        *)
(***************************************************************************)
Bucket ==
    /\ \/ \E d \in Doc : CreateUploadTarget(d) \/ Put(d) \/ Expire(d)
       \/ \E w \in Caller \ {Tab} :
             StartDescribe(w) \/ StartRename(w) \/ StartDelete(w) \/ Finish(w)
       \/ \E w \in Caller :
             Fail(w) \/ Locate(w) \/ Head(w) \/ Copy(w) \/ Unlink(w) \/ DeleteObject(w)
    /\ UNCHANGED manager

ManagerNext == Page \/ Bucket

ManagerSpec == ManagerInit /\ [][ManagerNext]_allVars

(***************************************************************************)
(* Properties.                                                             *)
(***************************************************************************)

\* A batch that comes to its end without an error has sent every file that was
\* picked, and each is in the list that is shown then, unless somebody has asked
\* to delete it or the page says that it does not show everything: a PUT that did
\* not land, a rename of a file just uploaded and other uploads notwithstanding
\* (document-manager.tsx:37-105, 280-285).
BatchHonest ==
    [][At("upload", "reread") /\ batch.left = 1 /\ task' = "none" /\ page' = "view"
         => /\ Cardinality(batch.done) = batch.picked
            /\ \A d \in batch.done : d \in rows' \/ d \in erased \/ truncated']_allVars
=============================================================================
