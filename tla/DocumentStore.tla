--------------------------- MODULE DocumentStore ---------------------------
(***************************************************************************)
(* Infrastructure/Storage/DocumentStore.cs behind its routes               *)
(* (DocumentEndpoints.cs), on the bucket it keeps a user's documents in.   *)
(*                                                                         *)
(* A document is an id; the filename is the rest of the object's key, so   *)
(* all there is in the bucket is, for each id, the set of names it has an  *)
(* object under.  S3 is strongly consistent and knows no transactions: a   *)
(* request is one step per S3 call.  Uploads do not pass through the API:  *)
(* the browser PUTs to a presigned URL whenever it gets to it.             *)
(*                                                                         *)
(* Names are numbers in the lexicographic order of the escaped filenames,  *)
(* which is the order S3 lists keys in.                                    *)
(***************************************************************************)
EXTENDS Integers, FiniteSets

CONSTANTS
    Doc,
    Name,
    NoName,
    Caller,     \* tabs, assistants and scripts of the one owner of these documents
    Serial,     \* documents that no two of them ever work on at a time
    FreshNames, \* documents nobody renames to a name they had before
    Failures    \* whether S3 calls and instances fail

ASSUME DocumentAssumption ==
    /\ Name \subseteq Nat
    /\ NoName \notin Name
    /\ Serial \subseteq Doc /\ FreshNames \subseteq Doc
    /\ Failures \in BOOLEAN

VARIABLES
    objects,    \* the bucket: Doc -> the names it has an object under
    upload,     \* Doc -> what became of its presigned PUT
    target,     \* Doc -> the name in that URL
    used,       \* Doc -> every name asked for so far, of those in FreshNames
    erased,     \* documents somebody has asked to delete
    leftover,   \* documents a rename stopped on between its copy and its delete
    steady,     \* requests whose document has been one object since they began to look for it
    pc,
    call

vars == <<objects, upload, target, used, erased, leftover, steady, pc, call>>

Answer == {"found", "deleted", "notFound", "unavailable"}
InFlight == {"locating", "heading", "copying", "unlinking", "deleting"}

Idle == [op |-> "none"]

\* `key' is the key LocateAsync found (its filename half).
Calls ==
    {Idle} \cup
    [op: {"describe", "rename", "delete"}, doc: Doc,
     name: Name \cup {NoName}, key: Name \cup {NoName}]

TypeOK ==
    /\ objects \in [Doc -> SUBSET Name]
    /\ upload \in [Doc -> {"none", "issued", "landed", "expired"}]
    /\ target \in [Doc -> Name \cup {NoName}]
    /\ used \in [Doc -> SUBSET Name]
    /\ erased \in SUBSET Doc
    /\ leftover \in SUBSET Doc
    /\ steady \in SUBSET Caller
    /\ pc \in [Caller -> {"idle"} \cup InFlight \cup Answer]
    /\ call \in [Caller -> Calls]

Init ==
    /\ objects = [d \in Doc |-> {}]
    /\ upload = [d \in Doc |-> "none"]
    /\ target = [d \in Doc |-> NoName]
    /\ used = [d \in Doc |-> {}]
    /\ erased = {}
    /\ leftover = {}
    /\ steady = {}
    /\ pc = [w \in Caller |-> "idle"]
    /\ call = [w \in Caller |-> Idle]

\* History: of these requests, those whose document is still one object.
StillOne(requests) == {w \in requests : \E n \in Name : objects'[call[w].doc] = {n}}

(***************************************************************************)
(* Uploads.                                                                *)
(***************************************************************************)

\* Mints an id and signs a URL; nothing is written to S3.
CreateUploadTarget(d) ==
    /\ upload[d] = "none"
    /\ \E n \in Name :
          /\ target' = [target EXCEPT ![d] = n]
          /\ used' = [used EXCEPT ![d] = {n}]
    /\ upload' = [upload EXCEPT ![d] = "issued"]
    /\ UNCHANGED <<objects, erased, leftover, steady, pc, call>>

\* The browser's PUT lands, perhaps long after its page gave up on it ...
Put(d) ==
    /\ upload[d] = "issued"
    /\ objects' = [objects EXCEPT ![d] = @ \cup {target[d]}]
    /\ upload' = [upload EXCEPT ![d] = "landed"]
    /\ steady' = StillOne(steady)
    /\ UNCHANGED <<target, used, erased, leftover, pc, call>>

\* ... but not after the URL has expired.
Expire(d) ==
    /\ upload[d] = "issued"
    /\ upload' = [upload EXCEPT ![d] = "expired"]
    /\ UNCHANGED <<objects, target, used, erased, leftover, steady, pc, call>>

(***************************************************************************)
(* Requests.                                                               *)
(***************************************************************************)
Busy(d) == \E w \in Caller : pc[w] \in InFlight /\ call[w].doc = d

Start(w, request) ==
    /\ pc[w] = "idle"
    /\ upload[request.doc] # "none"
    /\ request.doc \in Serial => ~Busy(request.doc)
    /\ pc' = [pc EXCEPT ![w] = "locating"]
    /\ call' = [call EXCEPT ![w] = request]
    /\ steady' = IF \E n \in Name : objects[request.doc] = {n} THEN steady \cup {w} ELSE steady
    /\ UNCHANGED <<objects, upload, target, leftover>>

\* FindAsync and CreateDownloadUrlAsync, also behind POST .../complete
StartDescribe(w) ==
    \E d \in Doc :
        /\ Start(w, [op |-> "describe", doc |-> d, name |-> NoName, key |-> NoName])
        /\ UNCHANGED <<used, erased>>

StartRename(w) ==
    \E d \in Doc, n \in Name :
        /\ d \in FreshNames => n \notin used[d]
        /\ Start(w, [op |-> "rename", doc |-> d, name |-> n, key |-> NoName])
        /\ used' = IF d \in FreshNames THEN [used EXCEPT ![d] = @ \cup {n}] ELSE used
        /\ UNCHANGED erased

StartDelete(w) ==
    \E d \in Doc :
        /\ Start(w, [op |-> "delete", doc |-> d, name |-> NoName, key |-> NoName])
        /\ erased' = erased \cup {d}
        /\ UNCHANGED used

Finish(w) ==
    /\ pc[w] \in Answer
    /\ pc' = [pc EXCEPT ![w] = "idle"]
    /\ call' = [call EXCEPT ![w] = Idle]
    /\ steady' = steady \ {w}
    /\ UNCHANGED <<objects, upload, target, used, erased, leftover>>

(***************************************************************************)
(* The S3 calls.                                                           *)
(***************************************************************************)
Goto(w, label) ==
    /\ pc' = [pc EXCEPT ![w] = label]
    /\ steady' = StillOne(IF label = "locating" THEN steady \cup {w} ELSE steady)
    /\ UNCHANGED <<upload, target, used, erased>>

\* A call that changes nothing in S3 or in what the request has found.
Answered(w, label) == UNCHANGED <<objects, leftover, call>> /\ Goto(w, label)

\* The answer of a write that took effect is lost.
AnswerLost(w) == Failures /\ Goto(w, "unavailable") /\ UNCHANGED call

\* The rename stops here, with the copy made and the original still there.
StopsHalfWay(w) == leftover' = leftover \cup {call[w].doc}

\* A call fails without effect (WithStoreAsync: 503), or the instance is gone.
Fail(w) ==
    /\ Failures
    /\ pc[w] \in InFlight
    /\ UNCHANGED <<objects, call>>
    /\ IF pc[w] = "unlinking" THEN StopsHalfWay(w) ELSE UNCHANGED leftover
    /\ Goto(w, "unavailable")

\* list-objects, prefix of the document, MaxKeys = 1
First(d, k) == k \in objects[d] /\ \A n \in objects[d] : k <= n

\* FindAsync at the end of a rename: the request is a describe from here on.
Describe(w) ==
    /\ call' = [call EXCEPT ![w].op = "describe", ![w].name = NoName, ![w].key = NoName]
    /\ Goto(w, "locating")

\* Slip: a rename to the present name falls through to copy-then-delete.
SameNameNever(w, k) == FALSE

SameName(w, k) == call[w].op = "rename" /\ call[w].name = k

\* What the operation does with the key LocateAsync found.
AfterLocate(w) ==
    CASE call[w].op = "describe" -> "heading"
      [] call[w].op = "rename"   -> "copying"
      [] call[w].op = "delete"   -> "deleting"

Locate(w) ==
    /\ pc[w] = "locating"
    /\ UNCHANGED <<objects, leftover>>
    /\ \/ objects[call[w].doc] = {} /\ Goto(w, "notFound") /\ UNCHANGED call
       \/ \E k \in Name :
             /\ First(call[w].doc, k)
             /\ \/ SameName(w, k) /\ Describe(w)
                \/ /\ ~SameName(w, k)
                   /\ call' = [call EXCEPT ![w].key = k]
                   /\ Goto(w, AfterLocate(w))

\* Slip: the key is rebuilt from the name the document was uploaded under.
HeadUploaded(w) ==
    /\ pc[w] = "heading"
    /\ Answered(w, IF target[call[w].doc] \in objects[call[w].doc] THEN "found" ELSE "notFound")

\* head-object: the metadata only a HEAD tells, gone if the key is.
Head(w) ==
    /\ pc[w] = "heading"
    /\ Answered(w, IF call[w].key \in objects[call[w].doc] THEN "found" ELSE "notFound")

\* copy-object to the new key; NoSuchKey is an AmazonS3Exception, a 503.
Copy(w) ==
    LET d == call[w].doc IN
    /\ pc[w] = "copying"
    /\ \/ call[w].key \notin objects[d] /\ Answered(w, "unavailable")
       \/ /\ call[w].key \in objects[d]
          /\ objects' = [objects EXCEPT ![d] = @ \cup {call[w].name}]
          /\ \/ Goto(w, "unlinking") /\ UNCHANGED <<leftover, call>>
             \/ AnswerLost(w) /\ StopsHalfWay(w)

\* Slip: the copy is the whole rename.
UnlinkNothing(w) ==
    /\ pc[w] = "unlinking"
    /\ UNCHANGED <<objects, leftover>>
    /\ Describe(w) \/ AnswerLost(w)

\* delete-object of the old key, which succeeds whether or not it is there;
\* then the document is described.
Unlink(w) ==
    LET d == call[w].doc IN
    /\ pc[w] = "unlinking"
    /\ objects' = [objects EXCEPT ![d] = @ \ {call[w].key}]
    /\ UNCHANGED leftover
    /\ Describe(w) \/ AnswerLost(w)

\* Slip: the key is rebuilt from the name the document was uploaded under.
DeleteUploaded(w) ==
    LET d == call[w].doc IN
    /\ pc[w] = "deleting"
    /\ objects' = [objects EXCEPT ![d] = @ \ {target[d]}]
    /\ UNCHANGED leftover
    /\ (Goto(w, "deleted") /\ UNCHANGED call) \/ AnswerLost(w)

DeleteObject(w) ==
    LET d == call[w].doc IN
    /\ pc[w] = "deleting"
    /\ objects' = [objects EXCEPT ![d] = @ \ {call[w].key}]
    /\ UNCHANGED leftover
    /\ (Goto(w, "deleted") /\ UNCHANGED call) \/ AnswerLost(w)

(***************************************************************************)
(* Specification.                                                          *)
(***************************************************************************)
Next ==
    \/ \E d \in Doc : CreateUploadTarget(d) \/ Put(d) \/ Expire(d)
    \/ \E w \in Caller :
          \/ StartDescribe(w) \/ StartRename(w) \/ StartDelete(w) \/ Finish(w) \/ Fail(w)
          \/ Locate(w) \/ Head(w) \/ Copy(w) \/ Unlink(w) \/ DeleteObject(w)

Spec == Init /\ [][Next]_vars

(***************************************************************************)
(* Properties.                                                             *)
(***************************************************************************)

\* A document that was uploaded and that nobody has asked to delete is still
\* there: copy-then-delete does not lose it, wherever a rename stops.
NeverLost == \A d \in Doc : upload[d] = "landed" /\ d \notin erased => objects[d] # {}

\* "A document is always ONE object" (DocumentKey.cs:14) whenever no request on
\* it is under way, if its requests come one at a time and no rename of it has
\* stopped half way: no other sequence of uploads, renames, deletes and failures
\* leaves a second object.
OneObjectUnlessLeftover ==
    \A d \in Serial \ leftover : ~Busy(d) => Cardinality(objects[d]) <= 1

\* Once a delete has been confirmed (204) of a document whose requests come one
\* at a time, nothing of it is left to list, to rename or to download, unless it
\* had been left with two objects.
DeleteIsFinal ==
    \A w \in Caller :
        pc[w] = "deleted" /\ call[w].doc \in Serial \ leftover /\ ~Busy(call[w].doc)
        => objects[call[w].doc] = {}

\* A 404 is told about a document only if at some moment, since the request began
\* to look for it, it had no object, or two because another request was renaming
\* it or had left it so: a document that is one object all the while is found,
\* whoever else works on it between the list and the head.
NotFoundIsReal == \A w \in Caller : pc[w] = "notFound" => w \notin steady
=============================================================================
