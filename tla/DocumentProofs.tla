--------------------------- MODULE DocumentProofs ---------------------------
(***************************************************************************)
(* Theorems about DocumentStore and the page at work on it, for every      *)
(* number of documents, names and callers.  The page is one more caller of *)
(* the store, so what holds of the store holds of it, and a batch tells    *)
(* the truth.                                                              *)
(***************************************************************************)
EXTENDS DocumentManager, FiniteSetTheorems, TLAPS

(***************************************************************************)
(* Types, what an upload leaves, and how far a request can have come.      *)
(***************************************************************************)
Requests == [op: {"describe", "rename", "delete"}, doc: Doc,
             name: Name \cup {NoName}, key: Name \cup {NoName}]

Uploads == \A d \in Doc :
    /\ upload[d] # "none" => target[d] \in Name
    /\ upload[d] # "landed" => objects[d] = {}

Located == {"heading", "copying", "unlinking", "deleting"}

Stage(w) ==
    LET r == call[w] IN
    /\ pc[w] # "idle" => r \in Requests /\ upload[r.doc] # "none"
    /\ r.op = "rename" => r.name \in Name
    /\ r.op = "delete" => r.doc \in erased
    /\ pc[w] \in Located => r.key \in Name
    /\ pc[w] \in Located \cup {"deleted"} => upload[r.doc] = "landed"
    /\ pc[w] \in {"copying", "unlinking"} => r.op = "rename" /\ r.key # r.name
    /\ pc[w] \in {"deleting", "deleted"} => r.op = "delete"

DocInv == TypeOK /\ Uploads /\ \A w \in Caller : Stage(w)

Others(w) == \A v \in Caller \ {w} : pc'[v] = pc[v] /\ call'[v] = call[v]

\* What the steps of one caller do to its request, apart from the objects.
Begins(w) ==
    /\ pc[w] = "idle" /\ pc'[w] = "locating" /\ call'[w] \in Requests
    /\ upload[call'[w].doc] # "none"
    /\ call'[w].op = "rename" => /\ call'[w].name \in Name
                                 /\ call'[w].doc \in FreshNames =>
                                       call'[w].name \notin used[call'[w].doc]
    /\ call'[w].op = "delete" => call'[w].doc \in erased'
    /\ call'[w].doc \in Serial => ~Busy(call'[w].doc)
    /\ \A d \in Doc : used[d] \subseteq used'[d]
    /\ (call'[w].doc \in FreshNames /\ call'[w].op = "rename") =>
          call'[w].name \in used'[call'[w].doc]
    /\ used' \in [Doc -> SUBSET Name] /\ erased' \in SUBSET Doc /\ erased \subseteq erased'
    /\ steady' = IF \E n \in Name : objects[call'[w].doc] = {n} THEN steady \cup {w} ELSE steady
    /\ UNCHANGED <<objects, upload, target, leftover>>

LEMMA StartEffect ==
    ASSUME TypeOK, NEW w \in Caller, StartDescribe(w) \/ StartRename(w) \/ StartDelete(w)
    PROVE  Begins(w) /\ Others(w) /\ pc' \in [Caller -> {"idle"} \cup InFlight \cup Answer]
           /\ call' \in [Caller -> Calls]
  <1> USE DocumentAssumption DEF TypeOK
  <1>1. ASSUME NEW r \in Requests, Start(w, r)
        PROVE  /\ pc[w] = "idle" /\ pc'[w] = "locating" /\ call'[w] = r
               /\ upload[r.doc] # "none" /\ (r.doc \in Serial => ~Busy(r.doc))
               /\ steady' = IF \E n \in Name : objects[r.doc] = {n} THEN steady \cup {w} ELSE steady
               /\ UNCHANGED <<objects, upload, target, leftover>>
               /\ Others(w) /\ pc' \in [Caller -> {"idle"} \cup InFlight \cup Answer]
               /\ call' \in [Caller -> Calls]
    <2>1. r \in Calls
      BY DEF Requests, Calls
    <2> QED  BY <1>1, <2>1 DEF Start, Others, InFlight
  <1>2. CASE StartDescribe(w)
    <2>1. PICK d \in Doc :
            Start(w, [op |-> "describe", doc |-> d, name |-> NoName, key |-> NoName])
      BY <1>2 DEF StartDescribe
    <2>2. [op |-> "describe", doc |-> d, name |-> NoName, key |-> NoName] \in Requests
      BY DEF Requests
    <2>3. UNCHANGED <<used, erased>>
      BY <1>2 DEF StartDescribe
    <2> QED  BY <1>1, <2>1, <2>2, <2>3 DEF Begins
  <1>3. CASE StartRename(w)
    <2>1. PICK d \in Doc, n \in Name :
            /\ d \in FreshNames => n \notin used[d]
            /\ Start(w, [op |-> "rename", doc |-> d, name |-> n, key |-> NoName])
            /\ used' = IF d \in FreshNames THEN [used EXCEPT ![d] = @ \cup {n}] ELSE used
            /\ UNCHANGED erased
      BY <1>3 DEF StartRename
    <2>2. [op |-> "rename", doc |-> d, name |-> n, key |-> NoName] \in Requests
      BY DEF Requests
    <2>3. used' \in [Doc -> SUBSET Name] /\ \A e \in Doc : used[e] \subseteq used'[e]
      BY <2>1
    <2>4. d \in FreshNames => n \in used'[d]
      BY <2>1
    <2> QED  BY <1>1, <2>1, <2>2, <2>3, <2>4 DEF Begins
  <1>4. CASE StartDelete(w)
    <2>1. PICK d \in Doc :
            /\ Start(w, [op |-> "delete", doc |-> d, name |-> NoName, key |-> NoName])
            /\ erased' = erased \cup {d} /\ UNCHANGED used
      BY <1>4 DEF StartDelete
    <2>2. [op |-> "delete", doc |-> d, name |-> NoName, key |-> NoName] \in Requests
      BY DEF Requests
    <2> QED  BY <1>1, <2>1, <2>2 DEF Begins
  <1> QED  BY <1>2, <1>3, <1>4

\* The steps of a request that has begun: its label, its key, or itself changes.
Described(w) == [op |-> "describe", doc |-> call[w].doc, name |-> NoName, key |-> NoName]

Advances(w) ==
    \/ pc'[w] \in Answer \ {"deleted"} /\ pc[w] \in InFlight /\ call'[w] = call[w]
    \/ pc[w] \in Answer /\ pc'[w] = "idle" /\ call'[w] = Idle
    \/ pc[w] \in {"locating", "unlinking"} /\ pc'[w] = "locating" /\ call'[w] = Described(w)
    \/ /\ pc[w] = "locating" /\ pc'[w] = AfterLocate(w)
       /\ \E k \in Name : /\ First(call[w].doc, k) /\ ~SameName(w, k)
                          /\ call'[w] = [call[w] EXCEPT !.key = k]
       /\ UNCHANGED objects
    \/ pc[w] = "copying" /\ pc'[w] = "unlinking" /\ call'[w] = call[w]
    \/ pc[w] = "deleting" /\ pc'[w] = "deleted" /\ call'[w] = call[w]

\* What they do to the objects of their document.
Writes(w) ==
    LET r == call[w] IN
    \/ /\ UNCHANGED objects
       /\ pc[w] = "unlinking" => pc'[w] = "unavailable" /\ leftover' = leftover \cup {r.doc}
       /\ pc[w] # "unlinking" => UNCHANGED leftover
       /\ pc'[w] \notin {"unlinking", "deleted"}
       /\ (pc'[w] = "notFound" /\ pc[w] # "notFound") =>
             \/ pc[w] = "locating" /\ objects[r.doc] = {}
             \/ pc[w] = "heading" /\ r.key \notin objects[r.doc]
    \/ /\ pc[w] = "copying" /\ r.key \in objects[r.doc]
       /\ objects' = [objects EXCEPT ![r.doc] = @ \cup {r.name}]
       /\ \/ pc'[w] = "unlinking" /\ UNCHANGED leftover
          \/ pc'[w] = "unavailable" /\ leftover' = leftover \cup {r.doc}
    \/ /\ pc[w] = "unlinking" /\ pc'[w] \in {"locating", "unavailable"} /\ UNCHANGED leftover
       /\ objects' = [objects EXCEPT ![r.doc] = @ \ {r.key}]
    \/ /\ pc[w] = "deleting" /\ pc'[w] \in {"deleted", "unavailable"} /\ UNCHANGED leftover
       /\ objects' = [objects EXCEPT ![r.doc] = @ \ {r.key}]

CallerSteps(w) ==
    Finish(w) \/ Fail(w) \/ Locate(w) \/ Head(w) \/ Copy(w) \/ Unlink(w) \/ DeleteObject(w)

LEMMA DescribeEffect ==
    ASSUME TypeOK, NEW w \in Caller, call[w] \in Requests, Describe(w)
    PROVE  call' = [call EXCEPT ![w] = Described(w)] /\ pc' = [pc EXCEPT ![w] = "locating"]
  <1> DEFINE next == [call[w] EXCEPT !.op = "describe", !.name = NoName, !.key = NoName]
  <1>1. next = Described(w)
    <2>1. ASSUME NEW r \in Requests
          PROVE  [r EXCEPT !.op = "describe", !.name = NoName, !.key = NoName]
                 = [op |-> "describe", doc |-> r.doc, name |-> NoName, key |-> NoName]
      <3>1. [r EXCEPT !.op = "describe"]
             = [op |-> "describe", doc |-> r.doc, name |-> r.name, key |-> r.key]
        BY DEF Requests
      <3>2. [[op |-> "describe", doc |-> r.doc, name |-> r.name, key |-> r.key] EXCEPT !.name = NoName]
             = [op |-> "describe", doc |-> r.doc, name |-> NoName, key |-> r.key]
        OBVIOUS
      <3>3. [[op |-> "describe", doc |-> r.doc, name |-> NoName, key |-> r.key] EXCEPT !.key = NoName]
             = [op |-> "describe", doc |-> r.doc, name |-> NoName, key |-> NoName]
        OBVIOUS
      <3> QED  BY <3>1, <3>2, <3>3
    <2> QED  BY <2>1 DEF Described
  <1>2. call' = [call EXCEPT ![w] = next]
    BY DEF Describe, TypeOK
  <1> QED  BY <1>1, <1>2 DEF Describe, Goto

Quiet == UNCHANGED <<upload, target, used, erased>>

LEMMA CallerEffect ==
    ASSUME TypeOK, NEW w \in Caller, Stage(w), CallerSteps(w)
    PROVE  Advances(w) /\ Writes(w) /\ Others(w) /\ Quiet
  <1> USE DEF TypeOK
  <1>0. pc[w] # "idle" /\ call[w] \in Requests
    BY DEF CallerSteps, Finish, Fail, Locate, Head, Copy, Unlink, DeleteObject, Answer, InFlight, Stage
  <1>1. CASE Finish(w)
    BY <1>1 DEF Finish, Advances, Writes, Others, Quiet, Answer
  <1>2. CASE Fail(w)
    BY <1>2 DEF Fail, Goto, StopsHalfWay, Advances, Writes, Others, Quiet, Answer, InFlight
  <1>3. CASE Locate(w)
    <2>1. CASE objects[call[w].doc] = {} /\ Goto(w, "notFound") /\ UNCHANGED call
      BY <1>3, <2>1 DEF Locate, Goto, Advances, Writes, Others, Quiet, Answer, InFlight
    <2>2. ASSUME Describe(w) PROVE Advances(w) /\ Writes(w) /\ Others(w) /\ Quiet
      <3>1. call' = [call EXCEPT ![w] = Described(w)] /\ pc' = [pc EXCEPT ![w] = "locating"]
        BY <1>0, <2>2, DescribeEffect
      <3>2. pc[w] = "locating" /\ UNCHANGED <<objects, leftover>> /\ Quiet
        BY <1>3, <2>2 DEF Locate, Describe, Goto, Quiet
      <3>3. Others(w)
        BY <3>1 DEF Others
      <3>4. pc'[w] = "locating" /\ call'[w] = Described(w)
        BY <3>1
      <3>5. Advances(w)
        BY <3>2, <3>4 DEF Advances
      <3>6. Writes(w)
        BY <3>2, <3>4 DEF Writes
      <3> QED  BY <3>2, <3>3, <3>5, <3>6
    <2>3. ASSUME NEW k \in Name, First(call[w].doc, k), ~SameName(w, k),
                 call' = [call EXCEPT ![w].key = k], Goto(w, AfterLocate(w))
          PROVE  Advances(w) /\ Writes(w) /\ Others(w) /\ Quiet
      <3>1. AfterLocate(w) \in {"heading", "copying", "deleting"}
        BY <1>0 DEF AfterLocate, Requests
      <3>2. call'[w] = [call[w] EXCEPT !.key = k] /\ pc'[w] = AfterLocate(w)
        BY <2>3 DEF Goto
      <3>3. Others(w) /\ Quiet
        BY <2>3 DEF Goto, Others, Quiet
      <3>4. Advances(w) /\ Writes(w)
        BY <1>3, <2>3, <3>1, <3>2 DEF Locate, Advances, Writes
      <3> QED  BY <3>3, <3>4
    <2> QED  BY <1>3, <2>1, <2>2, <2>3 DEF Locate
  <1>4. CASE Head(w)
    BY <1>4 DEF Head, Answered, Goto, Advances, Writes, Others, Quiet, Answer, InFlight
  <1>5. CASE Copy(w)
    BY <1>5 DEF Copy, Answered, AnswerLost, StopsHalfWay, Goto, Advances, Writes, Others, Quiet,
       Answer, InFlight
  <1>6. CASE Unlink(w)
    <2>1. CASE Describe(w)
      <3>1. call' = [call EXCEPT ![w] = Described(w)] /\ pc' = [pc EXCEPT ![w] = "locating"]
        BY <1>0, <2>1, DescribeEffect
      <3>2. pc[w] = "unlinking" /\ Quiet
        BY <1>6, <2>1 DEF Unlink, Describe, Goto, Quiet
      <3>3. Others(w)
        BY <3>1 DEF Others
      <3>4. pc'[w] = "locating" /\ call'[w] = Described(w)
        BY <3>1
      <3>5. Advances(w)
        BY <3>2, <3>4 DEF Advances
      <3>6. Writes(w)
        BY <1>6, <2>1, <3>2, <3>4 DEF Unlink, Writes
      <3> QED  BY <3>2, <3>3, <3>5, <3>6
    <2>2. CASE AnswerLost(w)
      BY <1>6, <2>2 DEF Unlink, AnswerLost, Goto, Advances, Writes, Others, Quiet, Answer, InFlight
    <2> QED  BY <1>6, <2>1, <2>2 DEF Unlink
  <1>7. CASE DeleteObject(w)
    BY <1>7 DEF DeleteObject, AnswerLost, Goto, Advances, Writes, Others, Quiet, Answer, InFlight
  <1> QED  BY <1>1, <1>2, <1>3, <1>4, <1>5, <1>6, <1>7 DEF CallerSteps

\* A step looks again at the document, or stays with what it has seen.
Looks(w) ==
    \/ pc'[w] = "idle" /\ steady' = steady \ {w}
    \/ pc'[w] = "locating" /\ steady' = StillOne(steady \cup {w})
    \/ pc'[w] \notin {"idle", "locating"} /\ steady' = StillOne(steady)

LEMMA CallerLooks ==
    ASSUME TypeOK, NEW w \in Caller, Stage(w), CallerSteps(w)
    PROVE  Looks(w)
  <1> USE DEF TypeOK
  <1>1. CASE Finish(w)
    BY <1>1 DEF Finish, Looks
  <1>2. ASSUME NEW label \in InFlight \cup Answer, Goto(w, label) PROVE Looks(w)
    BY <1>2 DEF Goto, Looks, InFlight, Answer
  <1>3. pc[w] = "locating" => AfterLocate(w) \in InFlight
    BY DEF AfterLocate, InFlight, Stage, Requests
  <1>4. CASE ~Finish(w)
    BY <1>2, <1>3, <1>4 DEF CallerSteps, Fail, Locate, Head, Copy, Unlink, DeleteObject, Answered,
       AnswerLost, Describe, InFlight, Answer
  <1> QED  BY <1>1, <1>4

LEMMA CallerTypes ==
    ASSUME TypeOK, NEW w \in Caller, Stage(w), CallerSteps(w)
    PROVE  TypeOK'
  <1> USE DEF TypeOK
  <1>1. Advances(w) /\ Writes(w) /\ Quiet
    BY CallerEffect
  <1>2. pc' \in [Caller -> {"idle"} \cup InFlight \cup Answer]
    <2>1. pc[w] # "idle" /\ call[w] \in Requests
      BY DEF CallerSteps, Finish, Fail, Locate, Head, Copy, Unlink, DeleteObject, Answer, InFlight, Stage
    <2>2. AfterLocate(w) \in InFlight
      BY <2>1 DEF AfterLocate, Requests, InFlight
    <2> QED  BY <2>2 DEF CallerSteps, Finish, Fail, Locate, Head, Copy, Unlink, DeleteObject,
             Answered, AnswerLost, Describe, Goto, InFlight, Answer
  <1>3. call' \in [Caller -> Calls]
    <2>1. CASE call' = call
      BY <2>1
    <2>2. CASE call' = [call EXCEPT ![w] = Idle]
      BY <2>2 DEF Calls
    <2>3. CASE Describe(w)
      <3>1. call[w] \in Requests
        BY <2>3 DEF CallerSteps, Finish, Fail, Locate, Head, Copy, Unlink, DeleteObject, Answer,
           InFlight, Stage
      <3>2. Described(w) \in Calls
        BY <3>1 DEF Described, Requests, Calls
      <3> QED  BY <2>3, <3>1, <3>2, DescribeEffect
    <2>4. ASSUME NEW k \in Name, Locate(w), call' = [call EXCEPT ![w].key = k]
          PROVE  call' \in [Caller -> Calls]
      <3>1. call[w] \in Requests
        BY <2>4 DEF Locate, Stage
      <3>2. [call[w] EXCEPT !.key = k] \in Requests
        BY <3>1 DEF Requests
      <3>3. [call[w] EXCEPT !.key = k] \in Calls
        BY <3>2 DEF Requests, Calls
      <3>4. call' = [call EXCEPT ![w] = [call[w] EXCEPT !.key = k]]
        BY <2>4
      <3> QED  BY <3>3, <3>4
    <2>5. CASE Locate(w)
      BY <2>1, <2>3, <2>4, <2>5 DEF Locate
    <2>6. CASE ~Locate(w)
      BY <2>1, <2>2, <2>3, <2>6 DEF CallerSteps, Finish, Fail, Head, Copy, Unlink, DeleteObject,
         Answered, AnswerLost, Goto
    <2> QED  BY <2>5, <2>6
  <1>4. objects' \in [Doc -> SUBSET Name] /\ leftover' \in SUBSET Doc
    <2>1. pc[w] # "idle" => call[w] \in Requests
      BY DEF Stage
    <2>2. pc[w] = "copying" => call[w].op = "rename" /\ call[w].name \in Name
      BY DEF Stage
    <2>3. pc[w] # "idle" => call[w].doc \in Doc
      BY <2>1 DEF Requests
    <2> QED  BY <1>1, <2>2, <2>3 DEF Writes, Advances, InFlight, Answer
  <1>5. steady' \in SUBSET Caller
    BY CallerLooks DEF Looks, StillOne
  <1> QED  BY <1>1, <1>2, <1>3, <1>4, <1>5 DEF Quiet

\* The kinds of steps.
LEMMA StepKinds ==
    ASSUME TypeOK, [Next]_vars
    PROVE  \/ UNCHANGED vars
           \/ \E d \in Doc : CreateUploadTarget(d) \/ Put(d) \/ Expire(d)
           \/ \E w \in Caller : StartDescribe(w) \/ StartRename(w) \/ StartDelete(w)
           \/ \E w \in Caller : CallerSteps(w)
  BY DEF Next, CallerSteps

LEMMA UploadTypes ==
    ASSUME DocInv, NEW d \in Doc, CreateUploadTarget(d) \/ Put(d) \/ Expire(d)
    PROVE  TypeOK' /\ Uploads'
  <1> USE DEF TypeOK, DocInv, Uploads
  <1>1. CASE CreateUploadTarget(d)
    BY <1>1 DEF CreateUploadTarget
  <1>2. CASE Put(d)
    BY <1>2 DEF Put, StillOne
  <1>3. CASE Expire(d)
    BY <1>3 DEF Expire
  <1> QED  BY <1>1, <1>2, <1>3

\* A request does not notice what befalls the documents' uploads.
LEMMA UploadStage ==
    ASSUME DocInv, NEW d \in Doc, CreateUploadTarget(d) \/ Put(d) \/ Expire(d), NEW v \in Caller
    PROVE  Stage(v)'
  <1>1. TypeOK /\ Stage(v)
    BY DEF DocInv
  <1>2. /\ \A e \in Doc : /\ upload[e] = "landed" => upload'[e] = "landed"
                          /\ upload[e] # "none" => upload'[e] # "none"
        /\ UNCHANGED <<pc, call, erased>>
    BY <1>1 DEF CreateUploadTarget, Put, Expire, TypeOK
  <1>3. pc[v] # "idle" => call[v].doc \in Doc
    BY <1>1 DEF Stage, Requests
  <1> QED  BY <1>1, <1>2, <1>3 DEF Stage, Located

LEMMA StartStage ==
    ASSUME DocInv, NEW w \in Caller, Begins(w), Others(w), NEW v \in Caller
    PROVE  Stage(v)'
  <1>1. Stage(v) /\ erased \subseteq erased' /\ upload' = upload
    BY DEF DocInv, Begins
  <1>2. CASE v = w
    BY <1>2 DEF Begins, Stage, Located
  <1>3. CASE v # w
    BY <1>1, <1>3 DEF Others, Stage
  <1> QED  BY <1>2, <1>3

LEMMA CallerStage ==
    ASSUME DocInv, NEW w \in Caller, CallerSteps(w), NEW v \in Caller
    PROVE  Stage(v)'
  <1>1. TypeOK /\ Stage(v) /\ Stage(w) /\ Uploads
    BY DEF DocInv
  <1>2. Advances(w) /\ Writes(w) /\ Others(w) /\ Quiet
    BY <1>1, CallerEffect
  <1>3. CASE v # w
    BY <1>1, <1>2, <1>3 DEF Others, Quiet, Stage
  <1>4. CASE v = w
    <2> DEFINE r == call[w]
    <2>1. pc[w] # "idle" /\ r \in Requests /\ r.doc \in Doc
      BY <1>1 DEF CallerSteps, Finish, Fail, Locate, Head, Copy, Unlink, DeleteObject, Answer,
         InFlight, Stage, Requests
    <2>2. CASE pc'[w] \in Answer \ {"deleted"} /\ call'[w] = r
      BY <1>1, <1>2, <1>4, <2>1, <2>2 DEF Quiet, Stage, Answer, Located
    <2>3. CASE pc'[w] = "idle" /\ call'[w] = Idle
      BY <1>4, <2>3 DEF Idle, Stage, Located
    <2>4. CASE pc'[w] = "locating" /\ call'[w] = Described(w)
      <3>1. Described(w) \in Requests
        BY <2>1 DEF Described, Requests
      <3>2. upload[r.doc] # "none"
        BY <1>1, <2>1 DEF Stage
      <3> QED  BY <1>2, <1>4, <2>4, <3>1, <3>2 DEF Quiet, Stage, Located, Described
    <2>5. ASSUME NEW k \in Name, pc[w] = "locating", pc'[w] = AfterLocate(w),
                 First(r.doc, k), ~SameName(w, k), call'[w] = [r EXCEPT !.key = k]
          PROVE  Stage(v)'
      <3>1. /\ call'[w] \in Requests /\ call'[w].op = r.op /\ call'[w].doc = r.doc
            /\ call'[w].name = r.name /\ call'[w].key = k
        BY <2>1, <2>5 DEF Requests
      <3>2. upload[r.doc] = "landed"
        BY <1>1, <2>1, <2>5 DEF Uploads, First
      <3>3. /\ pc'[w] = "copying" => r.op = "rename" /\ k # r.name
            /\ pc'[w] = "deleting" => r.op = "delete"
            /\ pc'[w] \in {"heading", "copying", "deleting"}
        BY <2>1, <2>5 DEF AfterLocate, SameName, Requests
      <3>4. (r.op = "rename" => r.name \in Name) /\ (r.op = "delete" => r.doc \in erased)
        BY <1>1 DEF Stage
      <3> QED  BY <1>2, <1>4, <3>1, <3>2, <3>3, <3>4 DEF Quiet, Stage, Located
    <2>6. CASE \/ pc[w] = "copying" /\ pc'[w] = "unlinking" /\ call'[w] = r
               \/ pc[w] = "deleting" /\ pc'[w] = "deleted" /\ call'[w] = r
      BY <1>1, <1>2, <1>4, <2>1, <2>6 DEF Quiet, Stage, Located
    <2> QED  BY <1>2, <2>2, <2>3, <2>4, <2>5, <2>6 DEF Advances
  <1> QED  BY <1>3, <1>4

\* Only a located document is written to, and only an uploaded one is located.
LEMMA CallerUploads ==
    ASSUME DocInv, NEW w \in Caller, CallerSteps(w)
    PROVE  Uploads'
  <1>1. TypeOK /\ Stage(w) /\ Uploads
    BY DEF DocInv
  <1>2. Writes(w) /\ Quiet
    BY <1>1, CallerEffect
  <1>3. CASE UNCHANGED objects
    BY <1>1, <1>2, <1>3 DEF Quiet, Uploads
  <1>4. CASE ~UNCHANGED objects
    <2>1. /\ call[w].doc \in Doc /\ upload[call[w].doc] = "landed"
          /\ \A d \in Doc \ {call[w].doc} : objects'[d] = objects[d]
      BY <1>1, <1>2, <1>4 DEF Writes, Stage, Located, Requests, TypeOK
    <2> QED  BY <1>1, <1>2, <2>1 DEF Quiet, Uploads
  <1> QED  BY <1>3, <1>4

LEMMA DocInvInit == Init => DocInv
  BY DEF Init, DocInv, TypeOK, Uploads, Stage, Located, Calls, Idle

LEMMA DocInvStep == DocInv /\ [Next]_vars => DocInv'
  <1> SUFFICES ASSUME DocInv, [Next]_vars PROVE DocInv'
    OBVIOUS
  <1>1. ASSUME NEW d \in Doc, CreateUploadTarget(d) \/ Put(d) \/ Expire(d) PROVE DocInv'
    BY <1>1, UploadTypes, UploadStage DEF DocInv
  <1>2. ASSUME NEW w \in Caller, StartDescribe(w) \/ StartRename(w) \/ StartDelete(w)
        PROVE  DocInv'
    <2>1. /\ Begins(w) /\ Others(w) /\ pc' \in [Caller -> {"idle"} \cup InFlight \cup Answer]
          /\ call' \in [Caller -> Calls]
      BY <1>2, StartEffect DEF DocInv
    <2>2. TypeOK' /\ Uploads'
      BY <2>1 DEF DocInv, Begins, TypeOK, Uploads
    <2> QED  BY <2>1, <2>2, StartStage DEF DocInv
  <1>3. ASSUME NEW w \in Caller, CallerSteps(w) PROVE DocInv'
    BY <1>3, CallerTypes, CallerUploads, CallerStage DEF DocInv
  <1>4. CASE UNCHANGED vars
    BY <1>4 DEF vars, DocInv, TypeOK, Uploads, Stage
  <1>5. TypeOK
    BY DEF DocInv
  <1> QED  BY <1>1, <1>2, <1>3, <1>4, <1>5, StepKinds

LEMMA DocInvariant == Spec => []DocInv
  BY DocInvInit, DocInvStep, PTL DEF Spec

\* Every upload, request and S3 call (DocumentStore.cs) keeps the bucket and the
\* requests under way well-formed.
THEOREM DocumentTypeCorrect == Spec => []TypeOK
  <1>1. DocInv => TypeOK
    BY DEF DocInv
  <1> QED  BY <1>1, DocInvariant, PTL

(***************************************************************************)
(* What a caller's step means to the others: it stays on its document,     *)
(* and only a copy adds an object.                                         *)
(***************************************************************************)
Moving(w) == pc[w] \in {"copying", "unlinking"}
Pending(w) == pc[w] \in {"locating", "copying"} /\ call[w].op = "rename"

LEMMA InFlightMeans ==
    ASSUME DocInv, NEW w \in Caller, pc[w] # "idle"
    PROVE  call[w] \in Requests /\ call[w].doc \in Doc
  BY DEF DocInv, Stage, Requests

LEMMA Awake ==
    ASSUME NEW w \in Caller, CallerSteps(w)
    PROVE  pc[w] # "idle"
  BY DEF CallerSteps, Finish, Fail, Locate, Head, Copy, Unlink, DeleteObject, Answer, InFlight

LEMMA Stays ==
    ASSUME DocInv, NEW w \in Caller, CallerSteps(w)
    PROVE  /\ pc'[w] \in InFlight => /\ pc[w] \in InFlight
                                     /\ call'[w].doc = call[w].doc
           /\ (Pending(w)' \/ Moving(w)') =>
                 /\ Pending(w) \/ (pc'[w] = "unlinking" /\ pc[w] = "copying")
                 /\ call'[w].name = call[w].name /\ call'[w].doc = call[w].doc
           /\ Pending(w)' => pc[w] = "locating" \/ pc'[w] = "copying"
           /\ pc'[w] = "unlinking" => call'[w] = call[w] /\ pc[w] = "copying"
           /\ pc'[w] = "copying" => /\ UNCHANGED objects
                                    /\ call'[w].key \in objects[call[w].doc]
           /\ pc'[w] = "deleted" => call'[w] = call[w] /\ pc[w] = "deleting"
  <1>1. /\ pc[w] # "idle" /\ call[w] \in Requests /\ Advances(w) /\ Stage(w)
    BY Awake, InFlightMeans, CallerEffect DEF DocInv
  <1>2. CASE pc'[w] \in Answer \ {"deleted"} \/ pc'[w] = "idle"
    BY <1>2 DEF Answer, InFlight, Pending, Moving
  <1>3. CASE pc[w] \in {"locating", "unlinking"} /\ pc'[w] = "locating" /\ call'[w] = Described(w)
    BY <1>3 DEF InFlight, Pending, Moving, Described
  <1>4. CASE \/ pc[w] = "copying" /\ pc'[w] = "unlinking" /\ call'[w] = call[w]
             \/ pc[w] = "deleting" /\ pc'[w] = "deleted" /\ call'[w] = call[w]
    BY <1>1, <1>4 DEF InFlight, Pending, Moving, Stage
  <1>5. ASSUME NEW k \in Name, pc[w] = "locating", pc'[w] = AfterLocate(w), UNCHANGED objects,
               First(call[w].doc, k), call'[w] = [call[w] EXCEPT !.key = k]
        PROVE  /\ pc[w] \in InFlight /\ call'[w].doc = call[w].doc /\ call'[w].key = k
               /\ call'[w].name = call[w].name /\ call'[w].op = call[w].op
               /\ pc'[w] \in {"heading", "copying", "deleting"}
               /\ pc'[w] = "copying" => Pending(w)
               /\ k \in objects[call[w].doc]
    BY <1>1, <1>5 DEF Requests, AfterLocate, First, InFlight, Pending
  <1>6. CASE \E k \in Name : /\ pc[w] = "locating" /\ pc'[w] = AfterLocate(w) /\ UNCHANGED objects
                            /\ First(call[w].doc, k) /\ call'[w] = [call[w] EXCEPT !.key = k]
    <2>1. /\ pc[w] = "locating" /\ pc[w] \in InFlight /\ UNCHANGED objects
          /\ call'[w].doc = call[w].doc /\ call'[w].name = call[w].name
          /\ pc'[w] \in {"heading", "copying", "deleting"}
          /\ pc'[w] = "copying" => Pending(w)
          /\ call'[w].key \in objects[call[w].doc]
      BY <1>5, <1>6
    <2> QED  BY <2>1 DEF Moving, Pending
  <1> QED  BY <1>1, <1>2, <1>3, <1>4, <1>6 DEF Advances

(***************************************************************************)
(* With fresh names no rename can be to a name another one is moving from. *)
(***************************************************************************)
Asked(d) == d \in FreshNames =>
    /\ objects[d] \subseteq used[d]
    /\ upload[d] # "none" => target[d] \in used[d]

AskedBy(w) ==
    /\ (Pending(w) \/ Moving(w)) /\ call[w].doc \in FreshNames => call[w].name \in used[call[w].doc]
    /\ Moving(w) /\ call[w].doc \in FreshNames => call[w].key \in used[call[w].doc]

Novel(w) == Pending(w) /\ call[w].doc \in FreshNames =>
    /\ call[w].name \notin objects[call[w].doc]
    /\ call[w].name # target[call[w].doc]

Apart(v, w) == Pending(w) /\ call[w].doc \in FreshNames =>
    /\ v # w /\ Pending(v) /\ call[v].doc = call[w].doc => call[v].name # call[w].name
    /\ Moving(v) /\ call[v].doc = call[w].doc => call[v].key # call[w].name

Fresh ==
    /\ \A d \in Doc : Asked(d)
    /\ \A w \in Caller : AskedBy(w) /\ Novel(w)
    /\ \A v, w \in Caller : Apart(v, w)

FreshInv == DocInv /\ Fresh

LEMMA FreshInit == Init => FreshInv
  <1> SUFFICES ASSUME Init PROVE FreshInv
    OBVIOUS
  <1>1. DocInv
    BY DocInvInit
  <1>2. Fresh
    BY DEF Init, Fresh, Asked, AskedBy, Novel, Apart, Pending, Moving
  <1> QED  BY <1>1, <1>2 DEF FreshInv

LEMMA FreshUpload ==
    ASSUME FreshInv, NEW d \in Doc, CreateUploadTarget(d) \/ Put(d) \/ Expire(d)
    PROVE  Fresh'
  <1>1. TypeOK /\ UNCHANGED <<pc, call>> /\ DocInv
    BY DEF FreshInv, DocInv, CreateUploadTarget, Put, Expire
  <1>2. \A e \in Doc : Asked(e)'
    <2>1. ASSUME NEW e \in Doc PROVE Asked(e)'
      <3>1. Asked(e) /\ (upload[e] = "none" => objects[e] = {})
        BY <1>1 DEF FreshInv, Fresh, DocInv, Uploads
      <3> QED  BY <1>1, <3>1 DEF CreateUploadTarget, Put, Expire, TypeOK, Asked
    <2> QED  BY <2>1
  <1>3. /\ \A e \in Doc : upload[e] # "none" => used'[e] = used[e] /\ target'[e] = target[e]
        /\ \A e \in Doc : objects'[e] \subseteq objects[e] \cup {target[e]}
    BY <1>1 DEF CreateUploadTarget, Put, Expire, TypeOK
  <1>4. ASSUME NEW w \in Caller PROVE AskedBy(w)' /\ Novel(w)'
    <2>1. AskedBy(w) /\ Novel(w) /\ (pc[w] # "idle" => upload[call[w].doc] # "none" /\ call[w].doc \in Doc)
      BY <1>1, InFlightMeans DEF FreshInv, Fresh, DocInv, Stage
    <2> QED  BY <1>1, <1>3, <2>1 DEF AskedBy, Novel, Pending, Moving
  <1>5. ASSUME NEW v \in Caller, NEW w \in Caller PROVE Apart(v, w)'
    BY <1>1 DEF FreshInv, Fresh, Apart, Pending, Moving
  <1> QED  BY <1>2, <1>4, <1>5 DEF Fresh

LEMMA FreshStart ==
    ASSUME FreshInv, NEW w \in Caller, Begins(w), Others(w)
    PROVE  Fresh'
  <1>1. UNCHANGED <<objects, upload, target>> /\ \A d \in Doc : used[d] \subseteq used'[d]
    BY DEF Begins
  <1>2. \A d \in Doc : Asked(d)'
    BY <1>1 DEF FreshInv, Fresh, Asked
  <1> DEFINE r == call'[w]
  <1>3. /\ pc'[w] = "locating" /\ r.doc \in Doc /\ upload[r.doc] # "none"
        /\ r.op = "rename" /\ r.doc \in FreshNames =>
              r.name \notin used[r.doc] /\ r.name \in used'[r.doc]
    BY DEF Begins, Requests
  <1>4. ASSUME NEW v \in Caller \ {w} PROVE AskedBy(v)' /\ Novel(v)'
    <2>1. AskedBy(v) /\ Novel(v) /\ pc'[v] = pc[v] /\ call'[v] = call[v]
          /\ (pc[v] # "idle" => call[v].doc \in Doc)
      BY InFlightMeans DEF FreshInv, Fresh, Others
    <2> QED  BY <1>1, <2>1 DEF AskedBy, Novel, Pending, Moving
  <1>5. AskedBy(w)' /\ Novel(w)'
    <2>1. Asked(r.doc)
      BY <1>3 DEF FreshInv, Fresh
    <2> QED  BY <1>1, <1>3, <2>1 DEF AskedBy, Novel, Pending, Moving, Asked
  <1>6. ASSUME NEW u \in Caller, NEW v \in Caller PROVE Apart(u, v)'
    <2>1. CASE u # w /\ v # w
      BY <2>1 DEF FreshInv, Fresh, Others, Apart, Pending, Moving
    <2>2. CASE u # w /\ v = w
      <3>1. AskedBy(u) /\ pc'[u] = pc[u] /\ call'[u] = call[u]
        BY <2>2 DEF FreshInv, Fresh, Others
      <3> QED  BY <1>3, <2>2, <3>1 DEF Apart, AskedBy, Pending, Moving
    <2>3. CASE u = w /\ v # w
      <3>1. AskedBy(v) /\ pc'[v] = pc[v] /\ call'[v] = call[v]
        BY <2>3 DEF FreshInv, Fresh, Others
      <3> QED  BY <1>3, <2>3, <3>1 DEF Apart, AskedBy, Pending, Moving
    <2>4. CASE u = w /\ v = w
      BY <1>3, <2>4 DEF Apart, Pending, Moving
    <2> QED  BY <2>1, <2>2, <2>3, <2>4
  <1> QED  BY <1>2, <1>4, <1>5, <1>6 DEF Fresh

\* Only a copy adds an object, and it is the one its rename has asked for.
LEMMA Adds ==
    ASSUME DocInv, NEW w \in Caller, CallerSteps(w), NEW d \in Doc, NEW n \in objects'[d],
           n \notin objects[d]
    PROVE  /\ d = call[w].doc /\ n = call[w].name /\ pc[w] = "copying" /\ call[w].op = "rename"
           /\ pc'[w] # "copying"
  <1>1. Writes(w) /\ TypeOK /\ Stage(w) /\ call[w].doc \in Doc
    BY Awake, CallerEffect, InFlightMeans DEF DocInv
  <1>2. ~UNCHANGED objects
    OBVIOUS
  <1> QED  BY <1>1, <1>2 DEF Writes, TypeOK, Stage

LEMMA FreshCaller ==
    ASSUME FreshInv, NEW w \in Caller, CallerSteps(w)
    PROVE  Fresh'
  <1>1. /\ DocInv /\ TypeOK /\ Stage(w) /\ call[w].doc \in Doc /\ Others(w) /\ Quiet /\ Writes(w)
        /\ AskedBy(w) /\ Novel(w) /\ \A d \in Doc : Asked(d)
    BY Awake, InFlightMeans, CallerEffect DEF FreshInv, DocInv, Fresh
  <1>2. ASSUME NEW d \in Doc PROVE Asked(d)'
    <2>1. ASSUME d \in FreshNames, NEW n \in objects'[d] PROVE n \in used[d]
      <3>1. CASE n \in objects[d]
        BY <1>1, <2>1, <3>1 DEF Asked
      <3>2. CASE n \notin objects[d]
        BY <1>1, <2>1, <3>2, Adds DEF AskedBy, Moving
      <3> QED  BY <3>1, <3>2
    <2> QED  BY <1>1, <2>1 DEF Asked, Quiet
  <1>3. ASSUME NEW v \in Caller PROVE AskedBy(v)'
    <2>1. CASE v # w
      BY <1>1, <2>1 DEF FreshInv, Fresh, AskedBy, Pending, Moving, Others, Quiet
    <2>2. CASE v = w
      <3> SUFFICES ASSUME call'[w].doc \in FreshNames
                   PROVE  /\ Pending(w)' \/ Moving(w)' => call'[w].name \in used'[call'[w].doc]
                          /\ Moving(w)' => call'[w].key \in used'[call'[w].doc]
        BY <2>2 DEF AskedBy
      <3>1. Pending(w)' \/ Moving(w)' => call'[w].name \in used'[call'[w].doc]
        BY <1>1, Stays DEF AskedBy, Moving, Quiet
      <3>2. Moving(w)' => call'[w].key \in used'[call'[w].doc]
        <4>1. CASE pc'[w] = "unlinking"
          <5>1. call'[w] = call[w] /\ pc[w] = "copying" /\ used' = used
            BY <1>1, <4>1, Stays DEF Quiet
          <5> QED  BY <1>1, <5>1 DEF AskedBy, Moving
        <4>2. CASE pc'[w] = "copying"
          <5>1. call'[w].key \in objects[call[w].doc] /\ call'[w].doc = call[w].doc /\ used' = used
            BY <1>1, <4>2, Stays DEF InFlight, Quiet
          <5> QED  BY <1>1, <5>1 DEF Asked
        <4> QED  BY <4>1, <4>2 DEF Moving
      <3> QED  BY <3>1, <3>2
    <2> QED  BY <2>1, <2>2
  <1>4. ASSUME NEW v \in Caller, Pending(v)'
        PROVE  /\ Pending(v) /\ call'[v].name = call[v].name /\ call'[v].doc = call[v].doc
               /\ call[v].doc \in Doc
               /\ v = w => pc[w] = "locating" \/ pc'[w] = "copying"
    <2>1. CASE v # w
      <3>1. Pending(v) /\ call'[v] = call[v] /\ pc[v] # "idle"
        BY <1>1, <1>4, <2>1 DEF Others, Pending
      <3> QED  BY <1>1, <2>1, <3>1, InFlightMeans
    <2>2. CASE v = w
      <3>1. pc'[w] # "unlinking" /\ (Pending(w)' \/ Moving(w)')
        BY <1>4, <2>2 DEF Pending
      <3>2. Pending(w) /\ call'[w].name = call[w].name /\ call'[w].doc = call[w].doc
        BY <1>1, <3>1, Stays
      <3>3. pc[w] = "locating" \/ pc'[w] = "copying"
        BY <1>1, <1>4, <2>2, Stays
      <3> QED  BY <1>1, <2>2, <3>2, <3>3
    <2> QED  BY <2>1, <2>2
  <1>5. ASSUME NEW v \in Caller PROVE Novel(v)'
    <2> SUFFICES ASSUME Pending(v)', call'[v].doc \in FreshNames PROVE Novel(v)'
      BY DEF Novel
    <2>1. Novel(v) /\ Pending(v) /\ call[v].doc \in FreshNames
      BY <1>4 DEF FreshInv, Fresh
    <2>2. call[v].name \notin objects'[call[v].doc]
      <3>1. SUFFICES ASSUME call[v].name \in objects'[call[v].doc] PROVE FALSE
        OBVIOUS
      <3>2. call[v].name \notin objects[call[v].doc] /\ call[v].doc \in Doc
        BY <1>4, <2>1 DEF Novel
      <3>3. /\ call[v].doc = call[w].doc /\ call[v].name = call[w].name
            /\ Pending(w) /\ pc[w] = "copying" /\ pc'[w] # "copying"
        BY <1>1, <3>1, <3>2, Adds DEF Pending
      <3>4. CASE v = w
        BY <1>4, <3>3, <3>4
      <3>5. CASE v # w
        BY <2>1, <3>3, <3>5 DEF FreshInv, Fresh, Apart
      <3> QED  BY <3>4, <3>5
    <2> QED  BY <1>1, <1>4, <2>1, <2>2 DEF Novel, Quiet
  <1>6. ASSUME NEW u \in Caller, NEW v \in Caller PROVE Apart(u, v)'
    <2> SUFFICES ASSUME Pending(v)', call'[v].doc \in FreshNames PROVE Apart(u, v)'
      BY DEF Apart
    <2>1. Apart(u, v) /\ Novel(v) /\ Pending(v) /\ call[v].doc \in FreshNames
      BY <1>4 DEF FreshInv, Fresh
    <2>2. u # v /\ Pending(u)' /\ call'[u].doc = call'[v].doc => call'[u].name # call'[v].name
      BY <1>4, <2>1 DEF Apart
    <2>3. Moving(u)' /\ call'[u].doc = call'[v].doc => call'[u].key # call'[v].name
      <3> SUFFICES ASSUME Moving(u)', call'[u].doc = call'[v].doc
                   PROVE  call'[u].key # call'[v].name
        OBVIOUS
      <3>1. CASE u # w
        <4>1. Moving(u) /\ call'[u] = call[u]
          BY <1>1, <3>1 DEF Others, Moving
        <4> QED  BY <1>4, <2>1, <4>1 DEF Apart
      <3>2. CASE u = w /\ pc'[w] = "unlinking"
        <4>1. Moving(u) /\ call'[u] = call[u]
          BY <1>1, <3>2, Stays DEF Moving
        <4> QED  BY <1>4, <2>1, <4>1 DEF Apart
      <3>3. CASE u = w /\ pc'[w] = "copying"
        <4>1. call'[w].key \in objects[call[w].doc] /\ call'[w].doc = call[w].doc
          BY <1>1, <3>3, Stays DEF InFlight
        <4> QED  BY <1>4, <2>1, <3>3, <4>1 DEF Novel
      <3> QED  BY <3>1, <3>2, <3>3 DEF Moving
    <2> QED  BY <2>2, <2>3 DEF Apart
  <1> QED  BY <1>2, <1>3, <1>5, <1>6 DEF Fresh

LEMMA FreshStep == FreshInv /\ [Next]_vars => FreshInv'
  <1> SUFFICES ASSUME FreshInv, [Next]_vars PROVE FreshInv'
    OBVIOUS
  <1>1. DocInv' /\ DocInv /\ TypeOK
    BY DocInvStep DEF FreshInv, DocInv
  <1>2. ASSUME NEW d \in Doc, CreateUploadTarget(d) \/ Put(d) \/ Expire(d) PROVE Fresh'
    BY <1>2, FreshUpload
  <1>3. ASSUME NEW w \in Caller, StartDescribe(w) \/ StartRename(w) \/ StartDelete(w)
        PROVE  Fresh'
    BY <1>1, <1>3, StartEffect, FreshStart
  <1>4. ASSUME NEW w \in Caller, CallerSteps(w) PROVE Fresh'
    BY <1>4, FreshCaller
  <1>5. CASE UNCHANGED vars
    <2>1. UNCHANGED <<objects, upload, target, used, pc, call>>
      BY <1>5 DEF vars
    <2>2. \A d \in Doc : Asked(d)' <=> Asked(d)
      BY <2>1 DEF Asked
    <2>3. \A w \in Caller : (AskedBy(w)' <=> AskedBy(w)) /\ (Novel(w)' <=> Novel(w))
      BY <2>1 DEF AskedBy, Novel, Pending, Moving
    <2>4. \A v, w \in Caller : Apart(v, w)' <=> Apart(v, w)
      BY <2>1 DEF Apart, Pending, Moving
    <2>5. Fresh
      BY DEF FreshInv
    <2>6. \A d \in Doc : Asked(d)'
      BY <2>2, <2>5 DEF Fresh
    <2>7. \A w \in Caller : AskedBy(w)' /\ Novel(w)'
      BY <2>3, <2>5 DEF Fresh
    <2>8. \A v, w \in Caller : Apart(v, w)'
      BY <2>4, <2>5 DEF Fresh
    <2> QED  BY <1>1, <2>6, <2>7, <2>8 DEF Fresh, FreshInv
  <1> QED  BY <1>1, <1>2, <1>3, <1>4, <1>5, StepKinds DEF FreshInv

LEMMA FreshInvariant == Spec => []FreshInv
  BY FreshInit, FreshStep, PTL DEF Spec

(***************************************************************************)
(* Serial: one request at a time on a document.                            *)
(***************************************************************************)
Together(v, w) == pc[v] \in InFlight /\ pc[w] \in InFlight /\ call[v].doc = call[w].doc

Alone == \A v, w \in Caller : Together(v, w) /\ call[v].doc \in Serial => v = w

LEMMA AloneStep == DocInv /\ Alone /\ [Next]_vars => Alone'
  <1> SUFFICES ASSUME DocInv, Alone, [Next]_vars, NEW v \in Caller, NEW w \in Caller,
                      Together(v, w)', call'[v].doc \in Serial
               PROVE  v = w
    BY DEF Alone
  <1>1. Together(v, w) /\ call[v].doc \in Serial => v = w
    BY DEF Alone
  <1>2. TypeOK
    BY DEF DocInv
  <1>3. ASSUME NEW d \in Doc, CreateUploadTarget(d) \/ Put(d) \/ Expire(d) PROVE v = w
    BY <1>1, <1>3 DEF CreateUploadTarget, Put, Expire, Together
  <1>4. ASSUME NEW u \in Caller, StartDescribe(u) \/ StartRename(u) \/ StartDelete(u)
        PROVE  v = w
    <2>1. /\ Others(u) /\ pc'[u] = "locating"
          /\ call'[u].doc \in Serial => ~Busy(call'[u].doc)
      BY <1>2, <1>4, StartEffect DEF Begins
    <2>2. CASE u # v /\ u # w
      BY <1>1, <2>1, <2>2 DEF Others, Together
    <2>3. CASE u = v /\ u # w
      BY <2>1, <2>3 DEF Others, Together, Busy
    <2>4. CASE u # v /\ u = w
      BY <2>1, <2>4 DEF Others, Together, Busy
    <2> QED  BY <2>2, <2>3, <2>4
  <1>5. ASSUME NEW u \in Caller, CallerSteps(u) PROVE v = w
    <2>1. /\ Others(u)
          /\ pc'[u] \in InFlight => pc[u] \in InFlight /\ call'[u].doc = call[u].doc
      BY <1>2, <1>5, CallerEffect, Stays DEF DocInv
    <2>2. Together(v, w) /\ call[v].doc \in Serial
      BY <2>1 DEF Others, Together
    <2> QED  BY <1>1, <2>2
  <1>6. CASE UNCHANGED vars
    BY <1>1, <1>6 DEF vars, Together
  <1> QED  BY <1>2, <1>3, <1>4, <1>5, <1>6, StepKinds

(***************************************************************************)
(* A document that is wanted keeps an object nobody is about to unlink.    *)
(***************************************************************************)
Unlinking(d, w) == pc[w] = "unlinking" /\ call[w].doc = d
Doomed(d, n) == \E w \in Caller : Unlinking(d, w) /\ call[w].key = n

Kept(d) == upload[d] = "landed" /\ d \notin erased => \E n \in objects[d] : ~Doomed(d, n)

KeptInv ==
    /\ FreshInv /\ Alone
    /\ \A d \in Serial \cup FreshNames : Kept(d)

LEMMA KeptUpload ==
    ASSUME DocInv, NEW e \in Doc, CreateUploadTarget(e) \/ Put(e) \/ Expire(e),
           NEW d \in Doc, Kept(d)
    PROVE  Kept(d)'
  <1>1. TypeOK /\ Uploads /\ UNCHANGED <<pc, call, erased>>
    BY DEF DocInv, CreateUploadTarget, Put, Expire
  <1>2. \A n : Doomed(d, n)' <=> Doomed(d, n)
    BY <1>1 DEF Doomed, Unlinking
  <1>3. CASE upload[d] = "landed"
    <2>1. objects[d] \subseteq objects'[d]
      BY <1>1 DEF CreateUploadTarget, Put, Expire, TypeOK
    <2> QED  BY <1>1, <1>2, <1>3, <2>1 DEF Kept
  <1>4. CASE upload[d] # "landed" /\ upload'[d] = "landed"
    <2>1. target[d] \in objects'[d]
      BY <1>1, <1>4 DEF CreateUploadTarget, Put, Expire, TypeOK
    <2>2. ~Doomed(d, target[d])
      BY <1>4 DEF DocInv, Stage, Located, Doomed, Unlinking
    <2> QED  BY <1>2, <2>1, <2>2 DEF Kept
  <1> QED  BY <1>3, <1>4 DEF Kept

LEMMA KeptStart ==
    ASSUME DocInv, NEW w \in Caller, Begins(w), Others(w), NEW d \in Doc, Kept(d)
    PROVE  Kept(d)'
  <1>1. \A n : Doomed(d, n)' => Doomed(d, n)
    BY DEF Doomed, Unlinking, Begins, Others
  <1> QED  BY <1>1 DEF Kept, Begins

\* The name a copy is to is not one that is about to be unlinked.
LEMMA CopySafe ==
    ASSUME FreshInv, Alone, NEW w \in Caller, pc[w] = "copying",
           call[w].doc \in Serial \cup FreshNames
    PROVE  ~Doomed(call[w].doc, call[w].name)
  <1> SUFFICES ASSUME NEW v \in Caller, Unlinking(call[w].doc, v), call[v].key = call[w].name
               PROVE  FALSE
    BY DEF Doomed
  <1>1. v # w
    BY DEF Unlinking
  <1>2. CASE call[w].doc \in Serial
    BY <1>1, <1>2 DEF Alone, Together, InFlight, Unlinking
  <1>3. CASE call[w].doc \in FreshNames
    <2>1. Apart(v, w) /\ call[w].op = "rename"
      BY <1>3 DEF FreshInv, Fresh, DocInv, Stage
    <2> QED  BY <1>3, <2>1 DEF Apart, Pending, Moving, Unlinking
  <1> QED  BY <1>2, <1>3

LEMMA KeptCaller ==
    ASSUME FreshInv, Alone, NEW w \in Caller, CallerSteps(w),
           NEW d \in Serial \cup FreshNames, Kept(d)
    PROVE  Kept(d)'
  <1>0. d \in Doc
    BY DocumentAssumption
  <1>1. /\ DocInv /\ TypeOK /\ Stage(w) /\ Others(w) /\ Quiet /\ Writes(w) /\ call[w].doc \in Doc
        /\ pc'[w] = "unlinking" => call'[w] = call[w] /\ pc[w] = "copying"
    BY Awake, InFlightMeans, CallerEffect, Stays DEF FreshInv, DocInv
  <1> SUFFICES ASSUME upload[d] = "landed", d \notin erased
               PROVE  \E n \in objects'[d] : ~Doomed(d, n)'
    BY <1>0, <1>1 DEF Kept, Quiet
  <1>2. PICK n \in objects[d] : ~Doomed(d, n)
    BY DEF Kept
  <1>3. CASE pc'[w] = "unlinking" /\ call[w].doc = d /\ call[w].key = n
    <2>0. PICK m : m = call[w].name
      OBVIOUS
    <2>1. m # n /\ pc[w] = "copying" /\ call'[w] = call[w]
      BY <1>1, <1>3, <2>0 DEF Stage
    <2>2. m \in objects'[d]
      BY <1>0, <1>1, <1>3, <2>0, <2>1 DEF Writes, TypeOK
    <2>3. ~Doomed(d, m)
      BY <1>3, <2>0, <2>1, CopySafe
    <2>4. ~Doomed(d, m)'
      BY <1>1, <1>3, <2>0, <2>1, <2>3 DEF Doomed, Unlinking, Others, Stage
    <2> QED  BY <2>2, <2>4
  <1>4. CASE ~(pc'[w] = "unlinking" /\ call[w].doc = d /\ call[w].key = n)
    <2>1. ~Doomed(d, n)'
      BY <1>1, <1>2, <1>4 DEF Doomed, Unlinking, Others
    <2>2. n \in objects'[d]
      <3>1. pc[w] = "unlinking" /\ call[w].doc = d => call[w].key # n
        BY <1>2 DEF Doomed, Unlinking
      <3>2. pc[w] = "deleting" => call[w].doc # d
        BY <1>1 DEF Stage
      <3> QED  BY <1>0, <1>1, <1>2, <3>1, <3>2 DEF Writes, TypeOK
    <2> QED  BY <2>1, <2>2
  <1> QED  BY <1>3, <1>4

LEMMA KeptInit == Init => KeptInv
  <1> SUFFICES ASSUME Init PROVE KeptInv
    OBVIOUS
  <1>1. FreshInv
    BY FreshInit
  <1>2. Alone
    BY DEF Init, Alone, Together, InFlight
  <1>3. \A d \in Doc : Kept(d)
    BY DEF Init, Kept
  <1> QED  BY <1>1, <1>2, <1>3, DocumentAssumption DEF KeptInv

LEMMA KeptStep == KeptInv /\ [Next]_vars => KeptInv'
  <1> SUFFICES ASSUME KeptInv, [Next]_vars PROVE KeptInv'
    OBVIOUS
  <1>1. FreshInv' /\ Alone' /\ FreshInv /\ Alone /\ DocInv /\ TypeOK
    BY FreshStep, AloneStep DEF KeptInv, FreshInv, DocInv
  <1>2. ASSUME NEW d \in Serial \cup FreshNames PROVE Kept(d)'
    <2>1. Kept(d) /\ d \in Doc
      BY DocumentAssumption DEF KeptInv
    <2>2. ASSUME NEW e \in Doc, CreateUploadTarget(e) \/ Put(e) \/ Expire(e) PROVE Kept(d)'
      BY <1>1, <2>1, <2>2, KeptUpload
    <2>3. ASSUME NEW w \in Caller, StartDescribe(w) \/ StartRename(w) \/ StartDelete(w)
          PROVE  Kept(d)'
      BY <1>1, <2>1, <2>3, StartEffect, KeptStart
    <2>4. ASSUME NEW w \in Caller, CallerSteps(w) PROVE Kept(d)'
      BY <1>1, <2>1, <2>4, KeptCaller
    <2>5. CASE UNCHANGED vars
      BY <2>1, <2>5 DEF vars, Kept, Doomed, Unlinking
    <2> QED  BY <1>1, <2>2, <2>3, <2>4, <2>5, StepKinds
  <1> QED  BY <1>1, <1>2 DEF KeptInv

LEMMA KeptInvariant == Spec => []KeptInv
  BY KeptInit, KeptStep, PTL DEF Spec

\* Copy-then-delete (DocumentStore.cs:253-288) loses no document that was uploaded
\* and that nobody has asked to delete, wherever a rename stops, as long as each
\* has one request at a time or is asked for no name twice.
THEOREM RenamesLoseNothing ==
    ASSUME Doc = Serial \cup FreshNames PROVE Spec => []NeverLost
  <1>1. KeptInv => NeverLost
    BY DEF KeptInv, Kept, NeverLost
  <1> QED  BY <1>1, KeptInvariant, PTL

(***************************************************************************)
(* Serial requests: what a request has located is there, and a document    *)
(* has one object unless a rename of it is under way or stopped half way.  *)
(***************************************************************************)
Present(w) ==
    pc[w] \in {"heading", "copying", "deleting"} /\ call[w].doc \in Serial
    => call[w].key \in objects[call[w].doc]

Gone(w) ==
    pc[w] = "deleted" /\ call[w].doc \in Serial \ leftover => objects[call[w].doc] = {}

Single(d) == \E n : objects[d] \subseteq {n}
Half(d, w) == Unlinking(d, w) /\ objects[d] \subseteq {call[w].key, call[w].name}
Tidy(d) == d \in leftover \/ Single(d) \/ \E w \in Caller : Half(d, w)

SerialInv ==
    /\ DocInv /\ Alone
    /\ \A w \in Caller : Present(w) /\ Gone(w)
    /\ \A d \in Serial : Tidy(d)

\* A step on a document finds no other request on it.
LEMMA NobodyElse ==
    ASSUME Alone, NEW w \in Caller, NEW v \in Caller, v # w,
           pc[w] \in InFlight, pc[v] \in InFlight, call[v].doc \in Serial
    PROVE  call[v].doc # call[w].doc
  BY DEF Alone, Together

LEMMA PresentUpload ==
    ASSUME DocInv, NEW e \in Doc, CreateUploadTarget(e) \/ Put(e) \/ Expire(e),
           NEW w \in Caller, Present(w), Gone(w)
    PROVE  Present(w)' /\ Gone(w)'
  <1>1. TypeOK /\ Stage(w) /\ UNCHANGED <<pc, call, leftover>>
    BY DEF DocInv, CreateUploadTarget, Put, Expire
  <1>2. \A d \in Doc : upload[d] = "landed" => objects'[d] = objects[d]
    BY <1>1 DEF CreateUploadTarget, Put, Expire, TypeOK
  <1>3. pc[w] \in Located \cup {"deleted"} => call[w].doc \in Doc /\ upload[call[w].doc] = "landed"
    BY <1>1, InFlightMeans DEF Stage, Located
  <1> QED  BY <1>1, <1>2, <1>3 DEF Present, Gone, Located

LEMMA PresentStart ==
    ASSUME NEW w \in Caller, Begins(w), Others(w), NEW v \in Caller, Present(v), Gone(v)
    PROVE  Present(v)' /\ Gone(v)'
  BY DEF Begins, Others, Present, Gone

LEMMA PresentOther ==
    ASSUME SerialInv, NEW w \in Caller, CallerSteps(w), NEW v \in Caller, v # w
    PROVE  Present(v)' /\ Gone(v)'
  <1>1. /\ DocInv /\ TypeOK /\ Others(w) /\ Writes(w) /\ call[w].doc \in Doc
        /\ Present(v) /\ Gone(v) /\ leftover \subseteq leftover'
    BY Awake, InFlightMeans, CallerEffect DEF SerialInv, DocInv, Writes
  <1>2. pc'[v] = pc[v] /\ call'[v] = call[v]
    BY <1>1 DEF Others
  <1>3. Present(v)'
    <2> SUFFICES ASSUME pc[v] \in {"heading", "copying", "deleting"}, call[v].doc \in Serial
                 PROVE  call[v].key \in objects'[call[v].doc]
      BY <1>2 DEF Present
    <2>1. call[v].key \in objects[call[v].doc] /\ call[v].doc \in Doc
      BY <1>1, InFlightMeans DEF Present
    <2>2. pc[w] \in InFlight => call[v].doc # call[w].doc
      BY NobodyElse DEF SerialInv, InFlight
    <2> QED  BY <1>1, <2>1, <2>2 DEF Writes, TypeOK, InFlight
  <1>4. Gone(v)'
    <2> SUFFICES ASSUME pc[v] = "deleted", call[v].doc \in Serial \ leftover
                 PROVE  objects'[call[v].doc] = {}
      BY <1>1, <1>2 DEF Gone
    <2>1. objects[call[v].doc] = {} /\ call[v].doc \in Doc
      BY <1>1, InFlightMeans DEF Gone
    <2> QED  BY <1>1, <2>1 DEF Writes, TypeOK
  <1> QED  BY <1>3, <1>4

LEMMA PresentSelf ==
    ASSUME SerialInv, NEW w \in Caller, CallerSteps(w)
    PROVE  Present(w)' /\ Gone(w)'
  <1>1. /\ DocInv /\ TypeOK /\ Stage(w) /\ Advances(w) /\ Writes(w) /\ call[w].doc \in Doc
        /\ call[w] \in Requests /\ pc[w] # "idle" /\ Present(w)
        /\ call[w].doc \in Serial => Tidy(call[w].doc)
    BY Awake, InFlightMeans, CallerEffect DEF SerialInv, DocInv
  <1>2. Present(w)'
    <2> SUFFICES ASSUME pc'[w] \in {"heading", "copying", "deleting"}
                 PROVE  call'[w].key \in objects'[call'[w].doc]
      BY DEF Present
    <2>1. PICK k \in Name : /\ First(call[w].doc, k) /\ call'[w] = [call[w] EXCEPT !.key = k]
                            /\ UNCHANGED objects
      BY <1>1 DEF Advances, Answer
    <2>2. call'[w].key = k /\ call'[w].doc = call[w].doc
      BY <1>1, <2>1 DEF Requests
    <2> QED  BY <2>1, <2>2 DEF First
  <1>3. Gone(w)'
    <2> SUFFICES ASSUME pc'[w] = "deleted", call[w].doc \in Serial \ leftover
                 PROVE  objects'[call[w].doc] = {}
      BY <1>1, Stays DEF Gone, Writes
    <2>1. pc[w] = "deleting" /\ call'[w] = call[w]
      BY <1>1, Stays
    <2>2. call[w].key \in objects[call[w].doc]
      BY <1>1, <2>1 DEF Present
    <2>3. ASSUME NEW v \in Caller, Half(call[w].doc, v) PROVE FALSE
      <3>1. v # w
        BY <2>1, <2>3 DEF Half, Unlinking
      <3> QED  BY <2>1, <2>3, <3>1, NobodyElse DEF SerialInv, InFlight, Half, Unlinking
    <2>4. Single(call[w].doc)
      BY <1>1, <2>3 DEF Tidy
    <2>5. objects[call[w].doc] = {call[w].key}
      BY <2>2, <2>4 DEF Single
    <2>6. objects'[call[w].doc] = objects[call[w].doc] \ {call[w].key}
      BY <1>1, <2>1 DEF Writes, TypeOK
    <2> QED  BY <2>5, <2>6
  <1> QED  BY <1>2, <1>3

LEMMA TidyUpload ==
    ASSUME DocInv, NEW e \in Doc, CreateUploadTarget(e) \/ Put(e) \/ Expire(e),
           NEW d \in Doc, Tidy(d)
    PROVE  Tidy(d)'
  <1>1. TypeOK /\ Uploads /\ UNCHANGED <<pc, call, leftover>>
    BY DEF DocInv, CreateUploadTarget, Put, Expire
  <1>2. CASE objects'[d] = objects[d]
    BY <1>1, <1>2 DEF Tidy, Single, Half, Unlinking
  <1>3. CASE objects'[d] # objects[d]
    <2>1. objects'[d] = {target[d]}
      BY <1>1, <1>3 DEF CreateUploadTarget, Put, Expire, TypeOK, Uploads
    <2> QED  BY <2>1 DEF Tidy, Single
  <1> QED  BY <1>2, <1>3

LEMMA TidyStart ==
    ASSUME NEW w \in Caller, Begins(w), Others(w), NEW d \in Doc, Tidy(d)
    PROVE  Tidy(d)'
  <1>1. \A v \in Caller : Half(d, v) => Half(d, v)'
    BY DEF Half, Unlinking, Begins, Others
  <1> QED  BY <1>1 DEF Tidy, Single, Begins

LEMMA TidyCaller ==
    ASSUME SerialInv, NEW w \in Caller, CallerSteps(w), NEW d \in Serial
    PROVE  Tidy(d)'
  <1>1. /\ DocInv /\ TypeOK /\ Others(w) /\ Writes(w) /\ call[w].doc \in Doc
        /\ Tidy(d) /\ Present(w) /\ leftover \subseteq leftover'
        /\ pc'[w] = "unlinking" => call'[w] = call[w]
        /\ d \in Doc
    BY DocumentAssumption, Awake, InFlightMeans, CallerEffect, Stays DEF SerialInv, DocInv, Writes
  <1>2. CASE d \in leftover
    BY <1>1, <1>2 DEF Tidy
  <1>3. ASSUME NEW v \in Caller, v # w, Half(d, v) PROVE Tidy(d)'
    <2>1. pc[w] \in InFlight => call[w].doc # d
      BY <1>3, NobodyElse DEF SerialInv, Half, Unlinking, InFlight
    <2>2. objects'[d] = objects[d]
      BY <1>1, <2>1 DEF Writes, TypeOK, InFlight
    <2> QED  BY <1>1, <1>3, <2>2 DEF Tidy, Half, Unlinking, Others
  <1>4. CASE Half(d, w)
    <2>1. pc[w] = "unlinking" /\ call[w].doc = d /\ objects[d] \subseteq {call[w].key, call[w].name}
      BY <1>4 DEF Half, Unlinking
    <2>2. CASE UNCHANGED objects
      BY <1>1, <2>1, <2>2 DEF Writes, Tidy, TypeOK, Single
    <2>3. CASE objects' = [objects EXCEPT ![d] = @ \ {call[w].key}]
      <3>1. objects'[d] \subseteq {call[w].name}
        BY <1>1, <2>1, <2>3 DEF TypeOK
      <3> QED  BY <3>1 DEF Tidy, Single
    <2> QED  BY <1>1, <2>1, <2>2, <2>3 DEF Writes
  <1>5. CASE Single(d)
    <2>1. PICK n : objects[d] \subseteq {n}
      BY <1>5 DEF Single
    <2>2. CASE objects'[d] \subseteq objects[d]
      BY <2>1, <2>2 DEF Tidy, Single
    <2>3. CASE ~(objects'[d] \subseteq objects[d])
      <3>1. /\ d = call[w].doc /\ pc[w] = "copying" /\ call[w].key \in objects[d]
            /\ objects'[d] = objects[d] \cup {call[w].name}
            /\ pc'[w] = "unlinking" \/ d \in leftover'
        BY <1>1, <2>3 DEF Writes, TypeOK
      <3>2. objects'[d] \subseteq {call[w].key, call[w].name}
        BY <2>1, <3>1
      <3>3. CASE pc'[w] = "unlinking"
        <4>1. Half(d, w)'
          BY <1>1, <3>1, <3>2, <3>3 DEF Half, Unlinking
        <4> QED  BY <4>1 DEF Tidy
      <3>4. CASE d \in leftover'
        BY <3>4 DEF Tidy
      <3> QED  BY <3>1, <3>3, <3>4
    <2> QED  BY <2>2, <2>3
  <1> QED  BY <1>1, <1>2, <1>3, <1>4, <1>5 DEF Tidy

LEMMA SerialInit == Init => SerialInv
  <1> SUFFICES ASSUME Init PROVE SerialInv
    OBVIOUS
  <1>1. DocInv
    BY DocInvInit
  <1>2. Alone
    BY DEF Init, Alone, Together, InFlight
  <1>3. \A w \in Caller : Present(w) /\ Gone(w)
    BY DEF Init, Present, Gone
  <1>4. \A d \in Doc : Tidy(d)
    BY DEF Init, Tidy, Single
  <1> QED  BY <1>1, <1>2, <1>3, <1>4, DocumentAssumption DEF SerialInv

LEMMA SerialStep == SerialInv /\ [Next]_vars => SerialInv'
  <1> SUFFICES ASSUME SerialInv, [Next]_vars PROVE SerialInv'
    OBVIOUS
  <1>1. DocInv' /\ Alone' /\ DocInv /\ Alone /\ TypeOK
    BY DocInvStep, AloneStep DEF SerialInv, DocInv
  <1>2. ASSUME NEW v \in Caller PROVE Present(v)' /\ Gone(v)'
    <2>1. Present(v) /\ Gone(v)
      BY DEF SerialInv
    <2>2. ASSUME NEW e \in Doc, CreateUploadTarget(e) \/ Put(e) \/ Expire(e)
          PROVE  Present(v)' /\ Gone(v)'
      BY <1>1, <2>1, <2>2, PresentUpload
    <2>3. ASSUME NEW w \in Caller, StartDescribe(w) \/ StartRename(w) \/ StartDelete(w)
          PROVE  Present(v)' /\ Gone(v)'
      BY <1>1, <2>1, <2>3, StartEffect, PresentStart
    <2>4. ASSUME NEW w \in Caller, CallerSteps(w) PROVE Present(v)' /\ Gone(v)'
      <3>1. CASE v = w
        BY <2>4, <3>1, PresentSelf
      <3>2. CASE v # w
        BY <2>4, <3>2, PresentOther
      <3> QED  BY <3>1, <3>2
    <2>5. CASE UNCHANGED vars
      BY <2>1, <2>5 DEF vars, Present, Gone
    <2> QED  BY <1>1, <2>2, <2>3, <2>4, <2>5, StepKinds
  <1>3. ASSUME NEW d \in Serial PROVE Tidy(d)'
    <2>1. Tidy(d) /\ d \in Doc
      BY DocumentAssumption DEF SerialInv
    <2>2. ASSUME NEW e \in Doc, CreateUploadTarget(e) \/ Put(e) \/ Expire(e) PROVE Tidy(d)'
      BY <1>1, <2>1, <2>2, TidyUpload
    <2>3. ASSUME NEW w \in Caller, StartDescribe(w) \/ StartRename(w) \/ StartDelete(w)
          PROVE  Tidy(d)'
      BY <1>1, <2>1, <2>3, StartEffect, TidyStart
    <2>4. ASSUME NEW w \in Caller, CallerSteps(w) PROVE Tidy(d)'
      BY <2>4, TidyCaller
    <2>5. CASE UNCHANGED vars
      BY <2>1, <2>5 DEF vars, Tidy, Single, Half, Unlinking
    <2> QED  BY <1>1, <2>2, <2>3, <2>4, <2>5, StepKinds
  <1> QED  BY <1>1, <1>2, <1>3 DEF SerialInv

LEMMA SerialInvariant == Spec => []SerialInv
  BY SerialInit, SerialStep, PTL DEF Spec

\* A document whose requests come one at a time is ONE object between them
\* (DocumentKey.cs:14), unless a rename of it stopped half way.
THEOREM OneObject == Spec => []OneObjectUnlessLeftover
  <1>1. SerialInv => OneObjectUnlessLeftover
    <2> SUFFICES ASSUME SerialInv, NEW d \in Serial \ leftover, ~Busy(d)
                 PROVE  Cardinality(objects[d]) <= 1
      BY DEF OneObjectUnlessLeftover
    <2>1. \A w \in Caller : ~Half(d, w)
      BY DEF Busy, Half, Unlinking, InFlight
    <2>2. PICK n : objects[d] \subseteq {n}
      BY <2>1 DEF SerialInv, Tidy, Single
    <2>3. objects[d] = {} \/ objects[d] = {n}
      BY <2>2
    <2>4. Cardinality({}) = 0 /\ Cardinality({n}) = 1
      BY FS_EmptySet, FS_Singleton
    <2> QED  BY <2>3, <2>4
  <1> QED  BY <1>1, SerialInvariant, PTL

\* After a confirmed delete (DocumentStore.cs:295-305) of a document whose requests
\* come one at a time, none of it is left to list, rename or download.
THEOREM DeletesAreFinal == Spec => []DeleteIsFinal
  <1>1. SerialInv => DeleteIsFinal
    BY DEF SerialInv, Gone, DeleteIsFinal
  <1> QED  BY <1>1, SerialInvariant, PTL

(***************************************************************************)
(* Nobody's requests are serial: what is one object is found.              *)
(***************************************************************************)
OnlyKey(w) == objects[call[w].doc] = {call[w].key}

Found(w) ==
    /\ pc[w] \notin {"idle", "notFound"}
    /\ \E n \in Name : objects[call[w].doc] = {n}
    /\ pc[w] \in {"heading", "copying", "deleting"} => OnlyKey(w)

SteadyInv == DocInv /\ \A w \in steady : Found(w)

\* No step replaces a document's one object by another one.
LEMMA OneStaysTheSame ==
    ASSUME TypeOK, NEW w \in Caller, Writes(w), call[w].doc \in Doc, NEW d \in Doc, NEW k,
           objects[d] = {k}, NEW n, objects'[d] = {n}
    PROVE  n = k
  BY DEF TypeOK, Writes

LEMMA FoundUpload ==
    ASSUME SteadyInv, NEW d \in Doc, CreateUploadTarget(d) \/ Put(d) \/ Expire(d),
           NEW v \in steady'
    PROVE  Found(v)'
  <1>1. TypeOK /\ Uploads /\ v \in steady /\ UNCHANGED <<pc, call>>
    BY DEF SteadyInv, DocInv, CreateUploadTarget, Put, Expire, StillOne
  <1>2. Found(v) /\ v \in Caller
    BY <1>1 DEF SteadyInv, TypeOK
  <1>3. call[v].doc \in Doc
    BY <1>2, InFlightMeans DEF SteadyInv, Found
  <1>4. objects'[call[v].doc] = objects[call[v].doc]
    <2>1. objects[call[v].doc] # {}
      BY <1>2 DEF Found
    <2> QED  BY <1>1, <1>3, <2>1 DEF CreateUploadTarget, Put, Expire, TypeOK, Uploads
  <1> QED  BY <1>1, <1>2, <1>4 DEF Found, OnlyKey

LEMMA FoundStart ==
    ASSUME SteadyInv, NEW w \in Caller, Begins(w), Others(w), NEW v \in steady'
    PROVE  Found(v)'
  <1>1. UNCHANGED objects /\ pc'[w] = "locating" /\ pc[w] = "idle"
    BY DEF Begins
  <1>2. CASE v = w
    <2>1. w \notin steady
      BY <1>1 DEF SteadyInv, Found
    <2> QED  BY <1>1, <1>2, <2>1 DEF Begins, Found
  <1>3. CASE v # w
    <2>1. v \in steady /\ v \in Caller /\ Found(v)
      BY <1>3 DEF Begins, SteadyInv, DocInv, TypeOK
    <2> QED  BY <1>1, <1>3, <2>1 DEF Others, Found, OnlyKey
  <1> QED  BY <1>2, <1>3

LEMMA FoundCaller ==
    ASSUME SteadyInv, NEW w \in Caller, CallerSteps(w), NEW v \in steady'
    PROVE  Found(v)'
  <1>1. /\ TypeOK /\ Stage(w) /\ Advances(w) /\ Writes(w) /\ Others(w) /\ Looks(w)
        /\ call[w] \in Requests /\ call[w].doc \in Doc /\ v \in Caller
    BY Awake, InFlightMeans, CallerEffect, CallerLooks DEF SteadyInv, DocInv, TypeOK, Looks, StillOne
  <1>2. CASE pc'[w] = "idle"
    <2>1. v # w /\ v \in steady /\ Found(v)
      BY <1>1, <1>2 DEF Looks, SteadyInv
    <2>2. UNCHANGED objects
      BY <1>1, <1>2 DEF Advances, Writes, Answer, AfterLocate
    <2> QED  BY <1>1, <2>1, <2>2 DEF Others, Found, OnlyKey
  <1>3. CASE pc'[w] # "idle"
    <2>1. PICK n \in Name : objects'[call[v].doc] = {n}
      BY <1>1, <1>3 DEF Looks, StillOne
    <2>2. CASE v # w
      <3>1. Found(v) /\ pc'[v] = pc[v] /\ call'[v] = call[v]
        BY <1>1, <1>3, <2>2 DEF Looks, StillOne, SteadyInv, Others
      <3>2. call[v].doc \in Doc
        BY <1>1, <3>1, InFlightMeans DEF Found, SteadyInv
      <3>3. OnlyKey(v) => OnlyKey(v)'
        BY <1>1, <2>1, <3>1, <3>2, OneStaysTheSame DEF OnlyKey
      <3> QED  BY <2>1, <3>1, <3>3 DEF Found
    <2>3. CASE v = w /\ pc'[w] = "locating"
      <3>1. call'[w].doc = call[w].doc
        BY <1>1, <2>3, Stays DEF SteadyInv, InFlight
      <3> QED  BY <2>1, <2>3, <3>1 DEF Found
    <2>4. CASE v = w /\ pc'[w] # "locating"
      <3>1. Found(w)
        BY <1>1, <1>3, <2>4 DEF Looks, StillOne, SteadyInv
      <3>2. pc'[w] # "notFound"
        BY <1>1, <3>1 DEF Writes, Found, OnlyKey
      <3>3. CASE pc'[w] \notin {"heading", "copying", "deleting"}
        <4>1. call'[w] = call[w]
          BY <1>1, <1>3, <2>4, <3>3 DEF Advances, AfterLocate, Requests
        <4> QED  BY <1>3, <2>1, <2>4, <3>2, <3>3, <4>1 DEF Found
      <3>4. CASE pc'[w] \in {"heading", "copying", "deleting"}
        <4>1. PICK k \in Name : /\ First(call[w].doc, k) /\ call'[w] = [call[w] EXCEPT !.key = k]
                                /\ UNCHANGED objects
          BY <1>1, <3>4 DEF Advances, Answer
        <4>2. call'[w].key = k /\ call'[w].doc = call[w].doc
          BY <1>1, <4>1 DEF Requests
        <4>3. objects'[call[w].doc] = {k}
          BY <2>1, <2>4, <4>1 DEF First
        <4> QED  BY <1>3, <2>4, <3>4, <4>2, <4>3 DEF Found, OnlyKey
      <3> QED  BY <3>3, <3>4
    <2> QED  BY <2>2, <2>3, <2>4
  <1> QED  BY <1>2, <1>3

LEMMA SteadyStep == SteadyInv /\ [Next]_vars => SteadyInv'
  <1> SUFFICES ASSUME SteadyInv, [Next]_vars, NEW v \in steady' PROVE DocInv' /\ Found(v)'
    BY DocInvStep DEF SteadyInv
  <1>1. DocInv /\ DocInv' /\ TypeOK
    BY DocInvStep DEF SteadyInv, DocInv
  <1>2. ASSUME NEW d \in Doc, CreateUploadTarget(d) \/ Put(d) \/ Expire(d) PROVE Found(v)'
    BY <1>2, FoundUpload
  <1>3. ASSUME NEW w \in Caller, StartDescribe(w) \/ StartRename(w) \/ StartDelete(w)
        PROVE  Found(v)'
    BY <1>1, <1>3, StartEffect, FoundStart
  <1>4. ASSUME NEW w \in Caller, CallerSteps(w) PROVE Found(v)'
    BY <1>4, FoundCaller
  <1>5. CASE UNCHANGED vars
    BY <1>1, <1>5 DEF vars, SteadyInv, Found, OnlyKey
  <1> QED  BY <1>1, <1>2, <1>3, <1>4, <1>5, StepKinds

\* However requests on one document overlap, a describe, download, rename or delete
\* (DocumentStore.cs:173-336) answers 404 only if at some moment since it listed the
\* document's prefix, or while it did, there was no object or more than one.
THEOREM NotFoundsAreReal == Spec => []NotFoundIsReal
  <1>1. Init => SteadyInv
    <2>1. Init => DocInv
      BY DocInvInit
    <2> QED  BY <2>1 DEF Init, SteadyInv
  <1>2. SteadyInv => NotFoundIsReal
    BY DEF SteadyInv, Found, NotFoundIsReal
  <1> QED  BY <1>1, <1>2, SteadyStep, PTL DEF Spec

(***************************************************************************)
(* The page.                                                               *)
(***************************************************************************)
\* Handlers of the page, and what surrounds it, do to the bucket what requests,
\* uploads and S3 calls do, or nothing.
LEMMA PageSteps == [ManagerNext]_allVars => [Next]_vars
  <1> SUFFICES ASSUME [ManagerNext]_allVars PROVE Next \/ UNCHANGED vars
    BY DEF vars
  <1>1. CASE UNCHANGED allVars
    BY <1>1 DEF allVars, bucket, vars
  <1>2. CASE Page
    <2>1. Tab \in Caller
      BY ManagerAssumption
    <2>2. CASE OnFilesPicked \/ StartRenaming \/ CancelRenaming \/ TargetRefused \/ PutFails
               \/ Reread \/ RereadFails \/ Visit
      BY <2>2 DEF OnFilesPicked, StartRenaming, CancelRenaming, TargetRefused, PutFails, Reread,
         RereadFails, Visit, bucket, vars
    <2>3. CASE OnDownload \/ OnDelete \/ OnRenameSubmit \/ Uploaded
      BY <2>1, <2>3 DEF OnDownload, OnDelete, OnRenameSubmit, Uploaded, Next
    <2>4. CASE TargetSigned
      BY <2>4 DEF TargetSigned, Next
    <2>5. CASE Succeeded \/ Downloaded \/ Failed \/ Unanswered
      BY <2>1, <2>5 DEF Succeeded, Downloaded, Failed, Unanswered, Next
    <2> QED  BY <1>2, <2>2, <2>3, <2>4, <2>5 DEF Page
  <1>3. CASE Bucket
    BY <1>3 DEF Bucket, Next
  <1> QED  BY <1>1, <1>2, <1>3 DEF ManagerNext

\* The documents page implements the store's specification: none of its handlers,
\* in any order, does to the bucket what DocumentStore does not describe.
THEOREM PageIsACaller == ManagerSpec => Spec
  <1>1. ManagerInit => Init
    BY DEF ManagerInit
  <1> QED  BY <1>1, PageSteps, PTL DEF ManagerSpec, Spec

(***************************************************************************)
(* The batch: what it counts as confirmed has landed, and what it has      *)
(* confirmed and what is left make up what was picked.                     *)
(***************************************************************************)
Sent ==
    /\ At("upload", "put") \/ At("upload", "call") => batch.doc \in Doc
    /\ At("upload", "call") => upload[batch.doc] = "landed"
    /\ \A d \in batch.done : upload[d] = "landed"

Counted ==
    LET done == Cardinality(batch.done) IN
    task = "upload" =>
        /\ batch.left >= 1
        /\ step \in {"target", "put", "call"} => done + batch.left = batch.picked
        /\ step \in {"put", "call"} => batch.doc \notin batch.done
        /\ step = "reread" => done + batch.left = batch.picked + 1

Batches ==
    [picked: 0..MaxFiles, left: 0..MaxFiles, doc: Doc \cup {NoDoc}, done: SUBSET Doc]

ManagerInv == PageTypeOK /\ Sent

\* A landed upload stays landed.
LEMMA LandedStays ==
    ASSUME TypeOK, [Next]_vars, NEW d \in Doc, upload[d] = "landed"
    PROVE  upload'[d] = "landed"
  BY DEF TypeOK, Next, vars, CreateUploadTarget, Put, Expire, StartDescribe, StartRename, StartDelete,
     Start, Finish, Fail, Locate, Head, Copy, Unlink, DeleteObject, Answered, AnswerLost, Describe, Goto

LEMMA NextFile ==
    ASSUME NEW b \in Batches, NEW n
    PROVE  [b EXCEPT !.left = n, !.doc = NoDoc]
           = [picked |-> b.picked, left |-> n, doc |-> NoDoc, done |-> b.done]
  <1>1. [b EXCEPT !.left = n] = [picked |-> b.picked, left |-> n, doc |-> b.doc, done |-> b.done]
    BY DEF Batches
  <1>2. [[picked |-> b.picked, left |-> n, doc |-> b.doc, done |-> b.done] EXCEPT !.doc = NoDoc]
         = [picked |-> b.picked, left |-> n, doc |-> NoDoc, done |-> b.done]
    OBVIOUS
  <1> QED  BY <1>1, <1>2

LEMMA FilesPicked ==
    ASSUME NEW n \in 1..MaxFiles
    PROVE  [NoBatch EXCEPT !.picked = n, !.left = n]
           = [picked |-> n, left |-> n, doc |-> NoDoc, done |-> {}]
  <1>1. [NoBatch EXCEPT !.picked = n] = [picked |-> n, left |-> 0, doc |-> NoDoc, done |-> {}]
    BY DEF NoBatch
  <1>2. [[picked |-> n, left |-> 0, doc |-> NoDoc, done |-> {}] EXCEPT !.left = n]
         = [picked |-> n, left |-> n, doc |-> NoDoc, done |-> {}]
    OBVIOUS
  <1> QED  BY <1>1, <1>2

LEMMA ListedIsSound == Listed \subseteq Doc /\ Truncated \in BOOLEAN
  BY DEF Listed, Stored, Truncated

LEMMA PageStep ==
    ASSUME ManagerInv, Page, TypeOK'
    PROVE  ManagerInv'
  <1> USE ManagerAssumption
  <1>0. /\ TypeOK /\ batch \in Batches /\ rows \in SUBSET Doc /\ page \in {"view", "error"}
        /\ renaming \in Doc \cup {NoDoc} /\ truncated \in BOOLEAN
        /\ task \in {"none", "upload", "rename", "delete", "download"}
        /\ step \in {"none", "target", "put", "call", "reread"} /\ (task = "none" <=> step = "none")
    BY DEF ManagerInv, PageTypeOK, Batches
  <1>1. NoBatch \in Batches /\ NoBatch.done = {}
    BY DEF NoBatch, Batches
  <1>2. \A d \in Doc : upload[d] = "landed" => upload'[d] = "landed"
    BY <1>0, PageSteps, LandedStays DEF ManagerNext
  <1>3. batch.done \subseteq Doc /\ \A d \in batch.done : upload'[d] = "landed"
    BY <1>0, <1>2 DEF ManagerInv, Sent, Batches
  <1>4. CASE OnFilesPicked
    <2>1. PICK n \in 1..MaxFiles : batch' = [NoBatch EXCEPT !.picked = n, !.left = n]
      BY <1>4 DEF OnFilesPicked
    <2>2. batch' = [picked |-> n, left |-> n, doc |-> NoDoc, done |-> {}]
      BY <2>1, FilesPicked
    <2>3. n \in 0..MaxFiles
      OBVIOUS
    <2>4. batch' \in Batches /\ batch'.done = {}
      BY <2>2, <2>3 DEF Batches
    <2> QED  BY <1>0, <1>4, <2>4, TypeOK' DEF OnFilesPicked, Begin, ManagerInv, PageTypeOK, Sent, At, Batches
  <1>5. CASE OnDownload \/ OnDelete \/ OnRenameSubmit
    BY <1>0, <1>3, <1>5 DEF OnDownload, OnDelete, OnRenameSubmit, Begin, ManagerInv, PageTypeOK, Sent, At
  <1>6. CASE StartRenaming \/ CancelRenaming
    BY <1>0, <1>3, <1>6 DEF StartRenaming, CancelRenaming, Enabled, ManagerInv, PageTypeOK, Sent, At
  <1>7. CASE TargetSigned
    <2>1. PICK d \in Doc : batch' = [batch EXCEPT !.doc = d]
      BY <1>7 DEF TargetSigned
    <2>2. batch' \in Batches /\ batch'.done = batch.done /\ batch'.doc = d
      BY <1>0, <2>1 DEF Batches
    <2> QED  BY <1>0, <1>3, <1>7, <2>2 DEF TargetSigned, ManagerInv, PageTypeOK, Sent, At, Batches
  <1>8. CASE GiveUp
    BY <1>0, <1>1, <1>8 DEF GiveUp, ManagerInv, PageTypeOK, Sent, At, Batches
  <1>9. CASE Uploaded
    <2>1. upload'[batch.doc] = "landed" /\ batch.doc \in Doc
      BY <1>2, <1>9 DEF Uploaded, ManagerInv, Sent
    <2> QED  BY <1>0, <1>3, <1>9, <2>1 DEF Uploaded, ManagerInv, PageTypeOK, Sent, At
  <1>10. CASE Succeeded
    <2>1. CASE task = "upload"
      <3>1. batch.doc \in Doc /\ upload'[batch.doc] = "landed"
        BY <1>2, <1>10, <2>1 DEF Succeeded, ManagerInv, Sent, At
      <3>2. batch' = [batch EXCEPT !.done = @ \cup {batch.doc}]
        BY <1>10, <2>1 DEF Succeeded
      <3>3. batch' \in Batches /\ batch'.done = batch.done \cup {batch.doc}
        BY <1>0, <3>1, <3>2 DEF Batches
      <3> QED  BY <1>0, <1>3, <1>10, <2>1, <3>1, <3>3 DEF Succeeded, ManagerInv, PageTypeOK, Sent, At, Batches
    <2>2. CASE task # "upload"
      BY <1>0, <1>3, <1>10, <2>2 DEF Succeeded, ManagerInv, PageTypeOK, Sent, At
    <2> QED  BY <2>1, <2>2
  <1>11. CASE Downloaded
    BY <1>0, <1>3, <1>11 DEF Downloaded, ManagerInv, PageTypeOK, Sent, At
  <1>12. CASE Reread \/ RereadFails
    <2>1. /\ page' \in {"view", "error"} /\ rows' \in SUBSET Doc /\ renaming' \in Doc \cup {NoDoc}
          /\ truncated' \in BOOLEAN
      BY <1>0, <1>12, ListedIsSound DEF Reread, RereadFails
    <2>2. CASE task = "upload" /\ batch.left > 1
      <3>1. batch' = [batch EXCEPT !.left = @ - 1, !.doc = NoDoc] /\ step' = "target" /\ task' = task
        BY <1>12, <2>2 DEF Reread, RereadFails, GoesOn
      <3>2. batch.left - 1 \in 0..MaxFiles /\ batch.done \in SUBSET Doc
        BY <1>0, <2>2 DEF Batches
      <3>3. batch' = [picked |-> batch.picked, left |-> batch.left - 1, doc |-> NoDoc,
                      done |-> batch.done]
        BY <1>0, <3>1, NextFile
      <3>4. batch' \in Batches /\ batch'.done = batch.done
        BY <1>0, <3>2, <3>3 DEF Batches
      <3> QED  BY <1>0, <1>3, <2>1, <2>2, <3>1, <3>4 DEF ManagerInv, PageTypeOK, Sent, At, Batches
    <2>3. CASE ~(task = "upload" /\ batch.left > 1)
      <3>1. batch' = NoBatch /\ step' = "none" /\ task' = "none"
        BY <1>12, <2>3 DEF Reread, RereadFails, GoesOn
      <3> QED  BY <1>0, <1>1, <2>1, <3>1 DEF ManagerInv, PageTypeOK, Sent, At, Batches
    <2> QED  BY <2>2, <2>3
  <1>13. CASE Visit
    <2>1. page' \in {"view", "error"} /\ rows' \in SUBSET Doc /\ truncated' \in BOOLEAN
      BY <1>13, ListedIsSound DEF Visit
    <2> QED  BY <1>0, <1>1, <1>13, <2>1 DEF Visit, ManagerInv, PageTypeOK, Sent, At, Batches
  <1>14. CASE Unanswered
    BY <1>0, <1>3, <1>14 DEF Unanswered, manager, ManagerInv, PageTypeOK, Sent, At
  <1> QED  BY <1>4, <1>5, <1>6, <1>7, <1>8, <1>9, <1>10, <1>11, <1>12, <1>13, <1>14
           DEF Page, TargetRefused, PutFails, Failed

\* Each step of the loop counts as the loop does.
LEMMA CountStep ==
    ASSUME DocInv, ManagerInv, Counted, Page
    PROVE  Counted'
  <1>1. /\ TypeOK /\ batch \in Batches /\ (task = "none" <=> step = "none")
        /\ \A d \in batch.done : upload[d] = "landed"
    BY DEF DocInv, ManagerInv, PageTypeOK, Batches, Sent
  <1>2. IsFiniteSet(batch.done) /\ Cardinality(batch.done) \in Nat
    BY <1>1, ManagerAssumption, FS_Subset, FS_CardinalityType DEF Batches
  <1>3. CASE OnFilesPicked
    <2>1. PICK n \in 1..MaxFiles : batch' = [NoBatch EXCEPT !.picked = n, !.left = n]
      BY <1>3 DEF OnFilesPicked
    <2>2. batch'.left = n /\ batch'.picked = n /\ batch'.done = {}
      BY <2>1, FilesPicked
    <2>3. step' = "target"
      BY <1>3 DEF OnFilesPicked, Begin
    <2> QED  BY <2>2, <2>3, FS_EmptySet DEF Counted
  <1>4. CASE TargetSigned
    <2>1. PICK d \in Doc : CreateUploadTarget(d) /\ batch' = [batch EXCEPT !.doc = d]
      BY <1>4 DEF TargetSigned
    <2>2. /\ batch'.left = batch.left /\ batch'.picked = batch.picked /\ batch'.done = batch.done
          /\ batch'.doc = d
      BY <1>1, <2>1 DEF Batches
    <2>3. d \notin batch.done
      BY <1>1, <2>1 DEF CreateUploadTarget
    <2> QED  BY <1>4, <2>2, <2>3 DEF TargetSigned, Counted, At
  <1>5. CASE Uploaded
    BY <1>5 DEF Uploaded, Counted, At
  <1>6. CASE Succeeded /\ task = "upload"
    <2>1. batch' = [batch EXCEPT !.done = @ \cup {batch.doc}] /\ step' = "reread" /\ task' = task
      BY <1>6 DEF Succeeded
    <2>2. /\ batch'.left = batch.left /\ batch'.picked = batch.picked
          /\ batch'.done = batch.done \cup {batch.doc}
      BY <1>1, <2>1 DEF Batches
    <2>3. /\ batch.doc \notin batch.done /\ batch.left >= 1
          /\ Cardinality(batch.done) + batch.left = batch.picked
      BY <1>6 DEF Succeeded, Counted
    <2>4. Cardinality(batch'.done) = Cardinality(batch.done) + 1
      BY <1>2, <2>2, <2>3, FS_AddElement
    <2> QED  BY <1>1, <1>2, <2>1, <2>2, <2>3, <2>4 DEF Counted, Batches
  <1>7. CASE (Reread \/ RereadFails) /\ task = "upload" /\ batch.left > 1
    <2>1. batch' = [batch EXCEPT !.left = @ - 1, !.doc = NoDoc] /\ step' = "target"
      BY <1>7 DEF Reread, RereadFails, GoesOn
    <2>2. batch' = [picked |-> batch.picked, left |-> batch.left - 1, doc |-> NoDoc,
                    done |-> batch.done]
      BY <1>1, <2>1, NextFile
    <2>3. Cardinality(batch.done) + batch.left = batch.picked + 1
      BY <1>7 DEF Reread, RereadFails, Counted
    <2> QED  BY <1>1, <1>2, <1>7, <2>1, <2>2, <2>3 DEF Counted, Batches
  <1>8. CASE (Reread \/ RereadFails) /\ ~(task = "upload" /\ batch.left > 1)
    BY <1>8 DEF Reread, RereadFails, GoesOn, Counted
  <1>9. CASE OnDownload \/ OnDelete \/ OnRenameSubmit \/ StartRenaming \/ CancelRenaming
    BY <1>9 DEF OnDownload, OnDelete, OnRenameSubmit, Begin, StartRenaming, CancelRenaming, Enabled,
       Counted
  <1>10. CASE TargetRefused \/ PutFails \/ Failed \/ Downloaded \/ Visit
    BY <1>10 DEF TargetRefused, PutFails, Failed, GiveUp, Downloaded, Visit, Counted
  <1>11. CASE Succeeded /\ task # "upload"
    BY <1>11 DEF Succeeded, Counted
  <1>12. CASE Unanswered
    BY <1>12 DEF Unanswered, manager, Counted
  <1> QED  BY <1>3, <1>4, <1>5, <1>6, <1>7, <1>8, <1>9, <1>10, <1>11, <1>12 DEF Page

LEMMA ManagerStep == DocInv /\ DocInv' /\ ManagerInv /\ [ManagerNext]_allVars => ManagerInv'
  <1> SUFFICES ASSUME ManagerInv, DocInv, DocInv', [ManagerNext]_allVars PROVE ManagerInv'
    OBVIOUS
  <1>1. TypeOK /\ TypeOK'
    BY DEF DocInv
  <1>2. CASE Page
    BY <1>1, <1>2, PageStep
  <1>3. ASSUME UNCHANGED manager PROVE ManagerInv'
    <2>1. \A d \in Doc : upload[d] = "landed" => upload'[d] = "landed"
      BY <1>1, PageSteps, LandedStays
    <2>2. batch.done \subseteq Doc
      BY DEF ManagerInv, PageTypeOK
    <2> QED  BY <1>1, <1>3, <2>1, <2>2 DEF manager, ManagerInv, PageTypeOK, Sent, At
  <1> QED  BY <1>2, <1>3 DEF ManagerNext, Bucket, allVars, manager

LEMMA CountedStep == DocInv /\ ManagerInv /\ Counted /\ [ManagerNext]_allVars => Counted'
  <1>1. ASSUME UNCHANGED manager, Counted PROVE Counted'
    BY <1>1 DEF manager, Counted
  <1> QED  BY <1>1, CountStep DEF ManagerNext, Bucket, allVars, manager

LEMMA ManagerInvariant == ManagerSpec => [](ManagerInv /\ Counted)
  <1>1. ManagerInit => ManagerInv /\ Counted
    <2> SUFFICES ASSUME ManagerInit PROVE ManagerInv /\ Counted
      OBVIOUS
    <2>1. TypeOK
      BY DocInvInit DEF ManagerInit, DocInv
    <2>2. batch \in Batches /\ batch.done = {}
      BY ManagerAssumption DEF ManagerInit, NoBatch, Batches
    <2> QED  BY <2>1, <2>2 DEF ManagerInit, ManagerInv, Counted, PageTypeOK, Sent, At, Batches
  <1> QED  BY <1>1, ManagerStep, CountedStep, PageIsACaller, DocInvariant, PTL DEF ManagerSpec

\* The page's handlers leave the page, and everybody leaves the bucket, well-formed
\* (document-manager.tsx:37-160): a handler under way is one that waits for something.
THEOREM PageTypeCorrect == ManagerSpec => []PageTypeOK
  <1>1. ManagerInv => PageTypeOK
    BY DEF ManagerInv
  <1> QED  BY <1>1, ManagerInvariant, PTL

\* Below the ceiling every object has its row.
LEMMA ListedUnlessTruncated ==
    ASSUME TypeOK, NEW d \in Doc, objects[d] # {}, ~Truncated
    PROVE  d \in Listed
  <1> USE ManagerAssumption
  <1>1. IsFiniteSet(Stored)
    <2>1. IsFiniteSet(Doc \X Name)
      BY FS_Product
    <2> QED  BY <2>1, FS_Subset DEF Stored
  <1>2. PICK n \in Name : n \in objects[d]
    BY DEF TypeOK
  <1> DEFINE o == <<d, n>>
  <1>3. o \in Stored
    BY <1>2 DEF Stored
  <1>4. Before(o) \subseteq Stored /\ o \notin Before(o)
    <2>1. d \in Nat /\ n \in Nat
      BY DocumentAssumption
    <2> QED  BY <2>1 DEF Before
  <1>5. Cardinality(Before(o)) < Cardinality(Stored)
    <2>1. /\ Cardinality(Before(o)) <= Cardinality(Stored)
          /\ Cardinality(Before(o)) # Cardinality(Stored)
      BY <1>1, <1>3, <1>4, FS_Subset
    <2>2. Cardinality(Before(o)) \in Nat /\ Cardinality(Stored) \in Nat
      BY <1>1, <1>4, FS_Subset, FS_CardinalityType
    <2> QED  BY <2>1, <2>2
  <1>6. Cardinality(Before(o)) < MaxListed
    <2>1. Cardinality(Before(o)) \in Nat /\ Cardinality(Stored) \in Nat
      BY <1>1, <1>4, FS_Subset, FS_CardinalityType
    <2> QED  BY <1>5, <2>1 DEF Truncated
  <1> HIDE DEF o
  <1>7. o[1] \in Listed
    BY <1>3, <1>6 DEF Listed
  <1> QED  BY <1>7 DEF o

\* A batch that ends without an error has sent every file that was picked, and each
\* is in the list it then shows (document-manager.tsx:37-105) unless somebody has
\* asked to delete it or the list says that it does not show everything
\* (DocumentStore.cs:83-91): each file is counted once, what is confirmed has landed,
\* what has landed the store does not lose, and what it has is listed up to the
\* ceiling.
THEOREM BatchesAreHonest ==
    ASSUME Doc = Serial \cup FreshNames PROVE ManagerSpec => BatchHonest
  <1> DEFINE Honest == At("upload", "reread") /\ batch.left = 1 /\ task' = "none" /\ page' = "view"
                       => /\ Cardinality(batch.done) = batch.picked
                          /\ \A d \in batch.done : d \in rows' \/ d \in erased \/ truncated'
  <1>1. ManagerInv /\ Counted /\ NeverLost /\ [ManagerNext]_allVars => [Honest]_allVars
    <2> SUFFICES ASSUME ManagerInv, Counted, NeverLost, ManagerNext, At("upload", "reread"),
                        batch.left = 1, task' = "none", page' = "view"
                 PROVE  Honest
      OBVIOUS
    <2>1. batch.done \in SUBSET Doc /\ batch.picked \in 0..MaxFiles /\ TypeOK
      BY DEF ManagerInv, PageTypeOK
    <2>2. Cardinality(batch.done) = batch.picked
      <3>1. Cardinality(batch.done) \in Nat
        BY <2>1, ManagerAssumption, FS_Subset, FS_CardinalityType
      <3> QED  BY <2>1, <3>1 DEF Counted, At
    <2>3. Page
      BY DEF ManagerNext, Bucket, manager, At
    <2>4. Reread \/ Visit
      BY <2>3 DEF Page, OnFilesPicked, OnDownload, OnDelete, OnRenameSubmit, Begin, StartRenaming,
         CancelRenaming, Enabled, TargetSigned, TargetRefused, Uploaded, PutFails, Succeeded,
         Downloaded, Failed, RereadFails, Unanswered, At
    <2>5. rows' = Listed /\ truncated' = Truncated
      BY <2>4 DEF Reread, RereadFails, Visit
    <2>6. ASSUME NEW d \in batch.done, d \notin erased, ~Truncated PROVE d \in Listed
      <3>1. d \in Doc /\ objects[d] # {}
        BY <2>1, <2>6 DEF ManagerInv, Sent, NeverLost
      <3> QED  BY <2>1, <2>6, <3>1, ListedUnlessTruncated
    <2> QED  BY <2>2, <2>5, <2>6
  <1> QED  BY <1>1, ManagerInvariant, PageIsACaller, RenamesLoseNothing, PTL DEF ManagerSpec, BatchHonest
=============================================================================
