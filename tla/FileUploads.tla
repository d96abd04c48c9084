----------------------------- MODULE FileUploads -----------------------------
(***************************************************************************)
(* Uploads of one owner (src/files/files.service.ts): intent records a file*)
(* and opens its multipart upload, the client sends bytes straight to the  *)
(* storage, commit assembles the object, checks it and completes the row.  *)
(* The steps are the calls the handlers make: statements of PostgreSQL and *)
(* requests to the storage, each of which may fail.                        *)
(*                                                                         *)
(* A part or an object is "none", "short" (cut off) or "good" (the declared*)
(* bytes); its ETag is determined by that. PartPlan has the arithmetic that*)
(* says which parts a file of a given size has.                            *)
(***************************************************************************)
EXTENDS PartPlan, FiniteSets

CONSTANTS
  File,             \* ids of files (randomUUID)
  Key,              \* Idempotency-Keys
  FileSize,         \* declared size of the multipart files
  Call,             \* handlers in flight at a time
  None,
  MaxFaults         \* bound: calls that fail or processes that die

Part == PartNumbers(FileSize)

ASSUME FileUploadsAssumption ==
  /\ File \subseteq Nat
  /\ None \notin Nat \cup Key \cup Call
  /\ FileSize \in 1..MAX_OBJECT /\ Part # {} /\ MaxFaults \in Nat

Bytes == {"none", "short", "good"}

VARIABLES
  status,           \* files.status; "absent" when there is no row
  rowKey,           \* files.idempotency_key
  multipart,        \* files whose declared size is above the threshold:
                    \* upload_id IS NOT NULL once there is a row
  etag,             \* files.etag; "none" for NULL
  upload,           \* the storage's multipart upload for the file's key
  parts,            \* parts[f][n]: what the storage has of part n
  object,           \* object[f]: the object under the file's key
  pc,               \* pc[c]: the next call of handler c
  file,             \* file[c]: the file c works on
  key,              \* key[c]: the Idempotency-Key of an intent
  head,             \* head[c]: what HeadObject told a commit
  answers,          \* history: <<key, file>> an intent answered with
  faults

rows == <<status, rowKey, multipart, etag>>
storage == <<upload, parts, object>>
local == <<pc, file, key, head>>
vars == <<rows, storage, local, answers, faults>>

TypeOK ==
  /\ status \in [File -> {"absent", "PENDING", "COMPLETED"}]
  /\ rowKey \in [File -> Key \cup {None}]
  /\ multipart \subseteq File
  /\ etag \in [File -> Bytes]
  /\ upload \in [File -> {"none", "open", "completed", "aborted"}]
  /\ parts \in [File -> [Part -> Bytes]]
  /\ object \in [File -> Bytes]
  /\ pc \in [Call -> {"idle", "lookup", "create", "insert", "abort", "reread",
                      "cleanup", "read", "list", "complete", "head", "update"}]
  /\ file \in [Call -> File \cup {None}]
  /\ key \in [Call -> Key \cup {None}]
  /\ head \in [Call -> Bytes]
  /\ answers \subseteq (Key \cup {None}) \X File
  /\ faults \in 0..MaxFaults

Init ==
  /\ status = [f \in File |-> "absent"]
  /\ rowKey = [f \in File |-> None]
  /\ multipart = {}
  /\ etag = [f \in File |-> "none"]
  /\ upload = [f \in File |-> "none"]
  /\ parts = [f \in File |-> [n \in Part |-> "none"]]
  /\ object = [f \in File |-> "none"]
  /\ pc = [c \in Call |-> "idle"]
  /\ file = [c \in Call |-> None]
  /\ key = [c \in Call |-> None]
  /\ head = [c \in Call |-> "none"]
  /\ answers = {}
  /\ faults = 0

Row(f) == status[f] # "absent"
Owner(k) == {f \in File : Row(f) /\ k # None /\ rowKey[f] = k}

Goto(c, where) == pc' = [pc EXCEPT ![c] = where]

\* The handler returns or throws.
Return(c) ==
  /\ pc' = [pc EXCEPT ![c] = "idle"]
  /\ file' = [file EXCEPT ![c] = None]
  /\ key' = [key EXCEPT ![c] = None]
  /\ head' = [head EXCEPT ![c] = "none"]

\* describe(row): the answer of an intent.
Describe(c, f) ==
  /\ answers' = answers \cup {<<key[c], f>>}
  /\ Return(c)

-----------------------------------------------------------------------------
\* POST /uploads/intent. The id the handler will draw is the smallest unused
\* one; a size above the threshold makes the file multipart.
Fresh(f) ==
  /\ ~Row(f) /\ upload[f] = "none"
  /\ \A c \in Call : file[c] # f

StartIntent(c, k, f, big) ==
  /\ pc[c] = "idle"
  /\ Fresh(f) /\ \A g \in File : Fresh(g) => f <= g
  /\ file' = [file EXCEPT ![c] = f]
  /\ key' = [key EXCEPT ![c] = k]
  /\ multipart' = IF big THEN multipart \cup {f} ELSE multipart \ {f}
  /\ Goto(c, "lookup")
  /\ UNCHANGED <<status, rowKey, etag, storage, head, answers, faults>>

\* SELECT by the key: a repeated intent is answered with the file it named
\* first. Without a key there is nothing to look up.
LookupKey(c) ==
  /\ pc[c] = "lookup"
  /\ \/ \E f \in Owner(key[c]) : Describe(c, f)
     \/ /\ Owner(key[c]) = {}
        /\ Goto(c, IF file[c] \in multipart THEN "create" ELSE "insert")
        /\ UNCHANGED <<file, key, head, answers>>
  /\ UNCHANGED <<rows, storage, faults>>

CreateUpload(c) ==
  /\ pc[c] = "create"
  /\ upload' = [upload EXCEPT ![file[c]] = "open"]
  /\ Goto(c, "insert")
  /\ UNCHANGED <<rows, parts, object, file, key, head, answers, faults>>

\* Mutant: the table has no unique index over (owner_id, idempotency_key).
NewRowAlways(c) ==
  /\ pc[c] = "insert"
  /\ status' = [status EXCEPT ![file[c]] = "PENDING"]
  /\ rowKey' = [rowKey EXCEPT ![file[c]] = key[c]]
  /\ UNCHANGED <<multipart, etag>>

\* The INSERT in the database: the key has no row yet.
NewRow(c) ==
  /\ pc[c] = "insert"
  /\ Owner(key[c]) = {}
  /\ status' = [status EXCEPT ![file[c]] = "PENDING"]
  /\ rowKey' = [rowKey EXCEPT ![file[c]] = key[c]]
  /\ UNCHANGED <<multipart, etag>>

InsertRow(c) ==
  /\ NewRow(c) /\ Describe(c, file[c])
  /\ UNCHANGED <<storage, faults>>

\* Mutant: the loser of the race leaves its multipart upload behind.
InsertConflictNoAbort(c) ==
  /\ pc[c] = "insert"
  /\ Owner(key[c]) # {}
  /\ Goto(c, "reread")
  /\ UNCHANGED <<rows, storage, file, key, head, answers, faults>>

\* Error 23505: another intent with this key was first.
InsertConflict(c) ==
  /\ pc[c] = "insert"
  /\ Owner(key[c]) # {}
  /\ Goto(c, IF file[c] \in multipart THEN "abort" ELSE "reread")
  /\ UNCHANGED <<rows, storage, file, key, head, answers, faults>>

\* AbortMultipartUpload of an upload that is still open takes its parts with it;
\* its failure is swallowed (.catch(() => undefined)).
Abort(f) ==
  \/ /\ upload[f] = "open" /\ UNCHANGED faults
     /\ upload' = [upload EXCEPT ![f] = "aborted"]
     /\ parts' = [parts EXCEPT ![f] = [n \in Part |-> "none"]]
  \/ upload[f] # "open" /\ UNCHANGED <<upload, parts, faults>>
  \/ faults < MaxFaults /\ faults' = faults + 1 /\ UNCHANGED <<upload, parts>>

AbortUpload(c) ==
  /\ pc[c] = "abort" /\ Abort(file[c])
  /\ Goto(c, "reread")
  /\ UNCHANGED <<rows, object, file, key, head, answers>>

\* The loser answers with the winner's row.
Reread(c) ==
  /\ pc[c] = "reread"
  /\ \E f \in Owner(key[c]) : Describe(c, f)
  /\ UNCHANGED <<rows, storage, faults>>

\* The INSERT throws for another reason than the key: it had no effect, or its
\* answer was lost. The catch cannot tell.
InsertFails(c) ==
  /\ pc[c] = "insert"
  /\ faults < MaxFaults /\ faults' = faults + 1
  /\ NewRow(c) \/ UNCHANGED rows
  /\ \/ /\ file[c] \in multipart /\ Goto(c, "cleanup")
        /\ UNCHANGED <<file, key, head>>
     \/ file[c] \notin multipart /\ Return(c)
  /\ UNCHANGED <<storage, answers>>

\* The catch aborts the upload and throws, although the row may be there, found
\* by its key and being uploaded to.
Cleanup(c) ==
  /\ pc[c] = "cleanup" /\ Abort(file[c])
  /\ Return(c)
  /\ UNCHANGED <<rows, object, answers>>

-----------------------------------------------------------------------------
\* The client sends bytes with presigned URLs, which stay valid for a while:
\* a part or the whole object, cut off or complete, also over what is there.
\* The storage takes parts of an open upload only.
PutPart(f, n, b) ==
  /\ Row(f) /\ f \in multipart
  /\ upload[f] = "open"
  /\ b # "none" /\ b # parts[f][n]
  /\ parts' = [parts EXCEPT ![f][n] = b]
  /\ UNCHANGED <<rows, upload, object, local, answers, faults>>

PutObject(f, b) ==
  /\ Row(f) /\ f \notin multipart
  /\ b # "none" /\ b # object[f]
  /\ object' = [object EXCEPT ![f] = b]
  /\ UNCHANGED <<rows, upload, parts, local, answers, faults>>

-----------------------------------------------------------------------------
\* POST /uploads/commit, by the owner; it may be called again and again.
StartCommit(c, f) ==
  /\ pc[c] = "idle" /\ Row(f)
  /\ file' = [file EXCEPT ![c] = f]
  /\ Goto(c, "read")
  /\ UNCHANGED <<rows, storage, key, head, answers, faults>>

\* Mutant: commit has no branch for multipart files.
ReadRowSkipsParts(c) ==
  /\ pc[c] = "read"
  /\ IF status[file[c]] = "COMPLETED"
     THEN Return(c)
     ELSE Goto(c, "head") /\ UNCHANGED <<file, key, head>>
  /\ UNCHANGED <<rows, storage, answers, faults>>

\* owned(): the row as it is now. A completed file is answered at once.
ReadRow(c) ==
  /\ pc[c] = "read"
  /\ IF status[file[c]] = "COMPLETED"
     THEN Return(c)
     ELSE /\ Goto(c, IF file[c] \in multipart THEN "list" ELSE "head")
          /\ UNCHANGED <<file, key, head>>
  /\ UNCHANGED <<rows, storage, answers, faults>>

\* listAllParts. An upload that is gone throws NoSuchUpload from here, outside
\* the try: 500. A part that is not there in full: 409 parts-missing. What is
\* listed for "complete" are the ETags of good parts.
ListParts(c) ==
  /\ pc[c] = "list"
  /\ IF upload[file[c]] = "open" /\ \A n \in Part : parts[file[c]][n] = "good"
     THEN Goto(c, "complete") /\ UNCHANGED <<file, key, head>>
     ELSE Return(c)
  /\ UNCHANGED <<rows, storage, answers, faults>>

\* Mutant: whatever parts the upload has now are put together, with no ETags
\* to hold them against.
CompleteUploadNoETags(c) ==
  /\ pc[c] = "complete"
  /\ upload' = [upload EXCEPT ![file[c]] = "completed"]
  /\ object' = [object EXCEPT ![file[c]] =
                  IF \A n \in Part : parts[file[c]][n] = "good" THEN "good" ELSE "short"]
  /\ Goto(c, "head")
  /\ UNCHANGED <<rows, parts, file, key, head, answers, faults>>

\* CompleteMultipartUpload with the ETags listed. NoSuchUpload (a concurrent
\* commit was faster) is caught; a part sent again meanwhile is InvalidPart and
\* is thrown. The answer may be lost after the object was assembled.
CompleteUpload(c) ==
  /\ pc[c] = "complete"
  /\ \/ /\ upload[file[c]] = "open" /\ \A n \in Part : parts[file[c]][n] = "good"
        /\ upload' = [upload EXCEPT ![file[c]] = "completed"]
        /\ object' = [object EXCEPT ![file[c]] = "good"]
        /\ \/ Goto(c, "head") /\ UNCHANGED <<file, key, head, faults>>
           \/ faults < MaxFaults /\ faults' = faults + 1 /\ Return(c)
     \/ /\ upload[file[c]] = "open" /\ \E n \in Part : parts[file[c]][n] # "good"
        /\ Return(c)
        /\ UNCHANGED <<upload, object, faults>>
     \/ /\ upload[file[c]] # "open"
        /\ Goto(c, "head")
        /\ UNCHANGED <<upload, object, file, key, head, faults>>
  /\ UNCHANGED <<rows, parts, answers>>

\* HeadObject: 409 object-missing or size-mismatch unless the bytes are there.
HeadObject(c) ==
  /\ pc[c] = "head"
  /\ IF object[file[c]] = "good"
     THEN /\ head' = [head EXCEPT ![c] = object[file[c]]]
          /\ Goto(c, "update") /\ UNCHANGED <<file, key>>
     ELSE Return(c)
  /\ UNCHANGED <<rows, storage, answers, faults>>

\* UPDATE files SET status = 'COMPLETED', etag = ... in the database.
MarkCompleted(c) ==
  /\ pc[c] = "update"
  /\ etag' = [etag EXCEPT ![file[c]] = head[c]]
  /\ status' = [status EXCEPT ![file[c]] = "COMPLETED"]
  /\ UNCHANGED <<rowKey, multipart>>

CompleteRow(c) ==
  /\ MarkCompleted(c) /\ Return(c)
  /\ UNCHANGED <<storage, answers, faults>>

\* A call fails with no effect and the handler throws, or its process dies
\* before the call.
Fail(c) ==
  /\ pc[c] # "idle"
  /\ faults < MaxFaults /\ faults' = faults + 1
  /\ Return(c)
  /\ UNCHANGED <<rows, storage, answers>>

\* The call has its effect and the answer never comes: the process dies, and
\* cleans up nothing, or the handler throws.
LoseAnswer(c) ==
  /\ faults < MaxFaults /\ faults' = faults + 1
  /\ Return(c)
  /\ \/ /\ pc[c] = "create" /\ upload' = [upload EXCEPT ![file[c]] = "open"]
        /\ UNCHANGED rows
     \/ (NewRow(c) \/ MarkCompleted(c)) /\ UNCHANGED upload
  /\ UNCHANGED <<parts, object, answers>>

IntentStep(c) ==
  \/ LookupKey(c) \/ CreateUpload(c) \/ InsertRow(c)
  \/ InsertConflict(c) \/ AbortUpload(c) \/ Reread(c) \/ Cleanup(c)

CommitStep(c) ==
  \/ ReadRow(c) \/ ListParts(c) \/ CompleteUpload(c) \/ HeadObject(c)
  \/ CompleteRow(c)

Next ==
  \/ \E c \in Call, k \in Key \cup {None}, f \in File, big \in BOOLEAN :
       StartIntent(c, k, f, big)
  \/ \E f \in File, n \in Part, b \in Bytes : PutPart(f, n, b)
  \/ \E f \in File, b \in Bytes : PutObject(f, b)
  \/ \E c \in Call, f \in File : StartCommit(c, f)
  \/ \E c \in Call : IntentStep(c) \/ CommitStep(c)
  \/ \E c \in Call : InsertFails(c) \/ Fail(c) \/ LoseAnswer(c)

Spec == Init /\ [][Next]_vars

\* Handlers run on; the client of a pending file keeps asking for its commit.
FairSpec ==
  /\ Spec
  /\ \A c \in Call : WF_vars(IntentStep(c)) /\ WF_vars(CommitStep(c))
  /\ \A f \in File :
       SF_vars(status[f] = "PENDING" /\ \E c \in Call : StartCommit(c, f))

-----------------------------------------------------------------------------
\* All the client owes has arrived.
Uploaded(f) ==
  IF f \in multipart THEN \A n \in Part : parts[f][n] = "good"
                     ELSE object[f] = "good"

\* files.service.ts, "подвійний тап": intents with one Idempotency-Key are
\* all answered with one file, whichever of them was first.
SameKeySameFile ==
  \A a, b \in answers : a[1] # None /\ a[1] = b[1] => a[2] = b[2]

\* No intent leaves a multipart upload nobody can complete: an open upload
\* without a row is being worked on, unless a call failed.
NoOrphanUpload ==
  faults = 0 =>
    \A f \in File : upload[f] = "open" /\ ~Row(f) => \E c \in Call : file[c] = f

\* migrations/Files: COMPLETED means that HeadObject saw the declared size. A
\* multipart file's bytes are moreover final by then; a single PUT can still be
\* repeated with its presigned URL, but the object does not go away.
CompletedIsStored ==
  \A f \in File :
    status[f] = "COMPLETED" =>
      /\ etag[f] = "good" /\ object[f] # "none"
      /\ f \in multipart => object[f] = etag[f] /\ upload[f] = "completed"

\* Assembly is final, so it happens only when every part is there in full: an
\* object put together from a short part could never be committed or mended,
\* and a part sent again between ListParts and the assembly is not lost.
AssembledIsWhole ==
  \A f \in File :
    upload[f] = "completed" => object[f] = "good" /\ Uploaded(f)

\* The storage holds what the rows and the uploads say it holds.
StoredIsWhole == CompletedIsStored /\ AssembledIsWhole

\* Whatever size an intent declared, the parts describe() lists obey S3's rules
\* (a part size within bounds, at most MAX_PARTS parts) and cover the file with
\* no gap and no overlap.
PlanIsSound == multipart # {} => EverySizeWithinLimits /\ EverySizeExact

\* commit() says of a commit that was cut off after it had assembled the object
\* that the next one completes the row: "HeadObject нижче все одно скаже правду".
AssembledGetsCompleted ==
  \A f \in File :
    status[f] = "PENDING" /\ upload[f] = "completed" ~> status[f] = "COMPLETED"

\* While no call was cut off, a file whose bytes have all arrived gets completed
\* when its client keeps committing (or sends other bytes): concurrent commits of
\* one file, and intents of the same key, do not keep each other from it.
UncutGetsCompleted ==
  \A f \in File :
    status[f] = "PENDING" /\ Uploaded(f) ~>
      status[f] = "COMPLETED" \/ ~Uploaded(f) \/ faults > 0

\* An intent at work has a file of its own that has no row yet; from its
\* CreateMultipartUpload to its INSERT the upload is open.
IntentOwns(c) ==
  pc[c] \in {"lookup", "create", "insert", "abort", "reread"} =>
    /\ file[c] \in File /\ ~Row(file[c])
    /\ \A d \in Call : d # c => file[d] # file[c]
    /\ pc[c] = "insert" /\ file[c] \in multipart => upload[file[c]] = "open"

\* An intent that cleans up has opened an upload. Whether there is a row, and what
\* has become of the upload meanwhile, it does not know.
CleanupKnows(c) ==
  pc[c] = "cleanup" => file[c] \in File \cap multipart /\ upload[file[c]] # "none"

\* A commit works on a row. Past the assembly the upload is over: completed, unless
\* the intent that lost the answer of its INSERT has aborted it.
CommitKnows(c) ==
  pc[c] \in {"read", "list", "complete", "head", "update"} =>
    /\ file[c] \in File /\ Row(file[c])
    /\ pc[c] \in {"list", "complete"} => file[c] \in multipart
    /\ pc[c] = "head" /\ file[c] \in multipart => upload[file[c]] \in {"completed", "aborted"}
    /\ pc[c] = "update" /\ file[c] \in multipart => upload[file[c]] = "completed"
    /\ pc[c] = "update" => head[c] = "good" /\ object[file[c]] # "none"

\* A key names one row at most, and every answer given names that row.
KeysAgree ==
  /\ \A f, g \in File :
       Row(f) /\ Row(g) /\ rowKey[f] # None /\ rowKey[f] = rowKey[g] => f = g
  /\ \A a \in answers : a[1] # None => Row(a[2]) /\ rowKey[a[2]] = a[1]

\* A multipart row was inserted with an upload, and only the assembly of the upload
\* makes an object of a multipart file.
UploadsMatch ==
  \A f \in File :
    /\ Row(f) /\ f \in multipart => upload[f] # "none"
    /\ upload[f] = "completed" => f \in multipart
    /\ object[f] # "none" => Row(f) /\ (f \in multipart => upload[f] = "completed")

\* The inductive invariant.
IInv ==
  /\ TypeOK
  /\ \A c \in Call : IntentOwns(c) /\ CleanupKnows(c) /\ CommitKnows(c)
  /\ UploadsMatch
  /\ AssembledIsWhole
  /\ CompletedIsStored
  /\ KeysAgree

\* While no call has failed, an open upload without a row is some intent's, which
\* will insert the row or abort the upload; only multipart files have uploads.
UploadsOwned ==
  /\ \A f \in File : upload[f] # "none" => f \in multipart
  /\ \A c \in Call : pc[c] \in {"create", "abort"} => file[c] \in multipart
  /\ faults = 0 =>
       \A f \in File : upload[f] = "open" /\ ~Row(f) =>
         \E c \in Call : file[c] = f /\ pc[c] \in {"insert", "abort"}
==============================================================================
