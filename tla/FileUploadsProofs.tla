------------------------- MODULE FileUploadsProofs -------------------------
(***************************************************************************)
(* Proofs about FileUploads, for any number of files, keys, parts, handlers*)
(* and faults: repeated intents agree, assembly is whole, a completed file *)
(* is stored.                                                              *)
(***************************************************************************)
EXTENDS FileUploads, TLAPS

\* The starting state satisfies the inductive invariant.
LEMMA InitIInv == Init => IInv
  BY FileUploadsAssumption
  DEF Init, IInv, TypeOK, Bytes, IntentOwns, CommitKnows, CleanupKnows, Row, AssembledIsWhole,
      CompletedIsStored, KeysAgree, UploadsMatch

\* A handler that returns leaves every other handler with its file.
LEMMA ReturnFacts ==
  ASSUME IInv, NEW c \in Call, Return(c)
  PROVE  /\ pc' \in [Call -> {"idle", "lookup", "create", "insert", "abort",
                    "reread", "cleanup", "read", "list", "complete", "head", "update"}]
         /\ file' \in [Call -> File \cup {None}]
         /\ key' \in [Call -> Key \cup {None}]
         /\ head' \in [Call -> Bytes]
         /\ pc'[c] = "idle" /\ file'[c] = None
         /\ \A d \in Call : d # c => /\ pc'[d] = pc[d] /\ file'[d] = file[d]
                                     /\ head'[d] = head[d]
  BY DEF IInv, TypeOK, Bytes, Return

\* A handler that returns and changes neither rows nor storage.
LEMMA ReturnPreserves ==
  ASSUME IInv, NEW c \in Call, Return(c), UNCHANGED <<rows, storage, answers>>,
         faults' \in 0..MaxFaults
  PROVE  IInv'
  <1>1. TypeOK'
    BY ReturnFacts DEF IInv, TypeOK, rows, storage
  <1>2. AssembledIsWhole' /\ CompletedIsStored' /\ KeysAgree' /\ UploadsMatch'
    BY DEF IInv, UploadsMatch, AssembledIsWhole, CompletedIsStored, KeysAgree, Row, Uploaded,
           rows, storage
  <1>3. \A d \in Call : IntentOwns(d)'
    <2> SUFFICES ASSUME NEW d \in Call,
                        pc'[d] \in {"lookup", "create", "insert", "abort", "reread"}
                 PROVE  IntentOwns(d)'
      BY DEF IntentOwns
    <2>1. d # c /\ file'[d] = file[d] /\ pc'[d] = pc[d]
      BY ReturnFacts DEF Describe
    <2>2. file[d] \in File /\ file[d] # None
      BY <2>1, FileUploadsAssumption DEF IInv, IntentOwns
    <2>3. \A e \in Call : e # d => file'[e] # file[d]
      BY <2>1, <2>2, ReturnFacts DEF IInv, IntentOwns, Describe
    <2> QED BY <2>1, <2>2, <2>3 DEF IInv, IntentOwns, Row, rows, storage
  <1>4. \A d \in Call : CommitKnows(d)' /\ CleanupKnows(d)'
    BY ReturnFacts DEF IInv, CommitKnows, CleanupKnows, Row, rows, storage
  <1> QED BY <1>1, <1>2, <1>3, <1>4 DEF IInv, Row, rows, storage

\* A handler that moves on to its next call and changes nothing else.
LEMMA MovePreserves ==
  ASSUME IInv, NEW c \in Call,
         NEW where \in {"create", "insert", "abort", "reread", "cleanup", "list",
                        "complete", "head"},
         Goto(c, where), UNCHANGED <<rows, storage, file, key, head, answers>>,
         faults' \in 0..MaxFaults,
         IntentOwns(c)', CommitKnows(c)', CleanupKnows(c)'
  PROVE  IInv'
  <1>1. TypeOK'
    BY DEF IInv, TypeOK, Goto, rows, storage
  <1>2. AssembledIsWhole' /\ CompletedIsStored' /\ KeysAgree' /\ UploadsMatch'
    BY DEF IInv, UploadsMatch, AssembledIsWhole, CompletedIsStored, KeysAgree, Row, Uploaded,
           rows, storage
  <1>3. \A d \in Call : IntentOwns(d)'
    BY DEF IInv, TypeOK, IntentOwns, Row, Goto, rows, storage
  <1>4. \A d \in Call : CommitKnows(d)' /\ CleanupKnows(d)'
    BY DEF IInv, TypeOK, CommitKnows, CleanupKnows, Row, Goto, rows, storage
  <1> QED BY <1>1, <1>2, <1>3, <1>4 DEF IInv, Row, rows, storage

\* intent is called with an id nobody has.
LEMMA StartIntentPreserves ==
  ASSUME IInv, NEW c \in Call, NEW k \in Key \cup {None}, NEW f \in File,
         NEW big \in BOOLEAN, StartIntent(c, k, f, big)
  PROVE  IInv'
  <1>1. /\ ~Row(f) /\ upload[f] = "none" /\ \A d \in Call : file[d] # f
        /\ status[f] = "absent"
    BY DEF StartIntent, Fresh, Row
  <1>2. TypeOK'
    BY DEF IInv, TypeOK, StartIntent, Goto, storage
  <1>3. \A g \in File : g # f => (g \in multipart' <=> g \in multipart)
    BY DEF StartIntent
  <1>4. AssembledIsWhole' /\ CompletedIsStored' /\ KeysAgree' /\ UploadsMatch'
    BY <1>1, <1>3
    DEF IInv, UploadsMatch, AssembledIsWhole, CompletedIsStored, KeysAgree, Row, Uploaded,
        StartIntent, storage
  <1>5. \A d \in Call : IntentOwns(d)'
    BY <1>1, <1>3 DEF IInv, TypeOK, IntentOwns, Row, StartIntent, Goto, storage
  <1>6. \A d \in Call : CommitKnows(d)' /\ CleanupKnows(d)'
    BY <1>1, <1>3 DEF IInv, TypeOK, CommitKnows, CleanupKnows, Row, StartIntent, Goto, storage
  <1> QED
    BY <1>1, <1>2, <1>3, <1>4, <1>5, <1>6 DEF IInv, Row, StartIntent, storage

\* An answer names the row of its key.
LEMMA DescribePreserves ==
  ASSUME IInv, NEW c \in Call, NEW f \in Owner(key[c]), Describe(c, f),
         UNCHANGED <<rows, storage, faults>>
  PROVE  IInv'
  <1>1. f \in File /\ Row(f) /\ rowKey[f] = key[c]
    BY DEF Owner
  <1>2. TypeOK'
    BY <1>1, ReturnFacts DEF IInv, TypeOK, Describe, rows, storage
  <1>3. KeysAgree'
    BY <1>1 DEF IInv, KeysAgree, Row, Describe, rows
  <1>4. AssembledIsWhole' /\ CompletedIsStored' /\ UploadsMatch'
    BY DEF IInv, UploadsMatch, AssembledIsWhole, CompletedIsStored, Uploaded, Row, rows, storage
  <1>5. \A d \in Call : IntentOwns(d)'
    <2> SUFFICES ASSUME NEW d \in Call,
                        pc'[d] \in {"lookup", "create", "insert", "abort", "reread"}
                 PROVE  IntentOwns(d)'
      BY DEF IntentOwns
    <2>1. d # c /\ file'[d] = file[d] /\ pc'[d] = pc[d]
      BY ReturnFacts DEF Describe
    <2>2. file[d] \in File /\ file[d] # None
      BY <2>1, FileUploadsAssumption DEF IInv, IntentOwns
    <2>3. \A e \in Call : e # d => file'[e] # file[d]
      BY <2>1, <2>2, ReturnFacts DEF IInv, IntentOwns, Describe
    <2> QED BY <2>1, <2>2, <2>3 DEF IInv, IntentOwns, Row, rows, storage
  <1>6. \A d \in Call : CommitKnows(d)' /\ CleanupKnows(d)'
    BY ReturnFacts DEF IInv, CommitKnows, CleanupKnows, Row, Describe, rows, storage
  <1> QED BY <1>2, <1>3, <1>4, <1>5, <1>6 DEF IInv, Row, rows, storage

\* The INSERT that wins makes its file the only one of its key, whether its answer
\* arrives or not: the handler returns, or goes on to clean up.
LEMMA NewRowPreserves ==
  ASSUME IInv, NEW c \in Call, NewRow(c), UNCHANGED storage, faults' \in 0..MaxFaults,
         answers' \in {answers, answers \cup {<<key[c], file[c]>>}},
         \/ Return(c)
         \/ /\ Goto(c, "cleanup") /\ file[c] \in multipart
            /\ UNCHANGED <<file, key, head>>
  PROVE  IInv'
  <1>0. PICK f \in File : f = file[c]
    BY DEF IInv, IntentOwns, NewRow
  <1>1. /\ ~Row(f) /\ \A d \in Call : d # c => file[d] # f
        /\ f \in multipart => upload[f] = "open"
    BY <1>0 DEF IInv, IntentOwns, NewRow
  <1>2. /\ status' = [status EXCEPT ![f] = "PENDING"]
        /\ rowKey' = [rowKey EXCEPT ![f] = key[c]]
        /\ answers' \in {answers, answers \cup {<<key[c], f>>}}
        /\ Owner(key[c]) = {}
        /\ UNCHANGED <<multipart, etag, upload, parts, object>>
    BY <1>0 DEF NewRow, storage
  <1>3. \A g \in File : g # f => (Row(g)' <=> Row(g)) /\ rowKey'[g] = rowKey[g]
    BY <1>1, <1>2 DEF IInv, TypeOK, Row
  <1>4. Row(f)' /\ rowKey'[f] = key[c] /\ status'[f] = "PENDING"
    BY <1>1, <1>2 DEF IInv, TypeOK, Row
  <1>5. /\ pc' \in [Call -> {"idle", "lookup", "create", "insert", "abort",
                    "reread", "cleanup", "read", "list", "complete", "head", "update"}]
        /\ file' \in [Call -> File \cup {None}]
        /\ key' \in [Call -> Key \cup {None}] /\ head' \in [Call -> Bytes]
        /\ \A d \in Call : d # c => /\ pc'[d] = pc[d] /\ file'[d] = file[d]
                                    /\ head'[d] = head[d]
        /\ \/ pc'[c] = "idle" /\ file'[c] = None
           \/ pc'[c] = "cleanup" /\ file'[c] = f /\ f \in multipart
    <2>1. CASE Return(c)
      BY <2>1, ReturnFacts
    <2>2. CASE /\ Goto(c, "cleanup") /\ file[c] \in multipart
               /\ UNCHANGED <<file, key, head>>
      BY <1>0, <2>2 DEF IInv, TypeOK, Goto
    <2> QED BY <2>1, <2>2
  <1>6. TypeOK'
    BY <1>1, <1>2, <1>5 DEF IInv, TypeOK
  <1>7. KeysAgree'
    <2>1. key[c] # None => \A g \in File : Row(g) => rowKey[g] # key[c]
      BY <1>2 DEF Owner
    <2>2. \A a \in answers : a[2] \in File
      BY DEF IInv, TypeOK
    <2>3. \A a \in answers' : a[1] # None => Row(a[2])' /\ rowKey'[a[2]] = a[1]
      BY <1>1, <1>2, <1>3, <1>4, <2>2 DEF IInv, KeysAgree
    <2>4. \A g, h \in File :
            Row(g)' /\ Row(h)' /\ rowKey'[g] # None /\ rowKey'[g] = rowKey'[h] => g = h
      BY <1>1, <1>3, <1>4, <2>1 DEF IInv, KeysAgree
    <2> QED BY <2>3, <2>4 DEF KeysAgree
  <1>8. AssembledIsWhole'
    BY <1>2 DEF IInv, AssembledIsWhole, Uploaded
  <1>9. CompletedIsStored'
    BY <1>1, <1>2 DEF IInv, TypeOK, CompletedIsStored
  <1>10. UploadsMatch'
    BY <1>1, <1>2, <1>3, <1>4 DEF IInv, UploadsMatch
  <1>11. \A d \in Call : IntentOwns(d)'
    <2> SUFFICES ASSUME NEW d \in Call,
                        pc'[d] \in {"lookup", "create", "insert", "abort", "reread"}
                 PROVE  IntentOwns(d)'
      BY DEF IntentOwns
    <2>1. d # c /\ file'[d] = file[d] /\ pc'[d] = pc[d]
      BY <1>5
    <2>2. file[d] \in File /\ file[d] # None /\ file[d] # f
      BY <1>1, <2>1, FileUploadsAssumption DEF IInv, IntentOwns
    <2>3. \A e \in Call : e # d => file'[e] # file[d]
      BY <1>5, <2>1, <2>2 DEF IInv, IntentOwns
    <2> QED BY <1>2, <1>3, <2>1, <2>2, <2>3 DEF IInv, IntentOwns
  <1>12. \A d \in Call : CommitKnows(d)' /\ CleanupKnows(d)'
    BY <1>1, <1>2, <1>3, <1>5 DEF IInv, CommitKnows, CleanupKnows
  <1> QED
    BY <1>6, <1>7, <1>8, <1>9, <1>10, <1>11, <1>12 DEF IInv

\* An upload is opened or aborted only for a file without a row.
LEMMA UploadPreserves ==
  ASSUME IInv, NEW c \in Call, CreateUpload(c) \/ AbortUpload(c)
  PROVE  IInv'
  <1>0. PICK f \in File : f = file[c]
    BY DEF IInv, IntentOwns, CreateUpload, AbortUpload
  <1>1. ~Row(f) /\ \A d \in Call : d # c => file[d] # f
    BY <1>0 DEF IInv, IntentOwns, CreateUpload, AbortUpload
  <1>2. /\ UNCHANGED <<rows, object, file, key, head, answers>>
        /\ parts' \in [File -> [Part -> Bytes]]
        /\ \A g \in File : upload'[g] = "completed" => parts'[g] = parts[g]
        /\ upload' \in [File -> {"none", "open", "completed", "aborted"}]
        /\ \A g \in File : g # f => upload'[g] = upload[g]
        /\ upload'[f] = "completed" => upload[f] = "completed"
        /\ upload'[f] # "none" \/ upload[f] = "none"
        /\ pc' \in [Call -> {"idle", "lookup", "create", "insert", "abort",
                    "reread", "cleanup", "read", "list", "complete", "head", "update"}]
        /\ \A d \in Call : d # c => pc'[d] = pc[d]
        /\ pc'[c] \in {"insert", "reread"}
        /\ pc'[c] = "insert" => upload'[f] = "open"
        /\ faults' \in 0..MaxFaults
    <2>1. CASE CreateUpload(c)
      BY <1>0, <2>1 DEF IInv, TypeOK, CreateUpload, Goto
    <2>2. CASE AbortUpload(c)
      BY <1>0, <2>2, FileUploadsAssumption
      DEF IInv, TypeOK, AbortUpload, Abort, Bytes, Goto
    <2> QED BY <2>1, <2>2
  <1>3. TypeOK'
    BY <1>2 DEF IInv, TypeOK, rows
  <1>4. AssembledIsWhole' /\ CompletedIsStored' /\ KeysAgree' /\ UploadsMatch'
    BY <1>1, <1>2
    DEF IInv, UploadsMatch, AssembledIsWhole, CompletedIsStored, KeysAgree, Row, Uploaded, rows
  <1>5. \A d \in Call : IntentOwns(d)'
    <2>1. IntentOwns(c)'
      BY <1>0, <1>1, <1>2 DEF IntentOwns, Row, rows
    <2>2. ASSUME NEW d \in Call, d # c PROVE IntentOwns(d)'
      BY <1>0, <1>1, <1>2, <2>2 DEF IInv, IntentOwns, Row, rows
    <2> QED BY <2>1, <2>2
  <1>6. \A d \in Call : CommitKnows(d)' /\ CleanupKnows(d)'
    BY <1>0, <1>1, <1>2 DEF IInv, CommitKnows, CleanupKnows, Row, rows
  <1> QED
    BY <1>1, <1>2, <1>3, <1>4, <1>5, <1>6 DEF IInv, Row, rows

\* The client's bytes go to open uploads and to single objects.
LEMMA ClientPreserves ==
  ASSUME IInv, NEW f \in File, NEW b \in Bytes,
         (\E n \in Part : PutPart(f, n, b)) \/ PutObject(f, b)
  PROVE  IInv'
  <1>1. /\ UNCHANGED <<rows, upload, local, answers, faults>>
        /\ parts' \in [File -> [Part -> Bytes]] /\ object' \in [File -> Bytes]
        /\ \A g \in File : upload[g] = "completed" => parts'[g] = parts[g]
        /\ \A g \in multipart : object'[g] = object[g]
        /\ \A g \in File : object[g] # "none" => object'[g] # "none"
        /\ \A g \in File : object'[g] # object[g] => Row(g)
    <2>1. CASE PutObject(f, b)
      BY <2>1 DEF IInv, TypeOK, PutObject, Row
    <2>2. ASSUME NEW n \in Part, PutPart(f, n, b)
          PROVE  /\ UNCHANGED <<rows, upload, local, answers, faults, object>>
                 /\ parts' \in [File -> [Part -> Bytes]]
                 /\ \A g \in File : upload[g] = "completed" => parts'[g] = parts[g]
      BY <2>2 DEF IInv, TypeOK, PutPart
    <2> QED BY <2>1, <2>2 DEF IInv, TypeOK
  <1>2. TypeOK'
    BY <1>1 DEF IInv, TypeOK, rows, local
  <1>3. AssembledIsWhole'
    BY <1>1 DEF IInv, UploadsMatch, AssembledIsWhole, Uploaded, rows
  <1>4. CompletedIsStored' /\ KeysAgree' /\ UploadsMatch'
    BY <1>1 DEF IInv, UploadsMatch, CompletedIsStored, KeysAgree, Row, rows
  <1>5. \A d \in Call : IntentOwns(d)' /\ CommitKnows(d)' /\ CleanupKnows(d)'
    BY <1>1 DEF IInv, IntentOwns, CommitKnows, CleanupKnows, Row, rows, local
  <1> QED BY <1>1, <1>2, <1>3, <1>4, <1>5 DEF IInv, Row, rows

\* commit is called for a file that has a row, so no intent owns it.
LEMMA StartCommitPreserves ==
  ASSUME IInv, NEW c \in Call, NEW f \in File, StartCommit(c, f)
  PROVE  IInv'
  <1>1. /\ Row(f) /\ UNCHANGED <<rows, storage, key, head, answers, faults>>
        /\ pc' = [pc EXCEPT ![c] = "read"] /\ file' = [file EXCEPT ![c] = f]
    BY DEF StartCommit, Goto
  <1>2. TypeOK'
    BY <1>1 DEF IInv, TypeOK, rows, storage
  <1>3. AssembledIsWhole' /\ CompletedIsStored' /\ KeysAgree' /\ UploadsMatch'
    BY <1>1 DEF IInv, UploadsMatch, AssembledIsWhole, CompletedIsStored, KeysAgree, Row, Uploaded,
                rows, storage
  <1>4. \A d \in Call : IntentOwns(d)'
    BY <1>1 DEF IInv, TypeOK, IntentOwns, Row, rows, storage
  <1>5. \A d \in Call : CommitKnows(d)' /\ CleanupKnows(d)'
    BY <1>1 DEF IInv, TypeOK, CommitKnows, CleanupKnows, Row, rows, storage
  <1> QED BY <1>1, <1>2, <1>3, <1>4, <1>5 DEF IInv, Row, rows, storage

\* The catch that aborts an upload leaves an assembled one alone.
LEMMA CleanupPreserves ==
  ASSUME IInv, NEW c \in Call, Cleanup(c)
  PROVE  IInv'
  <1>0. PICK f \in File : f = file[c]
    BY DEF IInv, CleanupKnows, Cleanup
  <1>1. f \in multipart /\ upload[f] # "none" /\ pc[c] = "cleanup"
    BY <1>0 DEF IInv, CleanupKnows, Cleanup
  <1>2. /\ UNCHANGED <<rows, object, answers>> /\ Return(c) /\ faults' \in 0..MaxFaults
        /\ parts' \in [File -> [Part -> Bytes]]
        /\ upload' \in [File -> {"none", "open", "completed", "aborted"}]
        /\ \A g \in File : g # f => upload'[g] = upload[g] /\ parts'[g] = parts[g]
        /\ \/ upload'[f] = upload[f] /\ parts'[f] = parts[f]
           \/ upload[f] = "open" /\ upload'[f] = "aborted"
    BY <1>0, FileUploadsAssumption DEF IInv, TypeOK, Cleanup, Abort, Bytes
  <1>3. TypeOK'
    BY <1>2, ReturnFacts DEF IInv, TypeOK, rows
  <1>4. AssembledIsWhole' /\ CompletedIsStored' /\ KeysAgree' /\ UploadsMatch'
    BY <1>1, <1>2
    DEF IInv, UploadsMatch, AssembledIsWhole, CompletedIsStored, KeysAgree, Row, Uploaded, rows
  <1>5. \A d \in Call : IntentOwns(d)'
    <2> SUFFICES ASSUME NEW d \in Call,
                        pc'[d] \in {"lookup", "create", "insert", "abort", "reread"}
                 PROVE  IntentOwns(d)'
      BY DEF IntentOwns
    <2>1. d # c /\ file'[d] = file[d] /\ pc'[d] = pc[d]
      BY <1>2, ReturnFacts
    <2>2. file[d] \in File /\ file[d] # None /\ file[d] # f
      BY <1>0, <2>1, FileUploadsAssumption DEF IInv, IntentOwns
    <2>3. \A e \in Call : e # d => file'[e] # file[d]
      BY <1>2, <2>1, <2>2, ReturnFacts DEF IInv, IntentOwns
    <2> QED BY <1>2, <2>1, <2>2, <2>3 DEF IInv, IntentOwns, Row, rows
  <1>6. \A d \in Call : CommitKnows(d)' /\ CleanupKnows(d)'
    BY <1>1, <1>2, ReturnFacts DEF IInv, CommitKnows, CleanupKnows, Row, rows
  <1> QED BY <1>3, <1>4, <1>5, <1>6 DEF IInv

\* The steps of an intent.
LEMMA IntentPreserves ==
  ASSUME IInv, NEW c \in Call, IntentStep(c)
  PROVE  IInv'
  <1>1. CASE LookupKey(c)
    <2>1. CASE \E f \in Owner(key[c]) : Describe(c, f)
      BY <1>1, <2>1, DescribePreserves DEF LookupKey
    <2>2. CASE /\ Goto(c, IF file[c] \in multipart THEN "create" ELSE "insert")
               /\ UNCHANGED <<file, key, head, answers>>
      <3>1. /\ faults' \in 0..MaxFaults
            /\ UNCHANGED <<rows, storage, file, key, head, answers>>
        BY <1>1, <2>2 DEF IInv, TypeOK, LookupKey
      <3>2. IntentOwns(c)' /\ CommitKnows(c)' /\ CleanupKnows(c)'
        BY <1>1, <2>2, <3>1
        DEF IInv, TypeOK, IntentOwns, CommitKnows, CleanupKnows, Row, LookupKey, Goto, rows, storage
      <3> QED BY <2>2, <3>1, <3>2, MovePreserves
    <2> QED BY <1>1, <2>1, <2>2 DEF LookupKey
  <1>2. CASE CreateUpload(c) \/ AbortUpload(c)
    BY <1>2, UploadPreserves
  <1>3. CASE InsertRow(c)
    BY <1>3, NewRowPreserves DEF InsertRow, Describe, IInv, TypeOK
  <1>4. CASE InsertConflict(c)
    <2>1. /\ faults' \in 0..MaxFaults
          /\ UNCHANGED <<rows, storage, file, key, head, answers>>
      BY <1>4 DEF IInv, TypeOK, InsertConflict
    <2>2. IntentOwns(c)' /\ CommitKnows(c)' /\ CleanupKnows(c)'
      BY <1>4, <2>1
      DEF IInv, TypeOK, IntentOwns, CommitKnows, CleanupKnows, Row, InsertConflict, Goto, rows,
          storage
    <2> QED BY <1>4, <2>1, <2>2, MovePreserves DEF InsertConflict
  <1>5. CASE Reread(c)
    BY <1>5, DescribePreserves DEF Reread
  <1>6. CASE Cleanup(c)
    BY <1>6, CleanupPreserves
  <1> QED BY <1>1, <1>2, <1>3, <1>4, <1>5, <1>6 DEF IntentStep

\* CompleteMultipartUpload assembles good parts or nothing.
LEMMA CompleteUploadPreserves ==
  ASSUME IInv, NEW c \in Call, CompleteUpload(c)
  PROVE  IInv'
  <1>0. PICK f \in File : f = file[c]
    BY DEF IInv, CommitKnows, CleanupKnows, CompleteUpload
  <1>1. Row(f) /\ f \in multipart /\ pc[c] = "complete"
    BY <1>0 DEF IInv, CommitKnows, CleanupKnows, CompleteUpload
  <1>2. CASE /\ upload[f] = "open" /\ \E n \in Part : parts[f][n] # "good"
             /\ Return(c) /\ UNCHANGED <<upload, object, faults>>
    <2>1. UNCHANGED <<rows, storage, answers>> /\ faults' \in 0..MaxFaults
      BY <1>2 DEF IInv, TypeOK, CompleteUpload, storage
    <2> QED BY <1>2, <2>1, ReturnPreserves
  <1>3. CASE /\ upload[f] # "open" /\ Goto(c, "head")
             /\ UNCHANGED <<upload, object, file, key, head, faults>>
    <2>1. /\ faults' \in 0..MaxFaults
          /\ UNCHANGED <<rows, storage, file, key, head, answers>>
      BY <1>3 DEF IInv, TypeOK, CompleteUpload, storage
    <2>2. upload[f] \in {"completed", "aborted"}
      BY <1>1, <1>3 DEF IInv, TypeOK, UploadsMatch
    <2>3. IntentOwns(c)' /\ CommitKnows(c)' /\ CleanupKnows(c)'
      BY <1>0, <1>1, <1>3, <2>1, <2>2
      DEF IInv, TypeOK, IntentOwns, CommitKnows, CleanupKnows, Row, Goto, rows, storage
    <2> QED BY <1>3, <2>1, <2>3, MovePreserves
  <1>4. CASE /\ upload[f] = "open" /\ \A n \in Part : parts[f][n] = "good"
             /\ upload' = [upload EXCEPT ![f] = "completed"]
             /\ object' = [object EXCEPT ![f] = "good"]
             /\ \/ Goto(c, "head") /\ UNCHANGED <<file, key, head, faults>>
                \/ faults < MaxFaults /\ faults' = faults + 1 /\ Return(c)
    <2>1. UNCHANGED <<rows, parts, answers>>
      BY DEF CompleteUpload
    <2>2. /\ pc' \in [Call -> {"idle", "lookup", "create", "insert", "abort",
                      "reread", "cleanup", "read", "list", "complete", "head", "update"}]
          /\ file' \in [Call -> File \cup {None}]
          /\ key' \in [Call -> Key \cup {None}] /\ head' \in [Call -> Bytes]
          /\ faults' \in 0..MaxFaults
          /\ \A d \in Call : d # c => /\ pc'[d] = pc[d] /\ file'[d] = file[d]
                                      /\ head'[d] = head[d]
          /\ \/ pc'[c] = "head" /\ file'[c] = f
             \/ pc'[c] = "idle" /\ file'[c] = None
      <3>1. CASE Goto(c, "head") /\ UNCHANGED <<file, key, head, faults>>
        BY <1>0, <3>1 DEF IInv, TypeOK, Goto
      <3>2. CASE faults < MaxFaults /\ faults' = faults + 1 /\ Return(c)
        BY <3>2, ReturnFacts, FileUploadsAssumption DEF IInv, TypeOK
      <3> QED BY <1>4, <3>1, <3>2
    <2>3. TypeOK'
      BY <1>4, <2>1, <2>2 DEF IInv, TypeOK, Bytes, rows
    <2>4. AssembledIsWhole' /\ CompletedIsStored' /\ KeysAgree' /\ UploadsMatch'
      BY <1>1, <1>4, <2>1
      DEF IInv, TypeOK, UploadsMatch, AssembledIsWhole, CompletedIsStored, KeysAgree, Row,
          Uploaded, rows
    <2>5. \A d \in Call : IntentOwns(d)'
      <3> SUFFICES ASSUME NEW d \in Call,
                          pc'[d] \in {"lookup", "create", "insert", "abort", "reread"}
                   PROVE  IntentOwns(d)'
        BY DEF IntentOwns
      <3>1. d # c /\ file'[d] = file[d] /\ pc'[d] = pc[d]
        BY <2>2
      <3>2. file[d] \in File /\ file[d] # None /\ file[d] # f
        BY <1>1, <3>1, FileUploadsAssumption DEF IInv, IntentOwns
      <3>3. \A e \in Call : e # d => file'[e] # file[d]
        BY <2>2, <3>1, <3>2 DEF IInv, IntentOwns
      <3> QED
        BY <1>4, <2>1, <3>1, <3>2, <3>3 DEF IInv, TypeOK, IntentOwns, Row, rows
    <2>6. \A d \in Call : CommitKnows(d)' /\ CleanupKnows(d)'
      BY <1>0, <1>1, <1>4, <2>1, <2>2 DEF IInv, TypeOK, CommitKnows, CleanupKnows, Row, rows
    <2> QED
      BY <1>1, <1>4, <2>1, <2>3, <2>4, <2>5, <2>6 DEF IInv, TypeOK, Row, rows
  <1> QED BY <1>0, <1>2, <1>3, <1>4 DEF CompleteUpload

\* What HeadObject saw is what the UPDATE records.
LEMMA HeadPreserves ==
  ASSUME IInv, NEW c \in Call, HeadObject(c)
  PROVE  IInv'
  <1>1. CASE object[file[c]] # "good"
    <2>1. UNCHANGED <<rows, storage, answers>> /\ faults' \in 0..MaxFaults
      BY DEF IInv, TypeOK, HeadObject
    <2> QED BY <1>1, <2>1, ReturnPreserves DEF HeadObject
  <1>2. CASE object[file[c]] = "good"
    <2>1. /\ UNCHANGED <<rows, storage, file, key, answers, faults>>
          /\ head' = [head EXCEPT ![c] = "good"]
          /\ pc' = [pc EXCEPT ![c] = "update"] /\ pc[c] = "head"
      BY <1>2 DEF HeadObject, Goto
    <2>2. TypeOK'
      BY <2>1 DEF IInv, TypeOK, Bytes, rows, storage
    <2>3. AssembledIsWhole' /\ CompletedIsStored' /\ KeysAgree' /\ UploadsMatch'
      BY <2>1
      DEF IInv, UploadsMatch, AssembledIsWhole, CompletedIsStored, KeysAgree, Row, Uploaded, rows,
          storage
    <2>4. \A d \in Call : IntentOwns(d)'
      BY <2>1 DEF IInv, TypeOK, IntentOwns, Row, rows, storage
    <2>5. \A d \in Call : CommitKnows(d)' /\ CleanupKnows(d)'
      BY <1>2, <2>1
      DEF IInv, TypeOK, CommitKnows, CleanupKnows, UploadsMatch, Row, rows, storage
    <2> QED BY <2>1, <2>2, <2>3, <2>4, <2>5 DEF IInv, Row, rows, storage
  <1> QED BY <1>1, <1>2

\* The row is completed with the size HeadObject saw.
LEMMA MarkCompletedPreserves ==
  ASSUME IInv, NEW c \in Call, MarkCompleted(c), Return(c),
         UNCHANGED <<storage, answers>>, faults' \in 0..MaxFaults
  PROVE  IInv'
  <1>0. PICK f \in File : f = file[c]
    BY DEF IInv, CommitKnows, MarkCompleted
  <1>1. /\ Row(f) /\ head[c] = "good" /\ object[f] # "none"
        /\ f \in multipart => upload[f] = "completed"
    BY <1>0 DEF IInv, CommitKnows, MarkCompleted
  <1>2. /\ status' = [status EXCEPT ![f] = "COMPLETED"]
        /\ etag' = [etag EXCEPT ![f] = "good"] /\ Return(c)
        /\ UNCHANGED <<rowKey, multipart, storage, answers>>
    BY <1>0, <1>1 DEF MarkCompleted
  <1>3. \A g \in File : Row(g)' <=> Row(g)
    BY <1>1, <1>2 DEF IInv, TypeOK, Row
  <1>4. TypeOK'
    BY <1>2, ReturnFacts DEF IInv, TypeOK, Bytes, storage
  <1>5. AssembledIsWhole' /\ CompletedIsStored' /\ UploadsMatch'
    BY <1>1, <1>2, <1>3
    DEF IInv, TypeOK, AssembledIsWhole, CompletedIsStored, UploadsMatch, Uploaded, storage
  <1>6. KeysAgree'
    <2>1. \A a \in answers : a[2] \in File
      BY DEF IInv, TypeOK
    <2> QED BY <1>2, <1>3, <2>1 DEF IInv, KeysAgree
  <1>7. \A d \in Call : IntentOwns(d)'
    <2> SUFFICES ASSUME NEW d \in Call,
                        pc'[d] \in {"lookup", "create", "insert", "abort", "reread"}
                 PROVE  IntentOwns(d)'
      BY DEF IntentOwns
    <2>1. d # c /\ file'[d] = file[d] /\ pc'[d] = pc[d]
      BY <1>2, ReturnFacts
    <2>2. file[d] \in File /\ file[d] # None
      BY <2>1, FileUploadsAssumption DEF IInv, IntentOwns
    <2>3. \A e \in Call : e # d => file'[e] # file[d]
      BY <1>2, <2>1, <2>2, ReturnFacts DEF IInv, IntentOwns
    <2> QED BY <1>2, <1>3, <2>1, <2>2, <2>3 DEF IInv, IntentOwns, storage
  <1>8. \A d \in Call : CommitKnows(d)' /\ CleanupKnows(d)'
    BY <1>2, <1>3, ReturnFacts DEF IInv, CommitKnows, CleanupKnows, storage
  <1> QED
    BY <1>2, <1>3, <1>4, <1>5, <1>6, <1>7, <1>8 DEF IInv, storage

\* The steps of a commit.
LEMMA CommitPreserves ==
  ASSUME IInv, NEW c \in Call, CommitStep(c)
  PROVE  IInv'
  <1>1. CASE ReadRow(c) \/ ListParts(c)
    <2>1. /\ UNCHANGED <<rows, storage, answers>> /\ faults' \in 0..MaxFaults
          /\ pc[c] \in {"read", "list"}
      BY <1>1 DEF IInv, TypeOK, ReadRow, ListParts
    <2>2. \/ Return(c)
          \/ \E where \in {"list", "head", "complete"} :
               /\ Goto(c, where) /\ UNCHANGED <<file, key, head>>
               /\ where = "head" => file[c] \notin multipart
               /\ where = "list" => file[c] \in multipart
               /\ where = "complete" => pc[c] = "list"
      BY <1>1 DEF ReadRow, ListParts
    <2>3. CASE Return(c)
      BY <2>1, <2>3, ReturnPreserves
    <2>4. ASSUME NEW where \in {"list", "head", "complete"}, Goto(c, where),
                 UNCHANGED <<file, key, head>>,
                 where = "head" => file[c] \notin multipart,
                 where \in {"list", "complete"} => file[c] \in multipart
          PROVE  IInv'
      <3>0. pc'[c] = where /\ file'[c] = file[c]
        BY <2>4 DEF IInv, TypeOK, Goto
      <3>1. IntentOwns(c)'
        BY <2>4, <3>0 DEF IntentOwns
      <3>2. CommitKnows(c)' /\ CleanupKnows(c)'
        BY <2>1, <2>4, <3>0 DEF IInv, CommitKnows, CleanupKnows, Row, rows, storage
      <3>3. UNCHANGED <<rows, storage, file, key, head, answers>>
        BY <2>1, <2>4
      <3>4. where \in {"create", "insert", "abort", "reread", "cleanup", "list",
                     "complete", "head"}
        OBVIOUS
      <3> QED BY <2>1, <2>4, <3>1, <3>2, <3>3, <3>4, MovePreserves
    <2>5. pc[c] = "list" => file[c] \in multipart
      BY DEF IInv, CommitKnows, CleanupKnows
    <2> QED BY <2>2, <2>3, <2>4, <2>5
  <1>2. CASE CompleteUpload(c)
    BY <1>2, CompleteUploadPreserves
  <1>3. CASE HeadObject(c)
    BY <1>3, HeadPreserves
  <1>4. CASE CompleteRow(c)
    BY <1>4, MarkCompletedPreserves DEF CompleteRow, IInv, TypeOK
  <1> QED BY <1>1, <1>2, <1>3, <1>4 DEF CommitStep

\* An upload is opened and its intent never learns of it.
LEMMA LostUploadPreserves ==
  ASSUME IInv, NEW c \in Call, pc[c] = "create", Return(c),
         upload' = [upload EXCEPT ![file[c]] = "open"],
         UNCHANGED <<rows, parts, object, answers>>, faults' \in 0..MaxFaults
  PROVE  IInv'
  <1>0. PICK f \in File : f = file[c]
    BY DEF IInv, IntentOwns
  <1>1. ~Row(f) /\ \A d \in Call : d # c => file[d] # f
    BY <1>0 DEF IInv, IntentOwns
  <1>2. /\ upload'[f] = "open"
        /\ \A g \in File : g # f => upload'[g] = upload[g]
    BY <1>0 DEF IInv, TypeOK
  <1>3. TypeOK'
    BY <1>0, ReturnFacts DEF IInv, TypeOK, rows
  <1>4. AssembledIsWhole' /\ CompletedIsStored' /\ KeysAgree' /\ UploadsMatch'
    BY <1>1, <1>2
    DEF IInv, UploadsMatch, AssembledIsWhole, CompletedIsStored, KeysAgree, Row, Uploaded, rows
  <1>5. \A d \in Call : IntentOwns(d)'
    <2> SUFFICES ASSUME NEW d \in Call,
                        pc'[d] \in {"lookup", "create", "insert", "abort", "reread"}
                 PROVE  IntentOwns(d)'
      BY DEF IntentOwns
    <2>1. d # c /\ file'[d] = file[d] /\ pc'[d] = pc[d]
      BY ReturnFacts
    <2>2. file[d] \in File /\ file[d] # None /\ file[d] # f
      BY <1>1, <2>1, FileUploadsAssumption DEF IInv, IntentOwns
    <2>3. \A e \in Call : e # d => file'[e] # file[d]
      BY <2>1, <2>2, ReturnFacts DEF IInv, IntentOwns
    <2> QED BY <1>2, <2>1, <2>2, <2>3 DEF IInv, IntentOwns, Row, rows
  <1>6. \A d \in Call : CommitKnows(d)' /\ CleanupKnows(d)'
    BY <1>1, <1>2, ReturnFacts DEF IInv, CommitKnows, CleanupKnows, Row, rows
  <1> QED BY <1>3, <1>4, <1>5, <1>6 DEF IInv

\* A call that fails, and a call that has its effect and whose answer is lost.
LEMMA FailPreserves ==
  ASSUME IInv, NEW c \in Call, InsertFails(c) \/ Fail(c) \/ LoseAnswer(c)
  PROVE  IInv'
  <1>1. faults' \in 0..MaxFaults /\ UNCHANGED answers
    BY FileUploadsAssumption DEF IInv, TypeOK, InsertFails, Fail, LoseAnswer
  <1>2. CASE InsertFails(c)
    <2>1. CASE NewRow(c)
      BY <1>1, <1>2, <2>1, NewRowPreserves DEF InsertFails
    <2>2. CASE UNCHANGED rows /\ file[c] \notin multipart
      BY <1>1, <1>2, <2>2, ReturnPreserves DEF InsertFails
    <2>3. CASE UNCHANGED rows /\ file[c] \in multipart
      <3>1. /\ UNCHANGED <<rows, storage, file, key, head, answers>>
            /\ Goto(c, "cleanup") /\ pc[c] = "insert"
        BY <1>2, <2>3 DEF InsertFails
      <3>2. IntentOwns(c)' /\ CommitKnows(c)' /\ CleanupKnows(c)'
        BY <2>3, <3>1
        DEF IInv, TypeOK, IntentOwns, CommitKnows, CleanupKnows, Row, Goto, rows, storage
      <3> QED BY <1>1, <3>1, <3>2, MovePreserves
    <2> QED BY <1>2, <2>1, <2>2, <2>3 DEF InsertFails
  <1>3. CASE Fail(c)
    BY <1>1, <1>3, ReturnPreserves DEF Fail
  <1>4. CASE LoseAnswer(c)
    <2>1. CASE /\ pc[c] = "create" /\ upload' = [upload EXCEPT ![file[c]] = "open"]
               /\ UNCHANGED rows
      BY <1>1, <1>4, <2>1, LostUploadPreserves DEF LoseAnswer
    <2>2. CASE NewRow(c) /\ UNCHANGED upload
      BY <1>1, <1>4, <2>2, NewRowPreserves DEF LoseAnswer, storage
    <2>3. CASE MarkCompleted(c) /\ UNCHANGED upload
      BY <1>1, <1>4, <2>3, MarkCompletedPreserves DEF LoseAnswer, storage
    <2> QED BY <1>4, <2>1, <2>2, <2>3 DEF LoseAnswer
  <1> QED BY <1>2, <1>3, <1>4

\* Every step of the specification keeps the inductive invariant.
LEMMA NextIInv ==
  ASSUME IInv, [Next]_vars
  PROVE  IInv'
  <1>1. CASE \E c \in Call, k \in Key \cup {None}, f \in File, big \in BOOLEAN :
               StartIntent(c, k, f, big)
    BY <1>1, StartIntentPreserves
  <1>2. CASE \/ \E f \in File, n \in Part, b \in Bytes : PutPart(f, n, b)
             \/ \E f \in File, b \in Bytes : PutObject(f, b)
    BY <1>2, ClientPreserves
  <1>3. CASE \E c \in Call, f \in File : StartCommit(c, f)
    BY <1>3, StartCommitPreserves
  <1>4. CASE \E c \in Call : \/ IntentStep(c) \/ CommitStep(c)
                              \/ InsertFails(c) \/ Fail(c) \/ LoseAnswer(c)
    BY <1>4, IntentPreserves, CommitPreserves, FailPreserves
  <1>5. CASE UNCHANGED vars
    BY <1>5
    DEF vars, rows, storage, local, IInv, TypeOK, IntentOwns, CommitKnows, CleanupKnows, Row,
        AssembledIsWhole, CompletedIsStored, KeysAgree, UploadsMatch, Uploaded
  <1> QED BY <1>1, <1>2, <1>3, <1>4, <1>5 DEF Next

\* The inductive invariant holds in every reachable state.
THEOREM FilesInvariant == Spec => []IInv
  BY InitIInv, NextIInv, PTL DEF Spec

\* Intents with one Idempotency-Key are answered with one file (intent,
\* files.service.ts).
THEOREM FilesSameKeySameFile == Spec => []SameKeySameFile
  <1>1. IInv => SameKeySameFile
    BY DEF IInv, TypeOK, KeysAgree, SameKeySameFile
  <1> QED BY <1>1, FilesInvariant, PTL

\* A completed file is in the storage with the declared size, and a multipart
\* object is put together from all its parts (commit, files.service.ts).
THEOREM FilesStoredIsWhole == Spec => []StoredIsWhole
  <1>1. IInv => StoredIsWhole
    BY DEF IInv, StoredIsWhole
  <1> QED BY <1>1, FilesInvariant, PTL

-----------------------------------------------------------------------------
\* A step of handler c that opens no upload: its own upload stays in its care, has a
\* row, or is open no longer.
LEMMA OwnedStays ==
  ASSUME IInv, UploadsOwned, NEW c \in Call,
         \A d \in Call \ {c} : pc'[d] = pc[d] /\ file'[d] = file[d],
         UNCHANGED multipart,
         \A f \in File : /\ upload'[f] # "none" => f \in multipart
                         /\ upload'[f] = "open" => upload[f] = "open"
                         /\ Row(f) => Row(f)',
         pc'[c] \in {"create", "abort"} => file'[c] \in multipart,
         faults' = 0 =>
           /\ faults = 0
           /\ pc[c] \in {"insert", "abort"} =>
                \/ file'[c] = file[c] /\ pc'[c] \in {"insert", "abort"}
                \/ status'[file[c]] # "absent"
                \/ upload'[file[c]] # "open"
  PROVE  UploadsOwned'
  <1>1. \A d \in Call : pc'[d] \in {"create", "abort"} => file'[d] \in multipart'
    BY DEF UploadsOwned
  <1>2. ASSUME faults' = 0, NEW f \in File, upload'[f] = "open", ~Row(f)'
        PROVE  \E d \in Call : file'[d] = f /\ pc'[d] \in {"insert", "abort"}
    <2>1. upload[f] = "open" /\ ~Row(f) /\ faults = 0
      BY <1>2
    <2>2. PICK d \in Call : file[d] = f /\ pc[d] \in {"insert", "abort"}
      BY <2>1 DEF UploadsOwned
    <2>3. CASE d = c
      BY <1>2, <2>2, <2>3 DEF Row
    <2>4. CASE d # c
      BY <2>2, <2>4
    <2> QED BY <2>3, <2>4
  <1> QED BY <1>1, <1>2 DEF UploadsOwned

\* An abort closes an open upload unless it fails, and touches no other.
LEMMA AbortFacts ==
  ASSUME IInv, NEW f \in File, Abort(f)
  PROVE  /\ faults' = 0 => faults = 0 /\ upload'[f] # "open"
         /\ upload'[f] = "open" => upload[f] = "open"
         /\ \A g \in File \ {f} : upload'[g] = upload[g]
  BY FileUploadsAssumption DEF IInv, TypeOK, Abort

\* The steps of an intent: CreateMultipartUpload hands the upload to its INSERT, and
\* the INSERT hands it to a row or to the abort.
LEMMA IntentOwnsUpload ==
  ASSUME IInv, UploadsOwned, NEW c \in Call, IntentStep(c)
  PROVE  UploadsOwned'
  <1>0. pc[c] # "idle" => file[c] \in File
    BY DEF IInv, TypeOK, IntentOwns, CommitKnows, CleanupKnows
  <1>1. CASE LookupKey(c)
    <2>1. /\ UNCHANGED <<status, multipart, upload, faults>> /\ pc[c] = "lookup"
          /\ \A d \in Call \ {c} : pc'[d] = pc[d] /\ file'[d] = file[d]
          /\ pc'[c] \in {"create", "abort"} => file'[c] \in multipart
      BY <1>1 DEF LookupKey, Describe, Return, Goto, IInv, TypeOK, rows, storage
    <2> QED BY <2>1, OwnedStays DEF UploadsOwned, Row
  <1>2. CASE CreateUpload(c)
    <2>1. PICK f \in File : f = file[c]
      BY <1>0, <1>2 DEF CreateUpload
    <2>2. /\ UNCHANGED <<status, multipart, file, faults>> /\ pc[c] = "create"
          /\ upload' = [upload EXCEPT ![f] = "open"] /\ pc' = [pc EXCEPT ![c] = "insert"]
      BY <1>2, <2>1 DEF CreateUpload, Goto, rows
    <2>3. /\ upload'[f] = "open" /\ \A g \in File \ {f} : upload'[g] = upload[g]
          /\ pc'[c] = "insert" /\ \A d \in Call \ {c} : pc'[d] = pc[d]
      BY <2>2 DEF IInv, TypeOK
    <2>4. f \in multipart
      BY <2>1, <2>2 DEF UploadsOwned
    <2>5. \A d \in Call : pc'[d] = "insert" \/ pc'[d] = pc[d]
      BY <2>3
    <2>6. ASSUME faults' = 0, NEW g \in File, upload'[g] = "open", ~Row(g)'
          PROVE  \E d \in Call : file'[d] = g /\ pc'[d] \in {"insert", "abort"}
      <3>1. CASE g = f
        BY <2>1, <2>2, <2>3, <3>1
      <3>2. CASE g # f
        <4>1. PICK d \in Call : file[d] = g /\ pc[d] \in {"insert", "abort"}
          BY <2>2, <2>3, <2>6, <3>2 DEF UploadsOwned, Row
        <4> QED BY <2>2, <2>5, <4>1
      <3> QED BY <3>1, <3>2
    <2>7. \A d \in Call : pc'[d] \in {"create", "abort"} => file'[d] \in multipart'
      BY <2>2, <2>5 DEF UploadsOwned
    <2>8. \A g \in File : upload'[g] # "none" => g \in multipart'
      BY <2>2, <2>3, <2>4 DEF UploadsOwned
    <2> QED BY <2>6, <2>7, <2>8 DEF UploadsOwned
  <1>3. CASE InsertRow(c)
    <2>1. /\ UNCHANGED <<multipart, upload, faults>> /\ file[c] \in File
          /\ status' = [status EXCEPT ![file[c]] = "PENDING"]
          /\ \A d \in Call \ {c} : pc'[d] = pc[d] /\ file'[d] = file[d]
          /\ pc'[c] = "idle"
      BY <1>0, <1>3 DEF InsertRow, NewRow, Describe, Return, IInv, TypeOK, storage
    <2>2. status'[file[c]] # "absent" /\ \A f \in File : Row(f) => Row(f)'
      BY <2>1 DEF IInv, TypeOK, Row
    <2> QED BY <2>1, <2>2, OwnedStays DEF UploadsOwned
  <1>4. CASE InsertConflict(c)
    <2>1. /\ UNCHANGED <<status, multipart, upload, file, faults>> /\ file[c] \in File
          /\ pc' = [pc EXCEPT ![c] = IF file[c] \in multipart THEN "abort" ELSE "reread"]
      BY <1>0, <1>4 DEF InsertConflict, Goto, rows, storage
    <2>2. /\ \A d \in Call \ {c} : pc'[d] = pc[d]
          /\ pc'[c] \in {"abort", "reread"}
          /\ file[c] \in multipart => pc'[c] = "abort"
      BY <2>1 DEF IInv, TypeOK
    <2>3. file[c] \notin multipart => upload[file[c]] # "open"
      BY <2>1 DEF UploadsOwned
    <2> QED BY <2>1, <2>2, <2>3, OwnedStays DEF UploadsOwned, Row
  <1>5. CASE AbortUpload(c)
    <2>1. /\ UNCHANGED <<status, multipart, file>> /\ file[c] \in File
          /\ pc' = [pc EXCEPT ![c] = "reread"] /\ pc[c] = "abort"
      BY <1>0, <1>5 DEF AbortUpload, Goto, rows
    <2>2. pc'[c] = "reread" /\ \A d \in Call \ {c} : pc'[d] = pc[d]
      BY <2>1 DEF IInv, TypeOK
    <2>3. file[c] \in multipart
      BY <2>1 DEF UploadsOwned
    <2>4. /\ faults' = 0 => faults = 0 /\ upload'[file[c]] # "open"
          /\ upload'[file[c]] = "open" => upload[file[c]] = "open"
          /\ \A f \in File \ {file[c]} : upload'[f] = upload[f]
      BY <1>5, <2>1, AbortFacts DEF AbortUpload
    <2> QED BY <2>1, <2>2, <2>3, <2>4, OwnedStays DEF UploadsOwned, Row
  <1>6. CASE Reread(c)
    <2>1. /\ UNCHANGED <<status, multipart, upload, faults>> /\ pc[c] = "reread"
          /\ \A d \in Call \ {c} : pc'[d] = pc[d] /\ file'[d] = file[d]
          /\ pc'[c] = "idle"
      BY <1>6 DEF Reread, Describe, Return, IInv, TypeOK, rows, storage
    <2> QED BY <2>1, OwnedStays DEF UploadsOwned, Row
  <1>7. CASE Cleanup(c)
    <2>1. /\ UNCHANGED <<status, multipart>> /\ file[c] \in File /\ pc[c] = "cleanup"
          /\ \A d \in Call \ {c} : pc'[d] = pc[d] /\ file'[d] = file[d]
          /\ pc'[c] = "idle"
      BY <1>0, <1>7 DEF Cleanup, Return, IInv, TypeOK, rows
    <2>2. file[c] \in multipart
      BY <2>1 DEF IInv, CleanupKnows
    <2>3. /\ faults' = 0 => faults = 0 /\ upload'[file[c]] # "open"
          /\ upload'[file[c]] = "open" => upload[file[c]] = "open"
          /\ \A f \in File \ {file[c]} : upload'[f] = upload[f]
      BY <1>7, <2>1, AbortFacts DEF Cleanup
    <2> QED BY <2>1, <2>2, <2>3, OwnedStays DEF UploadsOwned, Row
  <1> QED BY <1>1, <1>2, <1>3, <1>4, <1>5, <1>6, <1>7 DEF IntentStep

\* The steps of a commit work on files with a row.
LEMMA CommitOwnsNothing ==
  ASSUME IInv, UploadsOwned, NEW c \in Call, CommitStep(c)
  PROVE  UploadsOwned'
  <1>1. PICK f \in File : f = file[c] /\ Row(f)
    BY DEF IInv, CommitKnows, CommitStep, ReadRow, ListParts, CompleteUpload, HeadObject,
           CompleteRow, MarkCompleted
  <1>2. /\ \A d \in Call \ {c} : pc'[d] = pc[d] /\ file'[d] = file[d]
        /\ pc'[c] \notin {"create", "abort"} /\ pc[c] \notin {"insert", "abort"}
        /\ UNCHANGED multipart
    BY DEF CommitStep, ReadRow, ListParts, CompleteUpload, HeadObject, CompleteRow,
           MarkCompleted, Goto,
           Return, IInv, TypeOK, rows
  <1>3. faults' = 0 => faults = 0
    BY FileUploadsAssumption
    DEF CommitStep, ReadRow, ListParts, CompleteUpload, HeadObject, CompleteRow,
           MarkCompleted, IInv, TypeOK
  <1>4. \A g \in File : Row(g) => Row(g)'
    BY DEF CommitStep, ReadRow, ListParts, CompleteUpload, HeadObject, CompleteRow,
           MarkCompleted, Row, rows,
           IInv, TypeOK
  <1>5. \A g \in File : /\ upload'[g] # "none" => g \in multipart
                        /\ upload'[g] = "open" => upload[g] = "open"
    <2>1. CASE UNCHANGED upload
      BY <2>1 DEF UploadsOwned
    <2>2. CASE pc[c] = "complete" /\ upload' = [upload EXCEPT ![f] = "completed"]
      <3>1. f \in multipart
        BY <1>1, <2>2 DEF IInv, CommitKnows
      <3> QED BY <2>2, <3>1 DEF UploadsOwned, IInv, TypeOK
    <2> QED
      BY <1>1, <2>1, <2>2
      DEF CommitStep, ReadRow, ListParts, CompleteUpload, HeadObject, CompleteRow,
           MarkCompleted, storage
  <1> QED BY <1>2, <1>3, <1>4, <1>5, OwnedStays DEF Row

\* Every other step: an intent starts with a file nobody has, clients open no upload, and
\* after a failure nothing is promised.
LEMMA NextUploadsOwned ==
  ASSUME IInv, UploadsOwned, [Next]_vars
  PROVE  UploadsOwned'
  <1>1. ASSUME NEW c \in Call, NEW k \in Key \cup {None}, NEW f \in File, NEW big \in BOOLEAN,
               StartIntent(c, k, f, big)
        PROVE  UploadsOwned'
    <2>1. /\ pc[c] = "idle" /\ upload[f] = "none" /\ UNCHANGED <<status, upload, faults>>
          /\ \A d \in Call \ {c} : pc'[d] = pc[d] /\ file'[d] = file[d] /\ file[d] # f
          /\ pc'[c] = "lookup" /\ \A g \in File \ {f} : g \in multipart' <=> g \in multipart
      BY <1>1 DEF StartIntent, Fresh, Goto, IInv, TypeOK, storage
    <2>2. \A d \in Call : pc'[d] \in {"create", "abort"} => file'[d] \in multipart'
      BY <2>1 DEF UploadsOwned, IInv, TypeOK, IntentOwns
    <2>3. \A g \in File : upload'[g] # "none" => g \in multipart'
      BY <2>1 DEF UploadsOwned
    <2>4. ASSUME faults' = 0, NEW g \in File, upload'[g] = "open", ~Row(g)'
          PROVE  \E d \in Call : file'[d] = g /\ pc'[d] \in {"insert", "abort"}
      <3>1. PICK d \in Call : file[d] = g /\ pc[d] \in {"insert", "abort"}
        BY <2>1, <2>4 DEF UploadsOwned, Row
      <3>2. d # c
        BY <2>1, <3>1
      <3> QED BY <2>1, <3>1, <3>2
    <2> QED BY <2>2, <2>3, <2>4 DEF UploadsOwned
  <1>2. ASSUME NEW f \in File, NEW b \in Bytes,
               (\E n \in Part : PutPart(f, n, b)) \/ PutObject(f, b)
        PROVE  UploadsOwned'
    BY <1>2 DEF PutPart, PutObject, UploadsOwned, Row, rows, local
  <1>3. ASSUME NEW c \in Call, NEW f \in File, StartCommit(c, f) PROVE UploadsOwned'
    <2>1. /\ pc[c] = "idle" /\ UNCHANGED <<status, multipart, upload, faults>>
          /\ \A d \in Call \ {c} : pc'[d] = pc[d] /\ file'[d] = file[d]
          /\ pc'[c] = "read"
      BY <1>3 DEF StartCommit, Goto, IInv, TypeOK, rows, storage
    <2> QED BY <2>1, OwnedStays DEF UploadsOwned, Row
  <1>4. ASSUME NEW c \in Call, InsertFails(c) \/ Fail(c) \/ LoseAnswer(c)
        PROVE  UploadsOwned'
    <2>1. faults' # 0 /\ UNCHANGED multipart
      BY <1>4, FileUploadsAssumption
      DEF InsertFails, Fail, LoseAnswer, NewRow, MarkCompleted, IInv, TypeOK, rows
    <2>2. \A d \in Call : pc'[d] \in {"create", "abort"} => file'[d] \in multipart
      BY <1>4
      DEF InsertFails, Fail, LoseAnswer, Return, Goto, UploadsOwned, IInv, TypeOK
    <2>3. \A g \in File : upload'[g] # "none" => g \in multipart
      <3>1. CASE UNCHANGED upload
        BY <3>1 DEF UploadsOwned
      <3>2. CASE pc[c] = "create" /\ upload' = [upload EXCEPT ![file[c]] = "open"]
        BY <3>2 DEF UploadsOwned, IInv, TypeOK
      <3> QED BY <1>4, <3>1, <3>2 DEF InsertFails, Fail, LoseAnswer, storage
    <2> QED BY <2>1, <2>2, <2>3 DEF UploadsOwned
  <1>5. CASE UNCHANGED vars
    BY <1>5 DEF vars, rows, storage, local, UploadsOwned, Row
  <1> QED BY <1>1, <1>2, <1>3, <1>4, <1>5, IntentOwnsUpload, CommitOwnsNothing DEF Next

\* While no call fails, no intent leaves behind a multipart upload that has no row and that
\* nobody works on: the loser of a race for an Idempotency-Key aborts its own upload
\* (intent, files.service.ts).
THEOREM FilesNoOrphanUpload == Spec => []NoOrphanUpload
  <1>1. Init => UploadsOwned
    BY DEF Init, UploadsOwned
  <1>2. IInv /\ UploadsOwned /\ [Next]_vars => UploadsOwned'
    BY NextUploadsOwned
  <1>3. UploadsOwned => NoOrphanUpload
    BY DEF UploadsOwned, NoOrphanUpload
  <1> QED BY <1>1, <1>2, <1>3, FilesInvariant, PTL DEF Spec

-----------------------------------------------------------------------------
\* Division brackets its dividend.
LEMMA DivBounds ==
  ASSUME NEW a \in Nat, NEW b \in Nat \ {0}
  PROVE  /\ a \div b \in Nat
         /\ (a \div b) * b <= a
         /\ a < (a \div b) * b + b
  OBVIOUS

\* A product grows with its factor.
LEMMA ProductGrows ==
  ASSUME NEW x \in Nat, NEW y \in Nat, NEW b \in Nat, x <= y
  PROVE x * b <= y * b
  OBVIOUS

\* Math.ceil(a / b) is the least number of b's that reach a.
LEMMA CeilBounds ==
  ASSUME NEW a \in Nat \ {0}, NEW b \in Nat \ {0}
  PROVE  /\ ceil(a, b) \in Nat \ {0}
         /\ a <= ceil(a, b) * b
         /\ (ceil(a, b) - 1) * b < a
  <1> DEFINE q == (a + b - 1) \div b
  <1>1. a + b - 1 \in Nat
    OBVIOUS
  <1>2. q \in Nat /\ q * b <= a + b - 1 /\ a + b - 1 < q * b + b
    BY <1>1, DivBounds
  <1>3. q # 0
    BY <1>2
  <1>4. (q - 1) * b = q * b - b
    BY <1>2
  <1> QED BY <1>2, <1>3, <1>4 DEF ceil

\* Math.ceil(a / b) grows with a.
LEMMA CeilMono ==
  ASSUME NEW a \in Nat \ {0}, NEW c \in Nat \ {0}, NEW b \in Nat \ {0}, a <= c
  PROVE  ceil(a, b) <= ceil(c, b) /\ ceil(c, b) \in Nat \ {0}
  <1> DEFINE p == ceil(a, b)  q == ceil(c, b)
  <1>1. p \in Nat \ {0} /\ (p - 1) * b < a
    BY CeilBounds
  <1>2. q \in Nat \ {0} /\ c <= q * b
    BY CeilBounds
  <1> HIDE DEF p, q
  <1>3. (p - 1) * b < q * b
    BY <1>1, <1>2
  <1>4. ASSUME q <= p - 1 PROVE FALSE
    <2>1. p - 1 \in Nat
      BY <1>1
    <2>2. q * b <= (p - 1) * b
      BY <2>1, <1>2, <1>4, ProductGrows
    <2> QED BY <2>1, <2>2, <1>2, <1>3
  <1>5. p <= q
    BY <1>1, <1>2, <1>4
  <1> QED BY <1>2, <1>5 DEF p, q

\* limits.ts: a file of any size intent accepts has parts within the storage's
\* limits, and they cover it exactly.
LEMMA EverySizeFits ==
  ASSUME NEW size \in 1..MAX_OBJECT
  PROVE  WithinLimits(size) /\ Exact(size)
  <1> DEFINE needed == ceil(size, MAX_PARTS)
             rounded == ceil(needed, MIB) * MIB
             most == ceil(MAX_OBJECT, MAX_PARTS)
             partSize == computePartSize(size)
             last == partCount(size, partSize)
  <1>1. /\ size \in Nat \ {0} /\ size <= MAX_OBJECT
        /\ MIB \in Nat \ {0} /\ MAX_PARTS \in Nat \ {0}
        /\ MAX_OBJECT \in Nat \ {0} /\ MAX_PART \in Nat /\ MIN_PART \in Nat \ {0}
    BY PartPlanAssumption DEF MIN_PART
  <1>2. needed \in Nat \ {0} /\ size <= needed * MAX_PARTS
    BY <1>1, CeilBounds
  <1>3. ceil(needed, MIB) \in Nat \ {0} /\ needed <= rounded /\ rounded \in Nat
    <2>1. ceil(needed, MIB) \in Nat \ {0} /\ needed <= ceil(needed, MIB) * MIB
      <3> HIDE DEF needed
      <3> QED BY <1>1, <1>2, CeilBounds
    <2>2. ceil(needed, MIB) * MIB \in Nat
      <3> HIDE DEF needed
      <3> QED BY <2>1, <1>1
    <2> QED BY <2>1, <2>2
  <1>4. most \in Nat \ {0} /\ needed <= most
    BY <1>1, CeilMono
  <1>5. ceil(needed, MIB) <= ceil(most, MIB)
    BY <1>1, <1>2, <1>4, CeilMono
  <1>6. ceil(most, MIB) \in Nat /\ rounded <= ceil(most, MIB) * MIB
    BY <1>1, <1>3, <1>4, <1>5, CeilBounds, ProductGrows
  <1>7. rounded <= MAX_PART
    BY <1>3, <1>6, PartPlanAssumption, <1>1
  <1>8. partSize = IF rounded < MIN_PART THEN MIN_PART ELSE rounded
    BY DEF computePartSize
  <1>9. partSize \in Nat \ {0} /\ partSize \in MIN_PART..MAX_PART /\ needed <= partSize
    BY <1>1, <1>2, <1>3, <1>7, <1>8, PartPlanAssumption
  <1>10. last \in Nat \ {0} /\ size <= last * partSize /\ (last - 1) * partSize < size
    BY <1>1, <1>9, CeilBounds DEF partCount
  <1>11. needed * MAX_PARTS <= partSize * MAX_PARTS
    BY <1>1, <1>2, <1>9, ProductGrows
  <1>12. last <= MAX_PARTS
    <2> SUFFICES ASSUME last > MAX_PARTS PROVE FALSE
      BY <1>1, <1>10
    <2>1. MAX_PARTS <= last - 1 /\ last - 1 \in Nat
      BY <1>1, <1>10
    <2>2. MAX_PARTS * partSize <= (last - 1) * partSize
      BY <2>1, <1>1, <1>9, ProductGrows
    <2>3. size <= partSize * MAX_PARTS
      BY <1>1, <1>2, <1>9, <1>11
    <2> HIDE DEF needed, last, partSize
    <2>4. partSize * MAX_PARTS = MAX_PARTS * partSize
      BY <1>1, <1>9
    <2> QED BY <2>2, <2>3, <2>4, <1>1, <1>9, <1>10, <2>1
  <1>13. WithinLimits(size)
    BY <1>9, <1>10, <1>12, <1>1 DEF WithinLimits
  <1>14. (last - 1) * partSize = last * partSize - partSize
    BY <1>9, <1>10
  <1>15. \A n \in 1..(last - 1) : partLength(size, partSize, n) = partSize
    <2> TAKE n \in 1..(last - 1)
    <2>1. n \in Nat /\ n <= last - 1 /\ last - 1 \in Nat
      BY <1>10
    <2>2. n * partSize <= (last - 1) * partSize
      BY <2>1, <1>9, ProductGrows
    <2> HIDE DEF needed, last, partSize
    <2>3. (n - 1) * partSize = n * partSize - partSize
      BY <2>1, <1>9
    <2> QED BY <2>1, <2>2, <2>3, <1>1, <1>9, <1>10 DEF partLength
  <1>16. /\ partLength(size, partSize, last) \in 1..partSize
         /\ (last - 1) * partSize + partLength(size, partSize, last) = size
    <2> HIDE DEF needed, last, partSize
    <2> QED BY <1>1, <1>9, <1>10, <1>14 DEF partLength
  <1>17. Exact(size)
    BY <1>15, <1>16 DEF Exact
  <1> QED BY <1>13, <1>17

\* The parts describe() lists respect S3's limits and cover the file without gap
\* or overlap, whatever size was declared.
THEOREM FilesPlanIsSound == Spec => []PlanIsSound
  <1>1. PlanIsSound
    BY EverySizeFits DEF PlanIsSound, EverySizeWithinLimits, EverySizeExact
  <1> QED BY <1>1, PTL
=============================================================================
