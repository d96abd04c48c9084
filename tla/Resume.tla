------------------------------- MODULE Resume -------------------------------
(***************************************************************************)
(* A large upload that outlives its client (src/files/client-mpu.ts): one  *)
(* process begins it and dies at some part, others ask the server what the *)
(* storage has, in pages, and send the rest, and at some time the file is  *)
(* committed. What a dead process had sent may still arrive, late, whole or*)
(* cut off, while another one lists, sends or commits. FileUploads has the *)
(* calls inside intent and commit, and what happens when those fail.       *)
(***************************************************************************)
EXTENDS PartPlan, FiniteSetsExt

CONSTANTS
  UploadSize,       \* the declared size
  PageSize,         \* most parts ListParts answers with, 1000 in S3
  Process,          \* client processes at a time
  MaxDeaths         \* bound: processes that end before their time

Part == PartNumbers(UploadSize)

ASSUME ResumeAssumption ==
  UploadSize \in 1..MAX_OBJECT /\ PageSize \in Nat \ {0} /\ MaxDeaths \in Nat

VARIABLES
  fileStatus,       \* files.status; "absent" when there is no row
  stored,           \* stored[n]: "none", "short" or "good", the storage's part n
  flying,           \* PUTs on their way, <<process, part>>
  ppc,              \* what a process waits for
  marker,           \* PartNumberMarker of its listing
  listed,           \* parts its listing found with their expected size
  todo,             \* parts it will still send, in the order of their numbers
  always, ever,     \* history: parts that were good at all times, at some time,
                    \* since the process asked for its listing
  deaths

uploadVars == <<fileStatus, stored, flying, ppc, marker, listed, todo, always, ever, deaths>>

ResumeInit ==
  /\ fileStatus = "absent" /\ stored = [n \in Part |-> "none"] /\ flying = {}
  /\ ppc = [p \in Process |-> "off"] /\ marker = [p \in Process |-> 0]
  /\ listed = [p \in Process |-> {}] /\ todo = [p \in Process |-> {}]
  /\ always = [p \in Process |-> {}] /\ ever = [p \in Process |-> {}]
  /\ deaths = 0

Good == {n \in Part : stored[n] = "good"}
Idle(p) == ppc[p] = "off" /\ ~\E n \in Part : <<p, n>> \in flying
Moves(p, where) == ppc' = [ppc EXCEPT ![p] = where]

\* The process, or the handler that serves it, ends and forgets what it knew.
Ends(p) ==
  /\ Moves(p, "off") /\ marker' = [marker EXCEPT ![p] = 0]
  /\ listed' = [listed EXCEPT ![p] = {}] /\ todo' = [todo EXCEPT ![p] = {}]
  /\ always' = [always EXCEPT ![p] = {}] /\ ever' = [ever EXCEPT ![p] = {}]

-----------------------------------------------------------------------------
\* client-mpu start: the descriptor that intent answers with has every part.
start(p) ==
  /\ Idle(p) /\ fileStatus = "absent"
  /\ fileStatus' = "PENDING"
  /\ todo' = [todo EXCEPT ![p] = Part]
  /\ Moves(p, "sending")
  /\ UNCHANGED <<stored, flying, marker, listed, always, ever, deaths>>

\* client-mpu resume, or POST /uploads/commit: parts() and commit() begin with
\* the row, which must be PENDING, and a listing from its first page.
Ask(p, why) ==
  /\ Idle(p) /\ fileStatus = "PENDING"
  /\ Moves(p, why)
  /\ always' = [always EXCEPT ![p] = Good] /\ ever' = [ever EXCEPT ![p] = Good]
  /\ UNCHANGED <<fileStatus, stored, flying, marker, listed, todo, deaths>>

resume(p) == Ask(p, "parts")
commitUpload(p) == Ask(p, "commit")

\* ListParts: the first PageSize parts after the marker, and IsTruncated.
Beyond(n) == {k \in Part : k > n /\ stored[k] # "none"}
Page(n) == {k \in Beyond(n) : Cardinality({j \in Beyond(n) : j <= k}) <= PageSize}
IsTruncated(n) == Page(n) # Beyond(n)

\* What is done with the parts found in full: parts() answers with the others,
\* which the client will send; commit() goes on when there are no others, and
\* throws 409 parts-missing when there are.
Listed(p, found) ==
  \/ /\ ppc[p] = "parts" /\ Moves(p, "sending")
     /\ todo' = [todo EXCEPT ![p] = Part \ found]
     /\ listed' = [listed EXCEPT ![p] = found] /\ UNCHANGED <<marker, always, ever>>
  \/ /\ ppc[p] = "commit" /\ found = Part /\ Moves(p, "complete")
     /\ listed' = [listed EXCEPT ![p] = found] /\ UNCHANGED <<marker, todo, always, ever>>
  \/ /\ ppc[p] = "commit" /\ found # Part /\ Ends(p)

\* Mutant: one call of ListParts.
listAllPartsOnce(p) ==
  /\ ppc[p] \in {"parts", "commit"}
  /\ fileStatus = "PENDING" /\ Listed(p, Page(0) \cap Good)
  /\ UNCHANGED <<fileStatus, stored, flying, deaths>>

\* Mutant: any size of a part will do.
listAllPartsAnySize(p) ==
  /\ ppc[p] \in {"parts", "commit"}
  /\ fileStatus = "PENDING" /\ Listed(p, Beyond(0))
  /\ UNCHANGED <<fileStatus, stored, flying, deaths>>

\* listAllParts, page by page; a short part counts as missing. Once the upload
\* is assembled ListParts throws NoSuchUpload.
listAllParts(p) ==
  /\ ppc[p] \in {"parts", "commit"}
  /\ LET page == Page(marker[p])
         found == listed[p] \cup (page \cap Good)
     IN  \/ /\ fileStatus = "PENDING" /\ IsTruncated(marker[p])
            /\ listed' = [listed EXCEPT ![p] = found]
            /\ marker' = [marker EXCEPT ![p] = Max(page)]
            /\ UNCHANGED <<ppc, todo, always, ever>>
         \/ fileStatus = "PENDING" /\ ~IsTruncated(marker[p]) /\ Listed(p, found)
         \/ fileStatus = "COMPLETED" /\ Ends(p)
  /\ UNCHANGED <<fileStatus, stored, flying, deaths>>

-----------------------------------------------------------------------------
\* putPart: one request at a time, in the order of the list.
putPart(p) ==
  /\ ppc[p] = "sending" /\ todo[p] # {}
  /\ flying' = flying \cup {<<p, Min(todo[p])>>}
  /\ Moves(p, "put")
  /\ UNCHANGED <<fileStatus, stored, marker, listed, todo, always, ever, deaths>>

\* The storage has part n as b from now on; listings under way see it or not.
Store(n, b) ==
  /\ stored' = [stored EXCEPT ![n] = b]
  /\ always' = [p \in Process |-> IF b = "good" THEN always[p] ELSE always[p] \ {n}]
  /\ ever' = [p \in Process |->
       IF b = "good" /\ ppc[p] # "off" THEN ever[p] \cup {n} ELSE ever[p]]

\* The storage takes the request of a living client, which goes on with the
\* next part; after the assembly it answers 404 and the client throws.
land(p, n) ==
  /\ <<p, n>> \in flying /\ ppc[p] = "put"
  /\ flying' = flying \ {<<p, n>>}
  /\ \/ /\ fileStatus = "PENDING" /\ Store(n, "good")
        /\ Moves(p, "sending") /\ todo' = [todo EXCEPT ![p] = @ \ {n}]
        /\ UNCHANGED <<marker, listed>>
     \/ fileStatus = "COMPLETED" /\ Ends(p) /\ UNCHANGED stored
  /\ UNCHANGED <<fileStatus, deaths>>

\* The last request of a dead client arrives whole, cut off or not at all.
landLate(p, n) ==
  /\ <<p, n>> \in flying /\ ppc[p] = "off"
  /\ flying' = flying \ {<<p, n>>}
  /\ \/ fileStatus = "PENDING" /\ \E b \in {"good", "short"} : Store(n, b)
     \/ UNCHANGED <<stored, always, ever>>
  /\ UNCHANGED <<fileStatus, ppc, marker, listed, todo, deaths>>

finish(p) ==
  /\ ppc[p] = "sending" /\ todo[p] = {}
  /\ Ends(p)
  /\ UNCHANGED <<fileStatus, stored, flying, deaths>>

\* The rest of commit, with the ETags of the listing: the object is assembled,
\* seen in full and the row completed, or a part changed meanwhile
\* (InvalidPart), or another commit was first.
complete(p) ==
  /\ ppc[p] = "complete"
  /\ fileStatus' = IF Good = Part THEN "COMPLETED" ELSE fileStatus
  /\ Ends(p)
  /\ UNCHANGED <<stored, flying, deaths>>

\* presignPart signs a URL for partExpires seconds: the PUT of a process that
\* took longer is answered 403, and the process throws. The answer to a later
\* resume has fresh URLs.
urlExpires(p) ==
  /\ ppc[p] = "sending" /\ todo[p] # {}
  /\ deaths < MaxDeaths /\ deaths' = deaths + 1
  /\ Ends(p)
  /\ UNCHANGED <<fileStatus, stored, flying>>

\* SIGKILL, or a timeout of the API or of a PUT: the process ends, what it has
\* sent does not.
die(p) ==
  /\ ppc[p] \in {"parts", "sending", "put"}
  /\ deaths < MaxDeaths /\ deaths' = deaths + 1
  /\ Ends(p)
  /\ UNCHANGED <<fileStatus, stored, flying>>

ProcessStep(p) ==
  \/ listAllParts(p) \/ putPart(p) \/ finish(p) \/ complete(p)
  \/ \E n \in Part : land(p, n) \/ landLate(p, n)

ResumeNext ==
  \E p \in Process :
    start(p) \/ resume(p) \/ commitUpload(p) \/ ProcessStep(p) \/ urlExpires(p) \/ die(p)

ResumeSpec == ResumeInit /\ [][ResumeNext]_uploadVars

-----------------------------------------------------------------------------
\* A second process sends what is missing and nothing else: no part that was
\* there in full all the time is sent again, and none that was never there is
\* left out, however many pages the server went through and whatever arrived
\* between them. A commit that goes on has found every part.
ResumeIsExact ==
  \A p \in Process :
    /\ ppc[p] \in {"sending", "put"} =>
         todo[p] \cap always[p] = {} /\ Part \ ever[p] \subseteq todo[p]
    /\ ppc[p] = "complete" => ever[p] = Part

ResumeTypeOK ==
  /\ fileStatus \in {"absent", "PENDING", "COMPLETED"}
  /\ stored \in [Part -> {"none", "short", "good"}]
  /\ flying \subseteq Process \X Part
  /\ ppc \in [Process -> {"off", "parts", "commit", "sending", "put", "complete"}]
  /\ marker \in [Process -> {0} \cup Part]
  /\ listed \in [Process -> SUBSET Part] /\ todo \in [Process -> SUBSET Part]
  /\ always \in [Process -> SUBSET Part] /\ ever \in [Process -> SUBSET Part]
  /\ deaths \in 0..MaxDeaths

\* While the pages are read: what was good all the time is found up to the
\* marker, and nothing is found that was not good at some time.
ListingExact(p) ==
  /\ always[p] \subseteq Good /\ Good \subseteq ever[p] /\ listed[p] \subseteq ever[p]
  /\ \A k \in always[p] : k <= marker[p] => k \in listed[p]

\* A process that has ended knows nothing.
Blank(p) == marker[p] = 0 /\ listed[p] = {} /\ always[p] = {} /\ ever[p] = {}

ResumeInv ==
  /\ ResumeTypeOK
  /\ \A p \in Process :
       /\ ppc[p] \in {"parts", "commit"} => ListingExact(p)
       /\ ppc[p] = "off" => Blank(p)
  /\ ResumeIsExact

\* The upload gets whole and completed in the end, whoever died at which part:
\* the client is started again, and the file committed again.
UploadGetsWhole == fileStatus = "PENDING" ~> fileStatus = "COMPLETED"
=============================================================================
