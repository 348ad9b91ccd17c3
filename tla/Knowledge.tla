------------------------------- MODULE Knowledge -------------------------------
(***************************************************************************)
(* Knowledge bases: the HTTP handlers that create, fill and delete them    *)
(* (server/internal/api/knowledge.go), the store with the brute-force      *)
(* vector backend, the server's default (plugins/knowledge-base/store),    *)
(* and the worker that splits and embeds uploaded documents                *)
(* (server/internal/kbworker/worker.go).                                   *)
(*                                                                         *)
(* The worker polls every ten seconds and works through the list it read;  *)
(* deletions are several statements without a transaction; a failed write  *)
(* of a status is logged and processing goes on.  The text of a document   *)
(* is the number of its chunks, and a stored chunk list is counted.        *)
(***************************************************************************)
EXTENDS Naturals, Sequences, FiniteSets, SequencesExt

CONSTANTS
    KB,         (* knowledge bases                                         *)
    Docs,       (* documents: an id is a fresh uuid, used by one upload    *)
    MaxChunks,  (* chunks of a document: 0 .. MaxChunks                    *)
    MaxFaults,  (* bound: failures of the store or the embedder            *)
    MaxRestarts (* bound: restarts of the server                           *)

(* What the proofs assume; ids are not the empty one.                      *)
KnowledgeBounds ==
    /\ IsFiniteSet(Docs) /\ "none" \notin KB
    /\ {MaxChunks, MaxFaults, MaxRestarts} \subseteq Nat

VARIABLES
    kb,         (* row of each knowledge base, with its "available" flag   *)
    doc,        (* row of each document: its status, and where it is from  *)
    home,       (* the knowledge base a document was uploaded to           *)
    size,       (* the number of chunks its text gives                     *)
    count,      (* chunk_count                                             *)
    stored,     (* rows of the table chunks, per document                  *)
    work,       (* the worker's list: documents as they were when listed   *)
    stage,      (* what the worker does with the first of them             *)
    removal,    (* deletions of documents in progress                      *)
    dropping,   (* deletions of knowledge bases in progress                *)
    faults, restarts,
    overlapped, (* history: in the worker's list during a deletion of it   *)
    cut,        (* history: documents whose chunks were deleted            *)
    homeless    (* history: uploads that overlapped with a deletion of     *)
                (* their knowledge base                                    *)

rowVars == <<kb, doc, home, size, count, stored>>
workVars == <<work, stage>>
deleteVars == <<removal, dropping>>
histVars == <<overlapped, cut, homeless>>
vars == <<rowVars, workVars, deleteVars, faults, restarts, histVars>>

Unfinished == {"pending", "parsing", "indexing"}
Rows == Unfinished \cup {"ready", "error"}
Present == {d \in Docs : doc[d] \in Rows}
In(k) == {d \in Docs : home[d] = k}

KnowledgeTypeOK ==
    /\ kb \in [KB -> {"none", "ok", "unavailable", "deleted"}]
    /\ doc \in [Docs -> Rows \cup {"none", "uploading", "rejected", "deleted"}]
    /\ home \in [Docs -> KB \cup {"none"}]
    /\ size \in [Docs -> 0 .. MaxChunks]
    /\ count \in [Docs -> 0 .. MaxChunks]
    /\ stored \in [Docs -> 0 .. 2 * MaxChunks]
    /\ work \in Seq(Docs \X Unfinished)
    /\ stage \in {"idle", "next", "parse", "embed", "store", "failing"}
    /\ removal \subseteq Docs
    /\ dropping \in [KB -> {"no", "documents", "row"}]
    /\ faults \in 0 .. MaxFaults /\ restarts \in 0 .. MaxRestarts
    /\ overlapped \subseteq Docs /\ cut \subseteq Docs /\ homeless \subseteq Docs

Init ==
    /\ kb = [k \in KB |-> "none"]
    /\ doc = [d \in Docs |-> "none"]
    /\ home = [d \in Docs |-> "none"]
    /\ size = [d \in Docs |-> 0]
    /\ count = [d \in Docs |-> 0]
    /\ stored = [d \in Docs |-> 0]
    /\ work = <<>> /\ stage = "idle"
    /\ removal = {} /\ dropping = [k \in KB |-> "no"]
    /\ faults = 0 /\ restarts = 0
    /\ overlapped = {} /\ cut = {} /\ homeless = {}

Fault == faults < MaxFaults /\ faults' = faults + 1
NoFault == UNCHANGED faults
SetDoc(d, status) == doc' = [doc EXCEPT ![d] = status]

-----------------------------------------------------------------------------
(* The HTTP handlers.                                                      *)

CreateKB(k) ==
    /\ kb[k] = "none"
    /\ kb' = [kb EXCEPT ![k] = "ok"]
    /\ UNCHANGED <<doc, home, size, count, stored, workVars, deleteVars, faults,
                   restarts, histVars>>

(* UploadDocument and TextUpload look the knowledge base up ...            *)
Upload(d, k, n) ==
    /\ doc[d] = "none"
    /\ kb[k] \in {"ok", "unavailable"}
    /\ SetDoc(d, "uploading")
    /\ home' = [home EXCEPT ![d] = k]
    /\ size' = [size EXCEPT ![d] = n]
    /\ homeless' = IF dropping[k] = "no" THEN homeless ELSE homeless \cup {d}
    /\ UNCHANGED <<kb, count, stored, workVars, deleteVars, faults, restarts,
                   overlapped, cut>>

(* ... and store the document, which is all IngestDocument does.           *)
IngestDocument(d) ==
    /\ doc[d] = "uploading"
    /\ \/ SetDoc(d, "pending") /\ NoFault
       \/ SetDoc(d, "rejected") /\ Fault
    /\ UNCHANGED <<kb, home, size, count, stored, workVars, deleteVars, restarts,
                   histVars>>

Listed == {work[i][1] : i \in DOMAIN work}
BeingDeleted == removal \cup {d \in Docs : home[d] \in KB /\ dropping[home[d]] # "no"}

(* DeleteDocument: the chunks, then the row.                               *)
DeleteChunks(d) ==
    /\ d \in Present /\ d \notin removal
    /\ stored' = [stored EXCEPT ![d] = 0]
    /\ removal' = removal \cup {d}
    /\ cut' = cut \cup {d}
    /\ overlapped' = overlapped \cup ({d} \cap Listed)
    /\ UNCHANGED <<kb, doc, home, size, count, workVars, dropping, faults, restarts,
                   homeless>>

DeleteRow(d) ==
    /\ d \in removal
    /\ removal' = removal \ {d}
    /\ \/ /\ NoFault
          /\ doc' = IF d \in Present THEN [doc EXCEPT ![d] = "deleted"] ELSE doc
       \/ Fault /\ UNCHANGED doc
    /\ UNCHANGED <<kb, home, size, count, stored, workVars, dropping, restarts, histVars>>

(* DeleteKB: the chunks, then the documents, then the row; each may fail,  *)
(* which ends the request.                                                 *)
DropChunks(k) ==
    /\ kb[k] \in {"ok", "unavailable"} /\ dropping[k] = "no"
    /\ stored' = [d \in Docs |-> IF home[d] = k THEN 0 ELSE stored[d]]
    /\ dropping' = [dropping EXCEPT ![k] = "documents"]
    /\ cut' = cut \cup In(k)
    /\ overlapped' = overlapped \cup (In(k) \cap Listed)
    /\ homeless' = homeless \cup {d \in In(k) : doc[d] = "uploading"}
    /\ UNCHANGED <<kb, doc, home, size, count, workVars, removal, faults, restarts>>

DropDocuments(k) ==
    /\ dropping[k] = "documents"
    /\ \/ /\ doc' = [d \in Docs |-> IF d \in In(k) \cap Present THEN "deleted" ELSE doc[d]]
          /\ dropping' = [dropping EXCEPT ![k] = "row"]
          /\ NoFault
       \/ Fault /\ dropping' = [dropping EXCEPT ![k] = "no"] /\ UNCHANGED doc
    /\ UNCHANGED <<kb, home, size, count, stored, workVars, removal, restarts, histVars>>

DropRow(k) ==
    /\ dropping[k] = "row"
    /\ dropping' = [dropping EXCEPT ![k] = "no"]
    /\ \/ kb' = [kb EXCEPT ![k] = "deleted"] /\ NoFault
       \/ Fault /\ UNCHANGED kb
    /\ UNCHANGED <<doc, home, size, count, stored, workVars, removal, restarts, histVars>>

Handlers ==
    \/ \E k \in KB : CreateKB(k) \/ DropChunks(k) \/ DropDocuments(k) \/ DropRow(k)
    \/ \E d \in Docs :
          \/ IngestDocument(d) \/ DeleteChunks(d) \/ DeleteRow(d)
          \/ \E k \in KB, n \in 0 .. MaxChunks : Upload(d, k, n)

-----------------------------------------------------------------------------
(* The worker.  An update of a row that has gone changes nothing and is    *)
(* not an error.                                                           *)

Current == work[1][1]
UpdateDocumentStatus(d, status) ==
    doc' = IF d \in Present THEN [doc EXCEPT ![d] = status] ELSE doc
NextDocument ==
    /\ work' = Tail(work)
    /\ stage' = IF Len(work) = 1 THEN "idle" ELSE "next"
WorkerFrame ==
    /\ UNCHANGED <<kb, home, size, deleteVars, restarts, cut, homeless>>
    /\ stage # "idle" => UNCHANGED overlapped

(* Variant: documents left in indexing are not listed.                     *)
PollClaimed ==
    /\ stage = "idle"
    /\ LET unfinished == {d \in Docs : doc[d] \in {"pending", "parsing"}} IN
       /\ unfinished # {}
       /\ \E order \in SetToSeqs(unfinished) :
             work' = [i \in DOMAIN order |-> <<order[i], doc[order[i]]>>]
       /\ overlapped' = overlapped \cup (unfinished \cap BeingDeleted)
    /\ stage' = "next"
    /\ UNCHANGED <<doc, count, stored, faults>> /\ WorkerFrame

(* ListDocumentsByStatus, oldest first; with an error poll returns.        *)
Poll ==
    /\ stage = "idle"
    /\ LET unfinished == {d \in Docs : doc[d] \in Unfinished} IN
       /\ unfinished # {}
       /\ \E order \in SetToSeqs(unfinished) :
             work' = [i \in DOMAIN order |-> <<order[i], doc[order[i]]>>]
       /\ overlapped' = overlapped \cup (unfinished \cap BeingDeleted)
    /\ stage' = "next"
    /\ UNCHANGED <<doc, count, stored, faults>> /\ WorkerFrame

(* A pending document is claimed; any other is taken as it was listed.     *)
Take ==
    /\ stage = "next"
    /\ CASE work[1][2] = "pending" ->
              \/ /\ doc[Current] = "pending"
                 /\ SetDoc(Current, "parsing") /\ stage' = "parse"
                 /\ NoFault /\ UNCHANGED work
              \/ /\ \/ doc[Current] # "pending" /\ NoFault
                    \/ Fault
                 /\ NextDocument /\ UNCHANGED doc
         [] work[1][2] = "parsing" ->
              stage' = "parse" /\ NoFault /\ UNCHANGED <<work, doc>>
         [] work[1][2] = "indexing" ->
              stage' = "embed" /\ NoFault /\ UNCHANGED <<work, doc>>
    /\ UNCHANGED <<count, stored>> /\ WorkerFrame

(* The text/plain parser and the chunker do not fail; the update may.      *)
Parse ==
    /\ stage = "parse"
    /\ \/ UpdateDocumentStatus(Current, "indexing") /\ NoFault
       \/ Fault /\ UNCHANGED doc
    /\ stage' = "embed"
    /\ UNCHANGED <<work, count, stored>> /\ WorkerFrame

(* Without chunks the document is ready, whether the update works or not;  *)
(* an error of the embedder, or no vectors, is a failure.                  *)
Embed ==
    /\ stage = "embed"
    /\ \/ /\ size[Current] = 0
          /\ NextDocument
          /\ \/ UpdateDocumentStatus(Current, "ready") /\ NoFault
             \/ Fault /\ UNCHANGED doc
       \/ /\ size[Current] > 0
          /\ \/ stage' = "store" /\ NoFault
             \/ stage' = "failing" /\ Fault
          /\ UNCHANGED <<work, doc>>
    /\ UNCHANGED <<count, stored>> /\ WorkerFrame

(* Variant: the status is not in the transaction of the chunks.            *)
StoreChunksOnly ==
    /\ stage = "store"
    /\ stored' = [stored EXCEPT ![Current] = @ + size[Current]]
    /\ \/ /\ UpdateDocumentStatus(Current, "ready") /\ NoFault
          /\ count' = [count EXCEPT ![Current] = size[Current]]
       \/ Fault /\ UNCHANGED <<doc, count>>
    /\ NextDocument /\ WorkerFrame

(* One transaction: the chunks, the status ready and the count.            *)
StoreChunks ==
    /\ stage = "store"
    /\ \/ /\ stored' = [stored EXCEPT ![Current] = @ + size[Current]]
          /\ UpdateDocumentStatus(Current, "ready")
          /\ count' = IF Current \in Present THEN [count EXCEPT ![Current] = size[Current]]
                      ELSE count
          /\ NextDocument /\ NoFault
       \/ Fault /\ stage' = "failing" /\ UNCHANGED <<doc, count, stored, work>>
    /\ WorkerFrame

MarkError ==
    /\ stage = "failing"
    /\ \/ UpdateDocumentStatus(Current, "error") /\ NoFault
       \/ Fault /\ UNCHANGED doc
    /\ NextDocument
    /\ UNCHANGED <<count, stored>> /\ WorkerFrame

Worker == Poll \/ Take \/ Parse \/ Embed \/ StoreChunks \/ MarkError

-----------------------------------------------------------------------------
(* verifyConsistency, when the store is opened.                            *)
(* The sum of f over D, as the number of pairs it counts.                  *)
Total(f, D) == Cardinality({c \in D \X (1 .. 2 * MaxChunks) : c[2] <= f[c[1]]})

Verified(k) ==
    IF Total(count, {d \in In(k) : doc[d] = "ready"}) = Total(stored, In(k))
    THEN "ok" ELSE "unavailable"

Restart ==
    /\ restarts < MaxRestarts
    /\ restarts' = restarts + 1
    /\ work' = <<>> /\ stage' = "idle"
    /\ removal' = {} /\ dropping' = [k \in KB |-> "no"]
    /\ doc' = [d \in Docs |-> IF doc[d] = "uploading" THEN "rejected" ELSE doc[d]]
    /\ kb' = [k \in KB |-> IF kb[k] \in {"ok", "unavailable"} THEN Verified(k) ELSE kb[k]]
    /\ UNCHANGED <<home, size, count, stored, faults, histVars>>

Next == Handlers \/ Worker \/ Restart

Spec == Init /\ [][Next]_vars /\ WF_vars(Worker)

-----------------------------------------------------------------------------
(* However often the server is restarted while a document is parsed or     *)
(* indexed, and whatever fails, its chunks are not stored twice            *)
(* (worker.go:83, knowledge.go:185).                                       *)
StoredOnce == \A d \in Docs : stored[d] \in {0, size[d]}

(* A document is ready exactly when all its chunks are searchable, but for *)
(* one whose deletion got as far as the chunks.                            *)
ReadyIsSearchable ==
    \A d \in Present \ cut : stored[d] = IF doc[d] = "ready" THEN count[d] ELSE 0

(* Chunks outlive their document only if it was deleted while the worker   *)
(* had it in its list (worker.go:171 stores without looking).              *)
OrphansOnlyByOverlap ==
    \A d \in Docs : stored[d] > 0 => d \in Present \cup overlapped

(* A document is in a knowledge base that exists, unless its upload        *)
(* overlapped with the deletion.                                           *)
HomeExists == \A d \in Present : kb[home[d]] = "deleted" => d \in homeless

(* A knowledge base is marked unavailable only after a deletion that was   *)
(* interrupted, or overlapped with the worker.                             *)
UnavailableOnlyIfCut ==
    \A k \in KB : kb[k] = "unavailable" => In(k) \cap (cut \cup overlapped) # {}

KnowledgeConsistent ==
    /\ StoredOnce /\ ReadyIsSearchable /\ OrphansOnlyByOverlap
    /\ HomeExists /\ UnavailableOnlyIfCut

(* Every document that is stored is brought to ready or error, or deleted: *)
(* the worker takes up again what a restart or a failed update has left.   *)
DocumentsSettle == \A d \in Docs : doc[d] = "pending" ~> doc[d] \notin Unfinished

=============================================================================
