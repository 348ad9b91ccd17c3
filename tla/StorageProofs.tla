----------------------------- MODULE StorageProofs -----------------------------
(***************************************************************************)
(* What the server keeps for its agents, for any number of bases and       *)
(* documents, any sizes, and any faults and restarts: knowledge bases      *)
(* (Knowledge); and the memory of an agent, its files with the index and   *)
(* the facts that are built from them, a recall while they change, and the *)
(* summaries (FileMemory, MemoryRecall, Summaries).                        *)
(***************************************************************************)
EXTENDS Knowledge, Integers, FiniteSetTheorems, TLAPS

CONSTANTS Requests, Names, MaxEntries, MemoryFaults, MemoryRestarts
VARIABLES
    file, index, facts, kind, pc, paths, reply, holder, snapshot, manual,
    memFaults, memRestarts, stale, raced

Memory == INSTANCE FileMemory WITH MaxFaults <- MemoryFaults,
    MaxRestarts <- MemoryRestarts, faults <- memFaults, restarts <- memRestarts

CONSTANTS Memories, Matching, Wanted, Limit
VARIABLES onDisk, listed, asked, chosen, results, call, steady

Recall == INSTANCE MemoryRecall

CONSTANTS Jobs, Files, MaxMemories, Keep, MaxDays
VARIABLES day, state, summaries, cooling, job, newest, starts

Summarizer == INSTANCE Summaries WITH MaxRestarts <- MemoryRestarts,
    file <- state, restarts <- starts

-----------------------------------------------------------------------------
(* Knowledge bases.                                                        *)

(* A document has a knowledge base from its upload on.                     *)
HomeInv == \A d \in Docs : home[d] = "none" <=> doc[d] = "none"

(* The worker's list names documents once, that are unfinished or deleted. *)
ListInv ==
    /\ stage = "idle" <=> work = <<>>
    /\ \A i \in DOMAIN work : doc[work[i][1]] \in Unfinished \cup {"deleted"}
    /\ \A i, j \in DOMAIN work : i # j => work[i][1] # work[j][1]

(* Chunks are stored, and counted, of documents the worker is done with.   *)
ChunkInv ==
    \A d \in Docs :
        /\ doc[d] \notin {"ready", "deleted"} \/ d \in Listed => stored[d] = 0
        /\ doc[d] \notin {"ready", "deleted"} => count[d] = 0
        /\ stored[d] \in {0, size[d]}
        /\ doc[d] = "ready" /\ d \notin cut => stored[d] = count[d]

(* Whoever may still store, or has stored, chunks of a document that is    *)
(* being deleted is on record.                                             *)
DeletionInv ==
    \A d \in Docs :
        /\ d \in BeingDeleted \/ doc[d] = "deleted"
        /\ d \in Listed \/ stored[d] > 0
        => d \in overlapped

(* And so is an upload that meets the deletion of its knowledge base: the  *)
(* documents there are have been deleted before the base is.               *)
HomelessInv ==
    \A d \in Docs : home[d] \in KB =>
        LET k == home[d] IN
        /\ doc[d] = "uploading" /\ (dropping[k] # "no" \/ kb[k] = "deleted") => d \in homeless
        /\ d \in Present /\ (dropping[k] = "row" \/ kb[k] = "deleted") => d \in homeless

Inv ==
    /\ KnowledgeTypeOK /\ HomeInv /\ ListInv /\ ChunkInv /\ DeletionInv
    /\ HomelessInv /\ UnavailableOnlyIfCut

-----------------------------------------------------------------------------
(* The worker's list.                                                      *)

LEMMA TailShape ==
  ASSUME NEW S, NEW w \in Seq(S), w # <<>>
  PROVE  /\ Len(w) \in Nat /\ Len(w) > 0 /\ w[1] \in S /\ DOMAIN w = 1 .. Len(w)
         /\ Tail(w) \in Seq(S) /\ Len(Tail(w)) = Len(w) - 1
         /\ DOMAIN Tail(w) = 1 .. Len(w) - 1
         /\ \A i \in 1 .. Len(w) - 1 : Tail(w)[i] = w[i + 1]
         /\ Tail(w) = <<>> <=> Len(w) = 1
<1>1. Len(w) \in Nat /\ Len(w) > 0 /\ w[1] \in S /\ DOMAIN w = 1 .. Len(w)
  OBVIOUS
<1>2. Tail(w) \in Seq(S) /\ Len(Tail(w)) = Len(w) - 1
  BY <1>1
<1>3. \A i \in 1 .. Len(w) - 1 : Tail(w)[i] = w[i + 1]
  BY <1>1
<1>4. DOMAIN Tail(w) = 1 .. Len(w) - 1
  BY <1>2
<1>5. Tail(w) = <<>> <=> Len(w) = 1
  <2>1. \A t \in Seq(S) : t = <<>> <=> Len(t) = 0
    OBVIOUS
  <2>2. PICK t : t = Tail(w)
    OBVIOUS
  <2>3. t \in Seq(S) /\ Len(t) = Len(w) - 1
    BY <1>2, <2>2
  <2>4. t = <<>> <=> Len(t) = 0
    BY <2>1, <2>3
  <2>5. Len(t) = 0 <=> Len(w) = 1
    BY <1>1, <2>3
  <2>6. QED
    BY <2>2, <2>4, <2>5
<1>6. QED
  BY <1>1, <1>2, <1>3, <1>4, <1>5

LEMMA CurrentShape ==
  ASSUME KnowledgeTypeOK, ListInv, stage # "idle"
  PROVE  /\ work \in Seq(Docs \X Unfinished) /\ work # <<>>
         /\ Current \in Docs /\ Current \in Listed
         /\ work[1][2] \in Unfinished
         /\ doc[Current] \in Unfinished \cup {"deleted"}
<1>1. work \in Seq(Docs \X Unfinished) /\ work # <<>>
  BY DEF KnowledgeTypeOK, ListInv
<1>2. 1 \in DOMAIN work /\ work[1] \in Docs \X Unfinished
  BY <1>1
<1>3. QED
  BY <1>1, <1>2 DEF Current, Listed, ListInv

LEMMA ListedDocs ==
  ASSUME KnowledgeTypeOK, NEW d \in Listed
  PROVE  d \in Docs
  BY DEF KnowledgeTypeOK, Listed

(* When the worker goes on, it is done with the first document for good.   *)
LEMMA TailListed ==
  ASSUME KnowledgeTypeOK, ListInv, stage # "idle", work' = Tail(work)
  PROVE  Listed' \subseteq Listed /\ Current \notin Listed'
<1>1. work \in Seq(Docs \X Unfinished) /\ work # <<>>
  BY CurrentShape
<1>2. /\ DOMAIN work = 1 .. Len(work) /\ Len(work) \in Nat
      /\ DOMAIN work' = 1 .. Len(work) - 1
      /\ \A i \in 1 .. Len(work) - 1 : work'[i] = work[i + 1]
  BY <1>1, TailShape
<1>3. ASSUME NEW i \in DOMAIN work'
      PROVE  work'[i][1] \in Listed /\ work'[i][1] # Current
  <2>1. i + 1 \in DOMAIN work /\ 1 \in DOMAIN work /\ i + 1 # 1 /\ work'[i] = work[i + 1]
    BY <1>2
  <2>2. QED
    BY <2>1 DEF Listed, Current, ListInv
<1>4. QED
  BY <1>3 DEF Listed

(* What a step of the worker, other than reading its list, does to the     *)
(* document it has come to.                                                *)
Moves(status) == Current \in Present /\ doc' = [doc EXCEPT ![Current] = status]

WorkerStep ==
    /\ stage # "idle" /\ WorkerFrame
    /\ \/ /\ work' = work /\ stage' \in {"parse", "embed", "store", "failing"}
          /\ UNCHANGED <<count, stored>>
          /\ doc' = doc \/ \E status \in Unfinished : Moves(status)
       \/ /\ NextDocument
          /\ UNCHANGED <<count, stored>>
          /\ doc' = doc \/ Moves("error") \/ (Moves("ready") /\ size[Current] = 0)
       \/ /\ NextDocument
          /\ stored' = [stored EXCEPT ![Current] = @ + size[Current]]
          /\ \/ /\ Moves("ready")
                /\ count' = [count EXCEPT ![Current] = size[Current]]
             \/ Current \notin Present /\ UNCHANGED <<doc, count>>

LEMMA WorkerSteps ==
  ASSUME KnowledgeTypeOK, ListInv, Worker
  PROVE  Poll \/ (WorkerStep /\ (NoFault \/ Fault))
<1>1. CASE Take
  <2>1. stage = "next" /\ stage # "idle" /\ Current \in Docs /\ work[1][2] \in Unfinished
    BY <1>1, CurrentShape DEF Take
  <2>2. CASE work[1][2] = "pending"
    BY <1>1, <2>1, <2>2 DEF Take, WorkerStep, Moves, SetDoc, Unfinished, Present, Rows, NoFault
  <2>3. CASE work[1][2] = "parsing"
    BY <1>1, <2>1, <2>3 DEF Take, WorkerStep, NoFault
  <2>4. CASE work[1][2] = "indexing"
    BY <1>1, <2>1, <2>4 DEF Take, WorkerStep, NoFault
  <2>5. QED
    BY <2>1, <2>2, <2>3, <2>4 DEF Unfinished
<1>2. CASE Parse
  BY <1>2 DEF Parse, WorkerStep, Moves, UpdateDocumentStatus, Unfinished
<1>3. CASE Embed
  BY <1>3 DEF Embed, WorkerStep, Moves, UpdateDocumentStatus
<1>4. CASE StoreChunks
  BY <1>4 DEF StoreChunks, WorkerStep, Moves, UpdateDocumentStatus, NoFault, Fault
<1>5. CASE MarkError
  BY <1>5 DEF MarkError, WorkerStep, Moves, UpdateDocumentStatus
<1>6. QED
  BY <1>1, <1>2, <1>3, <1>4, <1>5 DEF Worker

(* What the worker reads when it has nothing to do.                        *)
LEMMA PollList ==
  ASSUME KnowledgeBounds, KnowledgeTypeOK, Poll
  PROVE  /\ stage = "idle" /\ stage' = "next"
         /\ work' \in Seq(Docs \X Unfinished) /\ work' # <<>>
         /\ \A i \in DOMAIN work' : work'[i][1] \in Docs /\ doc[work'[i][1]] \in Unfinished
         /\ \A i, j \in DOMAIN work' : i # j => work'[i][1] # work'[j][1]
         /\ overlapped' = overlapped \cup ({d \in Docs : doc[d] \in Unfinished} \cap BeingDeleted)
         /\ UNCHANGED <<rowVars, deleteVars, faults, restarts, cut, homeless>>
<1>1. PICK unfinished : unfinished = {d \in Docs : doc[d] \in Unfinished}
  OBVIOUS
<1>2. PICK n : n = Cardinality(unfinished)
  OBVIOUS
<1>3. PICK order \in SetToSeqs(unfinished) :
         work' = [i \in DOMAIN order |-> <<order[i], doc[order[i]]>>]
  BY <1>1 DEF Poll
<1>4. /\ order \in [1 .. n -> unfinished]
      /\ \A i, j \in 1 .. n : i # j => order[i] # order[j]
  BY <1>2, <1>3 DEF SetToSeqs
<1>5. IsFiniteSet(unfinished) /\ unfinished # {}
  BY <1>1, FS_Subset DEF KnowledgeBounds, Poll
<1>6. n \in Nat /\ n > 0
  <2>1. n \in Nat
    BY <1>2, <1>5, FS_CardinalityType
  <2>2. n # 0
    BY <1>2, <1>5, FS_EmptySet
  <2>3. QED
    BY <2>1, <2>2
<1>7. DOMAIN work' = 1 .. n /\ \A i \in 1 .. n : work'[i] = <<order[i], doc[order[i]]>>
  BY <1>3, <1>4
<1>8. \A i \in 1 .. n : work'[i][1] = order[i] /\ order[i] \in Docs /\ doc[order[i]] \in Unfinished
                        /\ work'[i] \in Docs \X Unfinished
  <2>1. \A i \in 1 .. n : order[i] \in Docs /\ doc[order[i]] \in Unfinished
    BY <1>1, <1>4
  <2>2. TAKE i \in 1 .. n
  <2>3. work'[i] = <<order[i], doc[order[i]]>>
    BY <1>7
  <2>4. QED
    BY <2>1, <2>3
<1>9. work' \in Seq(Docs \X Unfinished)
  <2>1. work' = [i \in 1 .. n |-> <<order[i], doc[order[i]]>>]
    BY <1>3, <1>4
  <2>2. \A i \in 1 .. n : <<order[i], doc[order[i]]>> \in Docs \X Unfinished
    BY <1>7, <1>8
  <2>3. QED
    BY <1>6, <2>1, <2>2
<1>10. work' # <<>>
  BY <1>6, <1>7
<1>11. QED
  BY <1>1, <1>4, <1>7, <1>8, <1>9, <1>10
     DEF Poll, WorkerFrame, rowVars, deleteVars

-----------------------------------------------------------------------------
(* What an action keeps.                                                   *)

(* The steps of a behaviour, with those of the worker as described above.  *)
LEMMA StepCases ==
  ASSUME KnowledgeTypeOK, ListInv, [Next]_vars
  PROVE  \/ \E k \in KB : CreateKB(k) \/ DropChunks(k) \/ DropDocuments(k) \/ DropRow(k)
         \/ \E d \in Docs :
               \/ IngestDocument(d) \/ DeleteChunks(d) \/ DeleteRow(d)
               \/ \E k \in KB, n \in 0 .. MaxChunks : Upload(d, k, n)
         \/ Poll \/ (WorkerStep /\ (NoFault \/ Fault)) \/ Restart \/ UNCHANGED vars
  BY WorkerSteps DEF Next, Handlers

LEMMA TypeNext ==
  ASSUME KnowledgeBounds, Inv, [Next]_vars
  PROVE  KnowledgeTypeOK'
<1>a. /\ KnowledgeTypeOK /\ ListInv /\ ChunkInv
      /\ MaxChunks \in Nat /\ MaxFaults \in Nat /\ MaxRestarts \in Nat
  BY DEF Inv, KnowledgeBounds
<1>0. NoFault \/ Fault => faults' \in 0 .. MaxFaults
  BY <1>a DEF NoFault, Fault, KnowledgeTypeOK
<1>1. ASSUME NEW k \in KB, CreateKB(k) \/ DropRow(k)
      PROVE  KnowledgeTypeOK'
  BY <1>a, <1>0, <1>1 DEF KnowledgeTypeOK, CreateKB, DropRow, workVars, deleteVars, histVars
<1>2. ASSUME NEW k \in KB, DropChunks(k)
      PROVE  KnowledgeTypeOK'
  BY <1>a, <1>2 DEF KnowledgeTypeOK, DropChunks, workVars, In, Listed
<1>3. ASSUME NEW k \in KB, DropDocuments(k)
      PROVE  KnowledgeTypeOK'
  BY <1>a, <1>0, <1>3 DEF KnowledgeTypeOK, DropDocuments, workVars, histVars, Rows
<1>4. ASSUME NEW d \in Docs, IngestDocument(d) \/ DeleteRow(d)
      PROVE  KnowledgeTypeOK'
  BY <1>a, <1>0, <1>4 DEF KnowledgeTypeOK, IngestDocument, DeleteRow, workVars, deleteVars, histVars,
                          SetDoc, Rows, Unfinished
<1>5. ASSUME NEW d \in Docs, DeleteChunks(d)
      PROVE  KnowledgeTypeOK'
  BY <1>a, <1>5 DEF KnowledgeTypeOK, DeleteChunks, workVars
<1>6. ASSUME NEW d \in Docs, NEW k \in KB, NEW n \in 0 .. MaxChunks, Upload(d, k, n)
      PROVE  KnowledgeTypeOK'
  BY <1>a, <1>6 DEF KnowledgeTypeOK, Upload, workVars, deleteVars, SetDoc
<1>7. CASE Poll
  BY <1>a, <1>7, PollList DEF KnowledgeTypeOK, rowVars, deleteVars
<1>8. CASE WorkerStep /\ (NoFault \/ Fault)
  <2>1. /\ work \in Seq(Docs \X Unfinished) /\ work # <<>> /\ Current \in Docs
        /\ Current \in Listed /\ stage # "idle"
    BY <1>a, <1>8, CurrentShape DEF WorkerStep
  <2>2. work' \in Seq(Docs \X Unfinished)
        /\ stage' \in {"idle", "next", "parse", "embed", "store", "failing"}
    <3>1. Tail(work) \in Seq(Docs \X Unfinished)
      BY <2>1, TailShape
    <3>2. work' = work \/ work' = Tail(work)
      BY <1>8 DEF WorkerStep, NextDocument
    <3>3. stage' \in {"idle", "next", "parse", "embed", "store", "failing"}
      BY <1>8 DEF WorkerStep, NextDocument
    <3>4. QED
      BY <2>1, <3>1, <3>2, <3>3
  <2>3. doc' \in [Docs -> Rows \cup {"none", "uploading", "rejected", "deleted"}]
    BY <1>a, <1>8, <2>1 DEF WorkerStep, Moves, KnowledgeTypeOK, Rows
  <2>4. stored' \in [Docs -> 0 .. 2 * MaxChunks] /\ count' \in [Docs -> 0 .. MaxChunks]
    <3>1. stored[Current] = 0 /\ size[Current] \in 0 .. MaxChunks
      BY <1>a, <2>1 DEF ChunkInv, KnowledgeTypeOK
    <3>2. size[Current] \in 0 .. 2 * MaxChunks /\ stored[Current] + size[Current] = size[Current]
      BY <1>a, <3>1
    <3>3. stored' = stored \/ stored' = [stored EXCEPT ![Current] = size[Current]]
      BY <1>a, <1>8, <3>2 DEF WorkerStep
    <3>4. count' = count \/ count' = [count EXCEPT ![Current] = size[Current]]
      BY <1>8 DEF WorkerStep
    <3>5. QED
      BY <1>a, <2>1, <3>1, <3>2, <3>3, <3>4 DEF KnowledgeTypeOK
  <2>5. UNCHANGED <<kb, home, size, removal, dropping, restarts, cut, homeless, overlapped>>
    BY <1>8, <2>1 DEF WorkerStep, WorkerFrame, deleteVars
  <2>6. QED
    BY <1>a, <1>0, <1>8, <2>2, <2>3, <2>4, <2>5 DEF KnowledgeTypeOK
<1>9. CASE Restart
  <2>1. kb' \in [KB -> {"none", "ok", "unavailable", "deleted"}]
    BY <1>a, <1>9 DEF Restart, KnowledgeTypeOK, Verified
  <2>2. work' = <<>> /\ stage' = "idle" /\ removal' = {} /\ restarts' \in 0 .. MaxRestarts
        /\ dropping' \in [KB -> {"no", "documents", "row"}]
    BY <1>a, <1>9 DEF Restart, KnowledgeTypeOK
  <2>3. doc' \in [Docs -> Rows \cup {"none", "uploading", "rejected", "deleted"}]
    BY <1>a, <1>9 DEF Restart, KnowledgeTypeOK
  <2>4. UNCHANGED <<home, size, count, stored, faults, overlapped, cut, homeless>>
    BY <1>9 DEF Restart, histVars
  <2>5. QED
    BY <1>a, <2>1, <2>2, <2>3, <2>4 DEF KnowledgeTypeOK
<1>10. CASE UNCHANGED vars
  BY <1>a, <1>10 DEF KnowledgeTypeOK, vars, rowVars, workVars, deleteVars, histVars
<1>11. QED
  BY <1>a, <1>1, <1>2, <1>3, <1>4, <1>5, <1>6, <1>7, <1>8, <1>9, <1>10, StepCases

LEMMA HomeNext ==
  ASSUME KnowledgeBounds, Inv, [Next]_vars
  PROVE  HomeInv'
<1>a. KnowledgeTypeOK /\ ListInv /\ HomeInv
  BY DEF Inv
<1>1. ASSUME NEW k \in KB, CreateKB(k) \/ DropRow(k) \/ DropChunks(k) \/ DropDocuments(k)
      PROVE  HomeInv'
  <2>1. home' = home
    BY <1>1 DEF CreateKB, DropRow, DropChunks, DropDocuments
  <2>2. \A d \in Docs : doc'[d] = doc[d] \/ (d \in Present /\ doc'[d] = "deleted")
    BY <1>1 DEF CreateKB, DropRow, DropChunks, DropDocuments
  <2>3. QED
    BY <1>a, <2>1, <2>2 DEF HomeInv, Present, Rows, Unfinished
<1>2. ASSUME NEW d \in Docs, IngestDocument(d) \/ DeleteRow(d) \/ DeleteChunks(d)
      PROVE  HomeInv'
  BY <1>a, <1>2 DEF HomeInv, IngestDocument, DeleteRow, DeleteChunks, Present, Rows, Unfinished, SetDoc,
                    KnowledgeTypeOK
<1>3. ASSUME NEW d \in Docs, NEW k \in KB, NEW n \in 0 .. MaxChunks, Upload(d, k, n)
      PROVE  HomeInv'
  BY <1>a, <1>3 DEF HomeInv, Upload, SetDoc, KnowledgeTypeOK, KnowledgeBounds
<1>4. CASE Poll
  BY <1>a, <1>4, PollList DEF HomeInv, rowVars
<1>5. CASE WorkerStep
  <2>1. Current \in Docs /\ home' = home
    BY <1>a, <1>5, CurrentShape DEF WorkerStep, WorkerFrame
  <2>2. \A d \in Docs : doc'[d] = doc[d] \/ (d \in Present /\ doc'[d] # "none")
    BY <1>a, <1>5, <2>1 DEF WorkerStep, Moves, Unfinished, KnowledgeTypeOK
  <2>3. QED
    BY <1>a, <2>1, <2>2 DEF HomeInv, Present, Rows, Unfinished
<1>6. CASE Restart
  BY <1>a, <1>6 DEF HomeInv, Restart, KnowledgeTypeOK
<1>7. CASE UNCHANGED vars
  BY <1>a, <1>7 DEF HomeInv, vars, rowVars
<1>8. QED
  BY <1>a, <1>1, <1>2, <1>3, <1>4, <1>5, <1>6, <1>7, StepCases

(* A status changes from unfinished only by the worker, or to deleted.     *)
LEMMA ListNext ==
  ASSUME KnowledgeBounds, Inv, [Next]_vars
  PROVE  ListInv'
<1>a. KnowledgeTypeOK /\ ListInv
  BY DEF Inv
<1>0. ASSUME UNCHANGED <<work, stage>>,
             \A d \in Docs : doc[d] \in Unfinished \cup {"deleted"} =>
                                doc'[d] \in Unfinished \cup {"deleted"}
      PROVE  ListInv'
  <2>1. \A i \in DOMAIN work : work[i][1] \in Docs
    BY <1>a, ListedDocs DEF Listed
  <2>2. QED
    BY <1>a, <1>0, <2>1 DEF ListInv
<1>1. ASSUME NEW k \in KB, CreateKB(k) \/ DropRow(k) \/ DropChunks(k) \/ DropDocuments(k)
      PROVE  ListInv'
  BY <1>a, <1>0, <1>1 DEF CreateKB, DropRow, DropChunks, DropDocuments, workVars, KnowledgeTypeOK
<1>2. ASSUME NEW d \in Docs, IngestDocument(d) \/ DeleteRow(d) \/ DeleteChunks(d)
      PROVE  ListInv'
  BY <1>a, <1>0, <1>2 DEF IngestDocument, DeleteRow, DeleteChunks, workVars, SetDoc, Unfinished,
                          KnowledgeTypeOK
<1>3. ASSUME NEW d \in Docs, NEW k \in KB, NEW n \in 0 .. MaxChunks, Upload(d, k, n)
      PROVE  ListInv'
  BY <1>a, <1>0, <1>3 DEF Upload, SetDoc, workVars, Unfinished, KnowledgeTypeOK
<1>4. CASE Poll
  <2>1. /\ stage' = "next" /\ work' # <<>> /\ doc' = doc
        /\ \A i \in DOMAIN work' : doc[work'[i][1]] \in Unfinished
        /\ \A i, j \in DOMAIN work' : i # j => work'[i][1] # work'[j][1]
    BY <1>a, <1>4, PollList DEF rowVars
  <2>2. QED
    BY <2>1 DEF ListInv
<1>5. CASE WorkerStep
  <2>1. /\ work \in Seq(Docs \X Unfinished) /\ work # <<>> /\ Current \in Docs
        /\ Current \in Listed /\ stage # "idle"
    BY <1>a, <1>5, CurrentShape DEF WorkerStep
  <2>2. \A d \in Docs : \/ doc'[d] = doc[d]
                        \/ d = Current /\ (doc'[d] \in Unfinished \/ NextDocument)
    BY <1>a, <1>5 DEF WorkerStep, Moves, KnowledgeTypeOK
  <2>3. CASE work' = work /\ ~NextDocument
    <3>1. stage' # "idle" /\ work' # <<>>
      BY <1>5, <2>1, <2>3 DEF WorkerStep
    <3>2. \A i \in DOMAIN work : doc'[work[i][1]] \in Unfinished \cup {"deleted"}
      <4>1. TAKE i \in DOMAIN work
      <4>2. work[i][1] \in Docs
        BY <1>a, ListedDocs DEF Listed
      <4>3. QED
        BY <1>a, <2>2, <2>3, <4>2 DEF ListInv
    <3>3. QED
      BY <1>a, <2>3, <3>1, <3>2 DEF ListInv
  <2>4. CASE NextDocument
    <3>1. /\ DOMAIN work = 1 .. Len(work) /\ Len(work) \in Nat
          /\ DOMAIN work' = 1 .. Len(work) - 1
          /\ \A i \in 1 .. Len(work) - 1 : work'[i] = work[i + 1]
          /\ work' = <<>> <=> Len(work) = 1
      BY <2>1, <2>4, TailShape DEF NextDocument
    <3>2. stage' = "idle" <=> work' = <<>>
      BY <2>4, <3>1 DEF NextDocument
    <3>3. ASSUME NEW i \in DOMAIN work'
          PROVE  doc'[work'[i][1]] \in Unfinished \cup {"deleted"}
      <4>1. i + 1 \in DOMAIN work /\ 1 \in DOMAIN work /\ i + 1 # 1 /\ work'[i] = work[i + 1]
        BY <3>1
      <4>2. work'[i][1] \in Docs /\ work'[i][1] # Current
        BY <1>a, <4>1, ListedDocs DEF Listed, ListInv, Current
      <4>3. doc[work'[i][1]] \in Unfinished \cup {"deleted"}
        BY <1>a, <4>1 DEF ListInv
      <4>4. QED
        BY <2>2, <4>2, <4>3
    <3>4. ASSUME NEW i \in DOMAIN work', NEW j \in DOMAIN work', i # j
          PROVE  work'[i][1] # work'[j][1]
      <4>1. i + 1 \in DOMAIN work /\ j + 1 \in DOMAIN work /\ i + 1 # j + 1
            /\ work'[i] = work[i + 1] /\ work'[j] = work[j + 1]
        BY <3>1, <3>4
      <4>2. QED
        BY <1>a, <4>1 DEF ListInv
    <3>5. QED
      BY <3>2, <3>3, <3>4 DEF ListInv
  <2>5. QED
    BY <1>5, <2>3, <2>4 DEF WorkerStep
<1>6. CASE Restart
  BY <1>6 DEF ListInv, Restart
<1>7. CASE UNCHANGED vars
  BY <1>a, <1>7 DEF ListInv, vars, rowVars, workVars
<1>8. QED
  BY <1>a, <1>1, <1>2, <1>3, <1>4, <1>5, <1>6, <1>7, StepCases


(* The effect of such a step, document by document.                        *)
LEMMA WorkerEffect ==
  ASSUME Inv, WorkerStep
  PROVE  LET c == Current IN
         /\ c \in Docs /\ c \in Listed /\ Listed' \subseteq Listed
         /\ stored[c] = 0 /\ doc[c] \in Unfinished \cup {"deleted"}
         /\ \A d \in Docs \ {c} :
               doc'[d] = doc[d] /\ stored'[d] = stored[d] /\ count'[d] = count[d]
         /\ \/ /\ stored'[c] = 0 /\ count'[c] = count[c]
               /\ doc'[c] = doc[c] \/ (c \in Present /\ doc'[c] \in Unfinished)
            \/ /\ stored'[c] = 0 /\ count'[c] = count[c] /\ c \notin Listed' /\ c \in Present
               /\ doc'[c] = "error" \/ (doc'[c] = "ready" /\ size[c] = 0)
            \/ /\ stored'[c] = size[c] /\ count'[c] = size[c] /\ c \notin Listed' /\ c \in Present
               /\ doc'[c] = "ready"
            \/ /\ stored'[c] = size[c] /\ count'[c] = count[c] /\ c \notin Listed'
               /\ doc[c] = "deleted" /\ doc'[c] = "deleted"
         /\ UNCHANGED <<kb, home, size, removal, dropping, restarts, cut, homeless, overlapped>>
<1>1. /\ KnowledgeTypeOK /\ ListInv /\ ChunkInv /\ stage # "idle"
  BY DEF Inv, WorkerStep
<1>2. PICK c : c = Current
  OBVIOUS
<1>3. /\ c \in Docs /\ c \in Listed /\ stored[c] = 0 /\ doc[c] \in Unfinished \cup {"deleted"}
      /\ size[c] \in Nat
  BY <1>1, <1>2, CurrentShape DEF ChunkInv, KnowledgeTypeOK
<1>4. Listed' \subseteq Listed /\ (NextDocument => c \notin Listed')
  <2>1. CASE work' = work
    <3>1. NextDocument => FALSE
      <4>1. work \in Seq(Docs \X Unfinished) /\ work # <<>>
        BY <1>1, CurrentShape
      <4>2. Len(Tail(work)) = Len(work) - 1 /\ Len(work) \in Nat
        BY <4>1, TailShape
      <4>3. QED
        BY <2>1, <4>2 DEF NextDocument
    <3>2. QED
      BY <2>1, <3>1 DEF Listed
  <2>2. CASE NextDocument
    BY <1>1, <1>2, <2>2, TailListed DEF NextDocument
  <2>3. QED
    BY <2>1, <2>2 DEF WorkerStep
<1>5. UNCHANGED <<kb, home, size, removal, dropping, restarts, cut, homeless, overlapped>>
  BY <1>1 DEF WorkerStep, WorkerFrame, deleteVars
<1>6. /\ DOMAIN doc = Docs /\ DOMAIN stored = Docs /\ DOMAIN count = Docs
  BY <1>1 DEF KnowledgeTypeOK
<1>7. \A status : Moves(status) =>
          c \in Present /\ doc'[c] = status /\ \A d \in Docs \ {c} : doc'[d] = doc[d]
  BY <1>2, <1>3, <1>6 DEF Moves
<1>8. CASE work' = work /\ UNCHANGED <<count, stored>>
           /\ (doc' = doc \/ \E status \in Unfinished : Moves(status))
  BY <1>2, <1>3, <1>4, <1>5, <1>7, <1>8
<1>9. CASE NextDocument /\ UNCHANGED <<count, stored>>
           /\ (doc' = doc \/ Moves("error") \/ (Moves("ready") /\ size[Current] = 0))
  BY <1>2, <1>3, <1>4, <1>5, <1>7, <1>9
<1>10. CASE /\ NextDocument
            /\ stored' = [stored EXCEPT ![Current] = @ + size[Current]]
            /\ \/ /\ Moves("ready")
                  /\ count' = [count EXCEPT ![Current] = size[Current]]
               \/ Current \notin Present /\ UNCHANGED <<doc, count>>
  <2>1. stored'[c] = size[c] /\ \A d \in Docs \ {c} : stored'[d] = stored[d]
    BY <1>2, <1>3, <1>6, <1>10
  <2>2. CASE Moves("ready") /\ count' = [count EXCEPT ![Current] = size[Current]]
    <3>1. count'[c] = size[c] /\ \A d \in Docs \ {c} : count'[d] = count[d]
      BY <1>2, <1>3, <1>6, <2>2
    <3>2. QED
      BY <1>2, <1>3, <1>4, <1>5, <1>7, <1>10, <2>1, <2>2, <3>1
  <2>3. CASE Current \notin Present /\ UNCHANGED <<doc, count>>
    <3>1. doc[c] = "deleted"
      BY <1>2, <1>3, <2>3 DEF Present, Rows
    <3>2. QED
      BY <1>2, <1>3, <1>4, <1>5, <1>10, <2>1, <2>3, <3>1
  <2>4. QED
    BY <1>10, <2>2, <2>3
<1>11. QED
  BY <1>8, <1>9, <1>10 DEF WorkerStep

LEMMA ChunkNext ==
  ASSUME KnowledgeBounds, Inv, [Next]_vars
  PROVE  ChunkInv'
<1>a. KnowledgeTypeOK /\ ListInv /\ ChunkInv /\ HomeInv
  BY DEF Inv
<1>0. ASSUME UNCHANGED <<work, size, count>>, cut \subseteq cut',
             \A d \in Docs : \/ stored'[d] = stored[d]
                             \/ stored'[d] = 0 /\ d \in cut',
             \A d \in Docs : \/ doc'[d] = doc[d]
                             \/ doc[d] \notin {"ready", "deleted"} /\ doc'[d] \notin {"ready", "deleted"}
                             \/ doc'[d] = "deleted"
      PROVE  ChunkInv'
  <2>1. Listed' = Listed
    BY <1>0 DEF Listed
  <2>2. QED
    BY <1>a, <1>0, <2>1 DEF ChunkInv
<1>1. ASSUME NEW k \in KB, CreateKB(k) \/ DropRow(k)
      PROVE  ChunkInv'
  BY <1>0, <1>1 DEF CreateKB, DropRow, workVars, histVars
<1>2. ASSUME NEW k \in KB, DropChunks(k)
      PROVE  ChunkInv'
  BY <1>0, <1>2 DEF DropChunks, In, workVars
<1>3. ASSUME NEW k \in KB, DropDocuments(k)
      PROVE  ChunkInv'
  BY <1>0, <1>3 DEF DropDocuments, workVars, histVars
<1>4. ASSUME NEW d \in Docs, IngestDocument(d)
      PROVE  ChunkInv'
  BY <1>a, <1>0, <1>4 DEF IngestDocument, SetDoc, workVars, histVars, KnowledgeTypeOK
<1>5. ASSUME NEW d \in Docs, DeleteRow(d)
      PROVE  ChunkInv'
  BY <1>a, <1>0, <1>5 DEF DeleteRow, workVars, histVars, KnowledgeTypeOK
<1>6. ASSUME NEW d \in Docs, DeleteChunks(d)
      PROVE  ChunkInv'
  BY <1>a, <1>0, <1>6 DEF DeleteChunks, workVars, KnowledgeTypeOK
<1>7. ASSUME NEW d \in Docs, NEW k \in KB, NEW n \in 0 .. MaxChunks, Upload(d, k, n)
      PROVE  ChunkInv'
  <2>1. /\ doc[d] = "none" /\ stored[d] = 0 /\ count[d] = 0
        /\ doc'[d] = "uploading" /\ UNCHANGED <<work, stored, count, cut>>
        /\ \A e \in Docs \ {d} : doc'[e] = doc[e] /\ size'[e] = size[e]
    BY <1>a, <1>7 DEF Upload, SetDoc, ChunkInv, workVars, KnowledgeTypeOK
  <2>2. Listed' = Listed
    BY <2>1 DEF Listed
  <2>3. QED
    BY <1>a, <2>1, <2>2 DEF ChunkInv
<1>8. CASE Poll
  <2>1. Listed' \subseteq {d \in Docs : doc[d] \in Unfinished} /\ UNCHANGED <<doc, size, stored, count, cut>>
    BY <1>a, <1>8, PollList DEF Listed, rowVars
  <2>2. QED
    BY <1>a, <2>1 DEF ChunkInv, Unfinished
<1>9. CASE WorkerStep
  BY <1>a, <1>9, WorkerEffect DEF ChunkInv, Unfinished, Present, Rows
<1>10. CASE Restart
  <2>1. Listed' = {} /\ UNCHANGED <<size, stored, count, cut>>
    BY <1>10 DEF Restart, Listed, histVars
  <2>2. \A d \in Docs : doc'[d] = doc[d] \/ (doc[d] = "uploading" /\ doc'[d] = "rejected")
    BY <1>10 DEF Restart
  <2>3. QED
    BY <1>a, <2>1, <2>2 DEF ChunkInv
<1>11. CASE UNCHANGED vars
  BY <1>0, <1>11 DEF vars, rowVars, workVars, histVars
<1>12. QED
  BY <1>a, <1>1, <1>2, <1>3, <1>4, <1>5, <1>6, <1>7, <1>8, <1>9, <1>10, <1>11, StepCases

LEMMA DeletionNext ==
  ASSUME KnowledgeBounds, Inv, [Next]_vars
  PROVE  DeletionInv'
<1>a. KnowledgeTypeOK /\ ListInv /\ ChunkInv /\ DeletionInv /\ HomeInv
  BY DEF Inv
<1>0. ASSUME work' = work, stored' = stored, overlapped' = overlapped,
             \A d \in Docs : doc'[d] = "deleted" => d \in BeingDeleted \/ doc[d] = "deleted",
             BeingDeleted' \subseteq BeingDeleted
      PROVE  DeletionInv'
  <2>1. Listed' = Listed
    BY <1>0 DEF Listed
  <2>2. QED
    BY <1>a, <1>0, <2>1 DEF DeletionInv
<1>1. ASSUME NEW k \in KB, CreateKB(k)
      PROVE  DeletionInv'
  <2>1. UNCHANGED <<work, stored, overlapped, doc, removal, home, dropping>>
    BY <1>1 DEF CreateKB, workVars, deleteVars, histVars
  <2>2. QED
    BY <1>0, <2>1 DEF BeingDeleted
<1>2. ASSUME NEW k \in KB, DropRow(k)
      PROVE  DeletionInv'
  <2>1. UNCHANGED <<work, stored, overlapped, doc, removal, home>>
    BY <1>2 DEF DropRow, workVars, histVars
  <2>2. \A j \in KB : dropping'[j] = dropping[j] \/ dropping'[j] = "no"
    BY <1>a, <1>2 DEF DropRow, KnowledgeTypeOK
  <2>3. QED
    BY <1>0, <2>1, <2>2 DEF BeingDeleted
<1>3. ASSUME NEW k \in KB, DropChunks(k)
      PROVE  DeletionInv'
  <2>1. /\ UNCHANGED <<work, doc, removal, home>>
        /\ overlapped' = overlapped \cup (In(k) \cap Listed)
        /\ \A d \in Docs : stored'[d] = IF home[d] = k THEN 0 ELSE stored[d]
    BY <1>3 DEF DropChunks, workVars
  <2>2. \A j \in KB \ {k} : dropping'[j] = dropping[j]
    BY <1>a, <1>3 DEF DropChunks, KnowledgeTypeOK
  <2>3. BeingDeleted' \subseteq BeingDeleted \cup In(k)
    BY <2>1, <2>2 DEF BeingDeleted, In
  <2>4. Listed' = Listed
    BY <2>1 DEF Listed
  <2>5. QED
    BY <1>a, <2>1, <2>3, <2>4 DEF DeletionInv, In
<1>4. ASSUME NEW k \in KB, DropDocuments(k)
      PROVE  DeletionInv'
  <2>1. UNCHANGED <<work, stored, overlapped, removal, home>>
    BY <1>4 DEF DropDocuments, workVars, histVars
  <2>2. \A j \in KB : dropping[j] = "no" => dropping'[j] = "no"
    BY <1>a, <1>4 DEF DropDocuments, KnowledgeTypeOK
  <2>3. BeingDeleted' \subseteq BeingDeleted
    BY <2>1, <2>2 DEF BeingDeleted
  <2>4. \A d \in Docs : doc'[d] = doc[d] \/ d \in In(k)
    BY <1>4 DEF DropDocuments
  <2>5. \A d \in In(k) : d \in BeingDeleted
    BY <1>4 DEF DropDocuments, BeingDeleted, In
  <2>6. QED
    BY <1>0, <2>1, <2>3, <2>4, <2>5
<1>5. ASSUME NEW d \in Docs, IngestDocument(d)
      PROVE  DeletionInv'
  <2>1. UNCHANGED <<work, stored, overlapped, removal, home, dropping>>
    BY <1>5 DEF IngestDocument, workVars, deleteVars, histVars
  <2>2. \A e \in Docs : doc'[e] = doc[e] \/ doc'[e] # "deleted"
    BY <1>a, <1>5 DEF IngestDocument, SetDoc, KnowledgeTypeOK
  <2>3. QED
    BY <1>0, <2>1, <2>2 DEF BeingDeleted
<1>6. ASSUME NEW d \in Docs, DeleteRow(d)
      PROVE  DeletionInv'
  <2>1. UNCHANGED <<work, stored, overlapped, home, dropping>> /\ removal' \subseteq removal
    BY <1>6 DEF DeleteRow, workVars, histVars
  <2>2. \A e \in Docs : doc'[e] = doc[e] \/ e = d
    BY <1>a, <1>6 DEF DeleteRow, KnowledgeTypeOK
  <2>3. d \in BeingDeleted
    BY <1>6 DEF DeleteRow, BeingDeleted
  <2>4. QED
    BY <1>0, <2>1, <2>2, <2>3 DEF BeingDeleted
<1>7. ASSUME NEW d \in Docs, DeleteChunks(d)
      PROVE  DeletionInv'
  <2>1. /\ UNCHANGED <<work, doc, home, dropping>> /\ removal' = removal \cup {d}
        /\ overlapped' = overlapped \cup ({d} \cap Listed)
        /\ stored'[d] = 0 /\ \A e \in Docs \ {d} : stored'[e] = stored[e]
    BY <1>a, <1>7 DEF DeleteChunks, workVars, KnowledgeTypeOK
  <2>2. BeingDeleted' = BeingDeleted \cup {d}
    BY <2>1 DEF BeingDeleted
  <2>3. Listed' = Listed
    BY <2>1 DEF Listed
  <2>4. QED
    BY <1>a, <2>1, <2>2, <2>3 DEF DeletionInv
<1>8. ASSUME NEW d \in Docs, NEW k \in KB, NEW n \in 0 .. MaxChunks, Upload(d, k, n)
      PROVE  DeletionInv'
  <2>1. /\ UNCHANGED <<work, stored, overlapped, removal, dropping>>
        /\ doc[d] = "none" /\ doc'[d] # "deleted"
        /\ \A e \in Docs \ {d} : doc'[e] = doc[e] /\ home'[e] = home[e]
    BY <1>a, <1>8 DEF Upload, SetDoc, workVars, deleteVars, KnowledgeTypeOK
  <2>2. d \notin Listed /\ stored[d] = 0
    BY <1>a, <2>1 DEF Listed, ListInv, ChunkInv, Unfinished
  <2>3. Listed' = Listed
    BY <2>1 DEF Listed
  <2>4. BeingDeleted' \subseteq BeingDeleted \cup {d}
    BY <2>1 DEF BeingDeleted
  <2>5. QED
    BY <1>a, <2>1, <2>2, <2>3, <2>4 DEF DeletionInv
<1>9. CASE Poll
  <2>1. /\ Listed' \subseteq {d \in Docs : doc[d] \in Unfinished}
        /\ UNCHANGED <<doc, stored, home, removal, dropping>>
        /\ overlapped' = overlapped \cup ({d \in Docs : doc[d] \in Unfinished} \cap BeingDeleted)
    BY <1>a, <1>9, PollList DEF Listed, rowVars, deleteVars
  <2>2. BeingDeleted' = BeingDeleted
    BY <2>1 DEF BeingDeleted
  <2>3. ASSUME NEW d \in Docs, d \in BeingDeleted' \/ doc'[d] = "deleted",
               d \in Listed' \/ stored'[d] > 0
        PROVE  d \in overlapped'
    BY <1>a, <2>1, <2>2, <2>3 DEF DeletionInv, Unfinished
  <2>4. QED
    BY <2>3 DEF DeletionInv
<1>10. CASE WorkerStep
  <2>1. PICK c : c = Current
    OBVIOUS
  <2>2. /\ c \in Listed /\ Listed' \subseteq Listed
        /\ \A d \in Docs \ {c} : stored'[d] = stored[d]
        /\ \A d \in Docs : doc'[d] = "deleted" => doc[d] = "deleted"
        /\ UNCHANGED <<home, removal, dropping, overlapped>>
    BY <1>10, <2>1, WorkerEffect DEF Unfinished
  <2>3. BeingDeleted' = BeingDeleted
    BY <2>2 DEF BeingDeleted
  <2>4. QED
    BY <1>a, <2>2, <2>3 DEF DeletionInv
<1>11. CASE Restart
  <2>1. /\ Listed' = {} /\ UNCHANGED <<home, stored, overlapped>> /\ removal' = {}
        /\ \A k \in KB : dropping'[k] = "no"
        /\ \A d \in Docs : doc'[d] = "deleted" => doc[d] = "deleted"
    BY <1>11 DEF Restart, Listed, histVars
  <2>2. BeingDeleted' = {}
    BY <2>1 DEF BeingDeleted
  <2>3. QED
    BY <1>a, <2>1, <2>2 DEF DeletionInv
<1>12. CASE UNCHANGED vars
  <2>1. UNCHANGED <<work, stored, overlapped, doc, removal, home, dropping>>
    BY <1>12 DEF vars, rowVars, workVars, deleteVars, histVars
  <2>2. QED
    BY <1>0, <2>1 DEF BeingDeleted
<1>13. QED
  BY <1>a, <1>1, <1>2, <1>3, <1>4, <1>5, <1>6, <1>7, <1>8, <1>9, <1>10, <1>11, <1>12, StepCases

LEMMA HomelessNext ==
  ASSUME KnowledgeBounds, Inv, [Next]_vars
  PROVE  HomelessInv'
<1>a. KnowledgeTypeOK /\ ListInv /\ HomeInv /\ HomelessInv
  BY DEF Inv
<1>0. ASSUME home' = home, homeless \subseteq homeless',
             \A d \in Docs : \/ doc'[d] = doc[d]
                             \/ d \in Present /\ doc'[d] \in Rows
                             \/ doc'[d] \in {"deleted", "rejected"},
             \A k \in KB : /\ dropping'[k] = dropping[k] \/ dropping'[k] = "no"
                           /\ kb'[k] = "deleted" => kb[k] = "deleted" \/ dropping[k] = "row"
      PROVE  HomelessInv'
  <2>1. SUFFICES ASSUME NEW d \in Docs, home[d] \in KB
                 PROVE  LET k == home[d] IN
                        /\ doc'[d] = "uploading" /\ (dropping'[k] # "no" \/ kb'[k] = "deleted")
                           => d \in homeless'
                        /\ d \in Present' /\ (dropping'[k] = "row" \/ kb'[k] = "deleted")
                           => d \in homeless'
    BY <1>0 DEF HomelessInv
  <2>2. /\ doc'[d] = "uploading" => doc[d] = "uploading"
        /\ d \in Present' => d \in Present
    BY <1>0 DEF Present, Rows, Unfinished
  <2>3. QED
    BY <1>a, <1>0, <2>1, <2>2 DEF HomelessInv
<1>1. ASSUME NEW k \in KB, CreateKB(k)
      PROVE  HomelessInv'
  <2>1. UNCHANGED <<doc, home, dropping, homeless>>
    BY <1>1 DEF CreateKB, deleteVars, histVars
  <2>2. \A j \in KB : kb'[j] = "deleted" => kb[j] = "deleted"
    BY <1>a, <1>1 DEF CreateKB, KnowledgeTypeOK
  <2>3. QED
    BY <1>0, <2>1, <2>2
<1>2. ASSUME NEW k \in KB, DropRow(k)
      PROVE  HomelessInv'
  <2>1. UNCHANGED <<doc, home, homeless>>
    BY <1>2 DEF DropRow, histVars
  <2>2. \A j \in KB : /\ dropping'[j] = dropping[j] \/ dropping'[j] = "no"
                      /\ kb'[j] = "deleted" => kb[j] = "deleted" \/ dropping[j] = "row"
    BY <1>a, <1>2 DEF DropRow, KnowledgeTypeOK
  <2>3. QED
    BY <1>0, <2>1, <2>2
<1>3. ASSUME NEW k \in KB, DropChunks(k)
      PROVE  HomelessInv'
  <2>1. /\ UNCHANGED <<kb, doc, home>> /\ kb[k] # "deleted" /\ dropping'[k] = "documents"
        /\ homeless' = homeless \cup {d \in In(k) : doc[d] = "uploading"}
        /\ \A j \in KB \ {k} : dropping'[j] = dropping[j]
    BY <1>a, <1>3 DEF DropChunks, KnowledgeTypeOK
  <2>2. Present' = Present
    BY <2>1 DEF Present
  <2>3. QED
    BY <1>a, <2>1, <2>2 DEF HomelessInv, In
<1>4. ASSUME NEW k \in KB, DropDocuments(k)
      PROVE  HomelessInv'
  <2>1. UNCHANGED <<kb, home, homeless>>
    BY <1>4 DEF DropDocuments, histVars
  <2>2. CASE dropping' = [dropping EXCEPT ![k] = "no"] /\ UNCHANGED doc
    <3>1. \A j \in KB : dropping'[j] = dropping[j] \/ dropping'[j] = "no"
      BY <1>a, <2>2 DEF KnowledgeTypeOK
    <3>2. QED
      BY <1>0, <2>1, <2>2, <3>1
  <2>3. CASE /\ doc' = [d \in Docs |-> IF d \in In(k) \cap Present THEN "deleted" ELSE doc[d]]
             /\ dropping' = [dropping EXCEPT ![k] = "row"]
    <3>1. /\ dropping[k] # "no"
          /\ \A j \in KB \ {k} : dropping'[j] = dropping[j]
      BY <1>a, <1>4, <2>3 DEF DropDocuments, KnowledgeTypeOK
    <3>2. \A d \in Docs : /\ doc'[d] = "uploading" => doc[d] = "uploading"
                          /\ d \in Present' => d \in Present /\ d \notin In(k)
      BY <2>3 DEF Present, Rows, Unfinished
    <3>3. QED
      BY <1>a, <2>1, <3>1, <3>2 DEF HomelessInv, In
  <2>4. QED
    BY <1>4, <2>2, <2>3 DEF DropDocuments
<1>5. ASSUME NEW d \in Docs, IngestDocument(d)
      PROVE  HomelessInv'
  <2>1. /\ UNCHANGED <<kb, home, dropping, homeless>>
        /\ doc[d] = "uploading" /\ doc'[d] # "uploading"
        /\ \A e \in Docs \ {d} : doc'[e] = doc[e]
    BY <1>a, <1>5 DEF IngestDocument, SetDoc, deleteVars, histVars, KnowledgeTypeOK
  <2>2. QED
    BY <1>a, <2>1 DEF HomelessInv, Present
<1>6. ASSUME NEW d \in Docs, DeleteRow(d) \/ DeleteChunks(d)
      PROVE  HomelessInv'
  <2>1. UNCHANGED <<kb, home, dropping, homeless>>
    BY <1>6 DEF DeleteRow, DeleteChunks, histVars
  <2>2. \A e \in Docs : doc'[e] = doc[e] \/ doc'[e] = "deleted"
    BY <1>a, <1>6 DEF DeleteRow, DeleteChunks, KnowledgeTypeOK
  <2>3. QED
    BY <1>0, <2>1, <2>2
<1>7. ASSUME NEW d \in Docs, NEW k \in KB, NEW n \in 0 .. MaxChunks, Upload(d, k, n)
      PROVE  HomelessInv'
  <2>1. /\ UNCHANGED <<kb, dropping>> /\ kb[k] # "deleted"
        /\ homeless \subseteq homeless' /\ (dropping[k] # "no" => d \in homeless')
        /\ doc'[d] = "uploading" /\ home'[d] = k
        /\ \A e \in Docs \ {d} : doc'[e] = doc[e] /\ home'[e] = home[e]
    BY <1>a, <1>7 DEF Upload, SetDoc, deleteVars, KnowledgeTypeOK
  <2>2. QED
    BY <1>a, <2>1 DEF HomelessInv, Present, Rows, Unfinished
<1>8. CASE Poll
  <2>1. UNCHANGED <<kb, doc, home, dropping, homeless>>
    BY <1>a, <1>8, PollList DEF rowVars, deleteVars
  <2>2. QED
    BY <1>0, <2>1
<1>9. CASE WorkerStep
  <2>1. /\ UNCHANGED <<kb, home, dropping, homeless>>
        /\ \A d \in Docs : doc'[d] = doc[d] \/ (d \in Present /\ doc'[d] \in Rows)
    BY <1>9, WorkerEffect DEF Rows
  <2>2. QED
    BY <1>0, <2>1
<1>10. CASE Restart
  <2>1. /\ UNCHANGED <<home, homeless>>
        /\ \A d \in Docs : doc'[d] = doc[d] \/ doc'[d] = "rejected"
        /\ \A k \in KB : dropping'[k] = "no"
    BY <1>10 DEF Restart, histVars
  <2>2. \A k \in KB : kb'[k] = "deleted" => kb[k] = "deleted"
    BY <1>10 DEF Restart, Verified
  <2>3. QED
    BY <1>0, <2>1, <2>2
<1>11. CASE UNCHANGED vars
  BY <1>0, <1>11 DEF vars, rowVars, deleteVars, histVars
<1>12. QED
  BY <1>a, <1>1, <1>2, <1>3, <1>4, <1>5, <1>6, <1>7, <1>8, <1>9, <1>10, <1>11, StepCases

(* Where no deletion has been, every chunk is counted by a document that   *)
(* is ready, and the check at the start finds the same total twice.        *)
LEMMA VerifiedUncut ==
  ASSUME Inv, NEW k \in KB, In(k) \cap (cut \cup overlapped) = {}
  PROVE  Verified(k) = "ok"
<1>1. KnowledgeTypeOK /\ ChunkInv /\ DeletionInv
  BY DEF Inv
<1>2. \A d \in In(k) : /\ doc[d] = "ready" => stored[d] = count[d]
                       /\ doc[d] # "ready" => stored[d] = 0
  <2>1. SUFFICES ASSUME NEW d \in In(k)
                 PROVE  /\ doc[d] = "ready" => stored[d] = count[d]
                        /\ doc[d] # "ready" => stored[d] = 0
    OBVIOUS
  <2>2. d \in Docs /\ d \notin cut /\ d \notin overlapped /\ stored[d] \in Nat
    BY <1>1 DEF In, KnowledgeTypeOK
  <2>3. doc[d] = "deleted" => ~(stored[d] > 0)
    BY <1>1, <2>2 DEF DeletionInv
  <2>4. QED
    BY <1>1, <2>2, <2>3 DEF ChunkInv
<1>3. \A c \in In(k) \X (1 .. 2 * MaxChunks) :
         c[2] <= stored[c[1]] <=> doc[c[1]] = "ready" /\ c[2] <= count[c[1]]
  <2>1. SUFFICES ASSUME NEW d \in In(k), NEW n \in 1 .. 2 * MaxChunks
                 PROVE  n <= stored[d] <=> doc[d] = "ready" /\ n <= count[d]
    OBVIOUS
  <2>2. n \in Int /\ ~(n <= 0)
    OBVIOUS
  <2>3. QED
    BY <1>2, <2>2
<1>4. {c \in {d \in In(k) : doc[d] = "ready"} \X (1 .. 2 * MaxChunks) : c[2] <= count[c[1]]}
      = {c \in In(k) \X (1 .. 2 * MaxChunks) : c[2] <= stored[c[1]]}
  BY <1>3
<1>5. QED
  BY <1>4 DEF Verified, Total

LEMMA UnavailableNext ==
  ASSUME KnowledgeBounds, Inv, [Next]_vars
  PROVE  UnavailableOnlyIfCut'
<1>a. KnowledgeTypeOK /\ ListInv /\ HomeInv /\ UnavailableOnlyIfCut
  BY DEF Inv
<1>0. ASSUME \A k \in KB : In(k) \subseteq In(k)', cut \subseteq cut', overlapped \subseteq overlapped',
             \A k \in KB : kb'[k] = "unavailable" => kb[k] = "unavailable"
      PROVE  UnavailableOnlyIfCut'
  BY <1>a, <1>0 DEF UnavailableOnlyIfCut
<1>1. home' = home => \A k \in KB : In(k) \subseteq In(k)'
  BY DEF In
<1>2. ASSUME NEW k \in KB, CreateKB(k) \/ DropRow(k) \/ DropChunks(k) \/ DropDocuments(k)
      PROVE  UnavailableOnlyIfCut'
  <2>1. home' = home /\ cut \subseteq cut' /\ overlapped \subseteq overlapped'
    BY <1>2 DEF CreateKB, DropRow, DropChunks, DropDocuments, histVars
  <2>2. kb' = kb \/ kb' = [kb EXCEPT ![k] = "ok"] \/ kb' = [kb EXCEPT ![k] = "deleted"]
    BY <1>2 DEF CreateKB, DropRow, DropChunks, DropDocuments
  <2>3. \A j \in KB : kb'[j] = "unavailable" => kb[j] = "unavailable"
    BY <1>a, <2>2 DEF KnowledgeTypeOK
  <2>4. QED
    BY <1>0, <1>1, <2>1, <2>3
<1>3. ASSUME NEW d \in Docs, IngestDocument(d) \/ DeleteRow(d) \/ DeleteChunks(d)
      PROVE  UnavailableOnlyIfCut'
  <2>1. home' = home /\ kb' = kb /\ cut \subseteq cut' /\ overlapped \subseteq overlapped'
    BY <1>3 DEF IngestDocument, DeleteRow, DeleteChunks, histVars
  <2>2. QED
    BY <1>0, <1>1, <2>1
<1>4. ASSUME NEW d \in Docs, NEW k \in KB, NEW n \in 0 .. MaxChunks, Upload(d, k, n)
      PROVE  UnavailableOnlyIfCut'
  <2>1. home[d] = "none" /\ home' = [home EXCEPT ![d] = k]
        /\ kb' = kb /\ cut' = cut /\ overlapped' = overlapped
    BY <1>a, <1>4 DEF Upload, HomeInv
  <2>2. \A j \in KB : In(j) \subseteq In(j)'
    BY <1>a, <2>1 DEF In, KnowledgeBounds, KnowledgeTypeOK
  <2>3. QED
    BY <1>0, <2>1, <2>2
<1>5. CASE Poll
  <2>1. home' = home /\ kb' = kb /\ cut' = cut /\ overlapped \subseteq overlapped'
    BY <1>a, <1>5, PollList DEF rowVars
  <2>2. QED
    BY <1>0, <1>1, <2>1
<1>6. CASE WorkerStep
  <2>1. home' = home /\ kb' = kb /\ cut' = cut /\ overlapped' = overlapped
    BY <1>6, WorkerEffect
  <2>2. QED
    BY <1>0, <1>1, <2>1
<1>7. CASE Restart
  <2>1. home' = home /\ cut' = cut /\ overlapped' = overlapped
        /\ \A k \in KB : kb'[k] = "unavailable" =>
                            kb[k] = "unavailable" \/ Verified(k) = "unavailable"
    BY <1>7 DEF Restart, histVars
  <2>2. \A k \in KB : In(k)' = In(k)
    BY <2>1 DEF In
  <2>3. \A k \in KB : Verified(k) = "unavailable" => In(k) \cap (cut \cup overlapped) # {}
    BY VerifiedUncut
  <2>4. QED
    BY <1>a, <2>1, <2>2, <2>3 DEF UnavailableOnlyIfCut
<1>8. CASE UNCHANGED vars
  BY <1>0, <1>1, <1>8 DEF vars, rowVars, histVars
<1>9. QED
  BY <1>a, <1>2, <1>3, <1>4, <1>5, <1>6, <1>7, <1>8, StepCases

-----------------------------------------------------------------------------
(* The invariant.                                                          *)

LEMMA InitInv ==
  ASSUME KnowledgeBounds, Init
  PROVE  Inv
<1>1. KnowledgeTypeOK
  BY DEF KnowledgeBounds, Init, KnowledgeTypeOK
<1>2. HomeInv /\ ListInv
  BY DEF Init, HomeInv, ListInv
<1>3. Listed = {}
  BY DEF Init, Listed
<1>4. ChunkInv /\ DeletionInv
  BY <1>3 DEF Init, ChunkInv, DeletionInv
<1>5. HomelessInv /\ UnavailableOnlyIfCut
  BY DEF Init, KnowledgeBounds, HomelessInv, UnavailableOnlyIfCut
<1>6. QED
  BY <1>1, <1>2, <1>4, <1>5 DEF Inv

(* Fairness is not needed, and a system of which this is a part has its own. *)
Steps == Init /\ [][Next]_vars

THEOREM Invariance ==
  ASSUME KnowledgeBounds
  PROVE  Steps => []Inv
<1>1. Init => Inv
  BY InitInv
<1>2. Inv /\ [Next]_vars => Inv'
  BY TypeNext, HomeNext, ListNext, ChunkNext, DeletionNext, HomelessNext, UnavailableNext DEF Inv
<1>3. QED
  BY <1>1, <1>2, PTL DEF Steps

(* Every variable keeps to its type; the list of the worker is finite and  *)
(* chunks of a document are never stored three times.                      *)
THEOREM TypeCorrect ==
  ASSUME KnowledgeBounds
  PROVE  Steps => []KnowledgeTypeOK
<1>1. Inv => KnowledgeTypeOK
  BY DEF Inv
<1>2. QED
  BY <1>1, Invariance, PTL

(* Whatever fails, and however often the server restarts: chunks are       *)
(* stored once, a ready document is searchable, and what a deletion leaves *)
(* behind is due to an overlap (worker.go, knowledge.go, store.go).        *)
THEOREM Consistent ==
  ASSUME KnowledgeBounds
  PROVE  Steps => []KnowledgeConsistent
<1>1. Inv => KnowledgeConsistent
  <2>1. SUFFICES ASSUME Inv PROVE KnowledgeConsistent
    OBVIOUS
  <2>2. KnowledgeTypeOK /\ HomeInv /\ ChunkInv /\ DeletionInv /\ HomelessInv /\ UnavailableOnlyIfCut
    BY <2>1 DEF Inv
  <2>3. StoredOnce
    BY <2>2 DEF StoredOnce, ChunkInv
  <2>4. ReadyIsSearchable
    BY <2>2 DEF ReadyIsSearchable, ChunkInv, Present, Rows, Unfinished
  <2>5. OrphansOnlyByOverlap
    BY <2>2 DEF OrphansOnlyByOverlap, ChunkInv, DeletionInv, Present, Rows, KnowledgeTypeOK
  <2>6. HomeExists
    <3>1. ASSUME NEW d \in Present, kb[home[d]] = "deleted" PROVE d \in homeless
      <4>1. d \in Docs /\ home[d] \in KB
        BY <2>2, <3>1 DEF Present, Rows, Unfinished, HomeInv, KnowledgeTypeOK
      <4>2. QED
        BY <2>2, <3>1, <4>1 DEF HomelessInv
    <3>2. QED
      BY <3>1 DEF HomeExists
  <2>7. QED
    BY <2>2, <2>3, <2>4, <2>5, <2>6 DEF KnowledgeConsistent
<1>2. QED
  BY <1>1, Invariance, PTL

-----------------------------------------------------------------------------
(* The files of a memory, the index and the facts.                         *)

MemoryShape ==
    /\ file \in [Memory!Paths -> Requests \cup {"none"}]
    /\ kind \in [Requests -> {"none", "store", "exclusive", "forget", "extract"}]
    /\ pc \in [Requests -> {"idle", "change", "wait", "index", "facts", "done"}]
    /\ paths \in [Requests -> SUBSET Memory!Paths]
    /\ reply \in [Requests -> {"none", "ok", "replaced", "error"}]
    /\ \A r \in Requests : kind[r] \in {"store", "exclusive", "forget"} =>
          \A p, q \in paths[r] : p = q
    /\ \A r \in Requests : kind[r] = "none" => pc[r] = "idle"
    /\ \A p \in Memory!Paths : file[p] # "none" => pc[file[p]] # "idle"

(* The rebuild is under the mutex.                                         *)
HolderInv == \A r \in Requests : pc[r] \in {"index", "facts"} <=> holder = r

(* A request that may have changed a file and has yet to take the mutex.   *)
Dirty(r) == pc[r] = "wait" \/ (pc[r] = "change" /\ kind[r] = "extract")
Clean == \A r \in Requests : ~Dirty(r)

(* Unless another request will rebuild after it, what the holder of the    *)
(* mutex has found is what is on disk, and what was built is up to date.   *)
RebuildInv ==
    /\ \A r \in Requests : Clean /\ pc[r] = "index" => snapshot = Memory!Indexable
    /\ \A r \in Requests : Clean /\ pc[r] = "facts" => snapshot = Memory!WithSession
    /\ Clean /\ (\A r \in Requests : pc[r] # "index") =>
          "index" \in stale \/ index = Memory!FirstEntries(Memory!Indexable)
    /\ Clean /\ (\A r \in Requests : pc[r] \notin {"index", "facts"}) =>
          "facts" \in stale \/ facts = Memory!WithSession

(* The file an exclusive write is about to create is still missing, unless *)
(* the write has been overtaken.                                           *)
ExclusiveInv ==
    /\ Memory!ReplacedOnlyByRace
    /\ \A r \in Requests : Memory!Exclusive(r) /\ pc[r] = "change" =>
          \A p \in paths[r] : file[p] = "none" \/ r \in raced

FilesInv == MemoryShape /\ HolderInv /\ RebuildInv /\ ExclusiveInv

(* A request starts: no file changes, and no file was written by it.       *)
LEMMA BeginKeeps ==
  ASSUME FilesInv, NEW r \in Requests, NEW k \in {"store", "exclusive", "forget", "extract"},
         NEW S \in SUBSET Memory!Paths, Memory!Begin(r, k, S),
         UNCHANGED <<Memory!diskVars, Memory!lockVars, stale, raced>>,
         \/ Memory!Goto(r, "change") /\ reply' = reply
            /\ (k = "exclusive" => \A p \in S : file[p] = "none")
         \/ Memory!Goto(r, "done") /\ Memory!Answer(r, "error") /\ k # "extract",
         k # "extract" => \A p, q \in S : p = q
  PROVE  FilesInv'
<1>a. MemoryShape /\ HolderInv /\ RebuildInv /\ ExclusiveInv
  BY DEF FilesInv
<1>1. /\ UNCHANGED <<file, index, facts, holder, snapshot, stale, raced>> /\ pc[r] = "idle"
      /\ kind' = [kind EXCEPT ![r] = k] /\ paths' = [paths EXCEPT ![r] = S]
      /\ kind'[r] = k /\ paths'[r] = S /\ pc'[r] \in {"change", "done"}
      /\ pc' = [pc EXCEPT ![r] = pc'[r]]
      /\ \A q \in Requests \ {r} : pc'[q] = pc[q] /\ kind'[q] = kind[q] /\ paths'[q] = paths[q]
  BY <1>a DEF Memory!Begin, Memory!Goto, MemoryShape, Memory!diskVars, Memory!lockVars
<1>2. /\ reply' \in [Requests -> {"none", "ok", "replaced", "error"}]
      /\ \A q \in Requests : reply'[q] = reply[q] \/ reply'[q] = "error"
  BY <1>a DEF Memory!Answer, MemoryShape
<1>3. MemoryShape'
  <2>1. /\ kind' \in [Requests -> {"none", "store", "exclusive", "forget", "extract"}]
        /\ pc' \in [Requests -> {"idle", "change", "wait", "index", "facts", "done"}]
        /\ paths' \in [Requests -> SUBSET Memory!Paths]
    BY <1>a, <1>1 DEF MemoryShape
  <2>2. ASSUME NEW q \in Requests, kind'[q] \in {"store", "exclusive", "forget"}
        PROVE  \A p, o \in paths'[q] : p = o
    BY <1>a, <1>1, <2>2 DEF MemoryShape
  <2>3. ASSUME NEW p \in Memory!Paths, file'[p] # "none"
        PROVE  pc'[file'[p]] # "idle"
    BY <1>a, <1>1, <2>3 DEF MemoryShape
  <2>4. \A q \in Requests : kind'[q] = "none" => pc'[q] = "idle"
    BY <1>a, <1>1 DEF MemoryShape
  <2>5. QED
    BY <1>a, <1>1, <1>2, <2>1, <2>2, <2>3, <2>4 DEF MemoryShape
<1>4. HolderInv'
  BY <1>a, <1>1 DEF HolderInv
<1>5. RebuildInv'
  <2>1. Memory!Indexable' = Memory!Indexable
    BY <1>1 DEF Memory!Indexable
  <2>2. Memory!WithSession' = Memory!WithSession
    <3>1. ASSUME NEW p \in Memory!Indexable PROVE kind'[file[p]] = kind[file[p]]
      BY <1>a, <1>1 DEF MemoryShape, Memory!Indexable
    <3>2. QED
      BY <1>1, <2>1, <3>1 DEF Memory!WithSession
  <2>3. Clean' => Clean
    BY <1>a, <1>1 DEF Clean, Dirty
  <2>4. \A q \in Requests : (pc'[q] = "index" <=> pc[q] = "index") /\ (pc'[q] = "facts" <=> pc[q] = "facts")
    BY <1>1
  <2>5. Memory!FirstEntries(Memory!Indexable)' = Memory!FirstEntries(Memory!Indexable)
    BY <2>1 DEF Memory!FirstEntries
  <2>6. QED
    BY <1>a, <1>1, <2>1, <2>2, <2>3, <2>4, <2>5 DEF RebuildInv
<1>6. ExclusiveInv'
  <2>1. Memory!ReplacedOnlyByRace'
    BY <1>a, <1>1, <1>2 DEF ExclusiveInv, Memory!ReplacedOnlyByRace
  <2>2. ASSUME NEW q \in Requests, kind'[q] = "exclusive", pc'[q] = "change", NEW p \in paths'[q]
        PROVE  file'[p] = "none" \/ q \in raced'
    <3>1. CASE q = r
      BY <1>a, <1>1, <2>2, <3>1 DEF Memory!Goto, MemoryShape
    <3>2. CASE q # r
      BY <1>a, <1>1, <2>2, <3>2 DEF ExclusiveInv, Memory!Exclusive
    <3>3. QED
      BY <3>1, <3>2
  <2>3. QED
    BY <2>1, <2>2 DEF ExclusiveInv, Memory!Exclusive
<1>7. QED
  BY <1>3, <1>4, <1>5, <1>6 DEF FilesInv

(* A file changes, or fails to: whoever did it, and may have changed one,  *)
(* will rebuild.                                                           *)
LEMMA ChangeKeeps ==
  ASSUME FilesInv, NEW r \in Requests, NEW p \in Memory!Paths, Memory!ChangeFile(r, p)
  PROVE  FilesInv'
<1>a. MemoryShape /\ HolderInv /\ RebuildInv /\ ExclusiveInv
  BY DEF FilesInv
<1>1. /\ UNCHANGED <<index, facts, kind, holder, snapshot, stale>>
      /\ pc[r] = "change" /\ p \in paths[r]
      /\ paths' = [paths EXCEPT ![r] = @ \ {p}]
      /\ \A q \in Requests : paths'[q] \subseteq paths[q]
      /\ \A q \in Requests \ {r} : paths'[q] = paths[q]
  BY <1>a DEF Memory!ChangeFile, MemoryShape, Memory!lockVars
<1>2. /\ pc'[r] \in {"change", "wait", "done"} /\ pc' = [pc EXCEPT ![r] = pc'[r]]
      /\ \A q \in Requests \ {r} : pc'[q] = pc[q]
  BY <1>a, <1>1 DEF Memory!ChangeFile, MemoryShape, Memory!Goto
<1>3. paths[r] = {p} \/ kind[r] = "extract"
  BY <1>a, <1>1 DEF MemoryShape
<1>4. \/ /\ file' = [file EXCEPT ![p] = r] /\ raced' = raced \cup Memory!Overtakes(r, p)
         /\ kind[r] # "extract" => pc'[r] = "wait"
      \/ /\ file' = [file EXCEPT ![p] = "none"] /\ raced' = raced
         /\ pc'[r] = "wait"
      \/ /\ file' = file /\ raced' = raced
  BY <1>a, <1>1, <1>3 DEF Memory!ChangeFile, MemoryShape, Memory!Goto
<1>5. kind[r] = "extract" => pc'[r] \in {"change", "wait"}
  BY <1>a, <1>1 DEF Memory!ChangeFile, MemoryShape, Memory!Goto
<1>6. /\ reply' \in [Requests -> {"none", "ok", "replaced", "error"}]
      /\ \A q \in Requests \ {r} : reply'[q] = reply[q]
      /\ reply'[r] = "replaced" => reply[r] = "replaced" \/ (Memory!Exclusive(r) /\ file[p] # "none")
  BY <1>a, <1>1 DEF Memory!ChangeFile, MemoryShape, Memory!Answer
<1>7. MemoryShape'
  <2>1. /\ pc' \in [Requests -> {"idle", "change", "wait", "index", "facts", "done"}]
        /\ paths' \in [Requests -> SUBSET Memory!Paths]
        /\ file' \in [Memory!Paths -> Requests \cup {"none"}]
    BY <1>a, <1>1, <1>2, <1>4 DEF MemoryShape
  <2>2. ASSUME NEW o \in Memory!Paths, file'[o] # "none"
        PROVE  pc'[file'[o]] # "idle"
    <3>1. file'[o] = r \/ (file'[o] = file[o] /\ file[o] \in Requests)
      BY <1>a, <1>4, <2>2 DEF MemoryShape
    <3>2. QED
      BY <1>a, <1>2, <2>2, <3>1 DEF MemoryShape
  <2>3. /\ \A q \in Requests : kind'[q] \in {"store", "exclusive", "forget"} =>
              \A n, o \in paths'[q] : n = o
        /\ \A q \in Requests : kind'[q] = "none" => pc'[q] = "idle"
    BY <1>a, <1>1, <1>2 DEF MemoryShape
  <2>4. QED
    BY <1>a, <1>1, <1>6, <2>1, <2>2, <2>3 DEF MemoryShape
<1>8. HolderInv'
  BY <1>a, <1>1, <1>2 DEF HolderInv
<1>9. RebuildInv'
  <2>1. SUFFICES ASSUME Clean' PROVE RebuildInv'
    BY DEF RebuildInv
  <2>2. kind[r] # "extract" /\ pc'[r] # "wait"
    BY <1>1, <1>5, <2>1 DEF Clean, Dirty
  <2>3. file' = file /\ Clean
    BY <1>1, <1>2, <1>4, <2>1, <2>2 DEF Clean, Dirty
  <2>4. Memory!Indexable' = Memory!Indexable /\ Memory!WithSession' = Memory!WithSession /\ Memory!FirstEntries(Memory!Indexable)' = Memory!FirstEntries(Memory!Indexable)
    BY <1>1, <2>3 DEF Memory!Indexable, Memory!WithSession, Memory!FirstEntries
  <2>5. \A q \in Requests : (pc'[q] = "index" <=> pc[q] = "index") /\ (pc'[q] = "facts" <=> pc[q] = "facts")
    BY <1>1, <1>2
  <2>6. QED
    BY <1>a, <1>1, <2>3, <2>4, <2>5 DEF RebuildInv
<1>10. ExclusiveInv'
  <2>1. raced \subseteq raced'
    BY <1>4
  <2>2. Memory!Exclusive(r) /\ file[p] # "none" => r \in raced
    BY <1>a, <1>1 DEF ExclusiveInv
  <2>3. Memory!ReplacedOnlyByRace'
    BY <1>a, <1>6, <2>1, <2>2 DEF ExclusiveInv, Memory!ReplacedOnlyByRace
  <2>4. ASSUME NEW q \in Requests, kind'[q] = "exclusive", pc'[q] = "change", NEW o \in paths'[q]
        PROVE  file'[o] = "none" \/ q \in raced'
    <3>1. CASE q = r
      BY <1>1, <1>3, <2>4, <3>1, <1>a DEF MemoryShape
    <3>2. CASE q # r
      <4>1. Memory!Exclusive(q) /\ pc[q] = "change" /\ o \in paths[q]
        BY <1>1, <1>2, <2>4, <3>2 DEF Memory!Exclusive
      <4>2. file[o] = "none" \/ q \in raced
        BY <1>a, <4>1 DEF ExclusiveInv
      <4>3. CASE o # p \/ file' = file
        <5>1. file'[o] = file[o]
          BY <1>a, <1>1, <1>4, <2>4, <4>1, <4>3 DEF MemoryShape
        <5>2. QED
          BY <2>1, <4>2, <5>1
      <4>4. CASE o = p /\ file' = [file EXCEPT ![p] = r] /\ raced' = raced \cup Memory!Overtakes(r, p)
        BY <3>2, <4>1, <4>4 DEF Memory!Overtakes
      <4>5. CASE o = p /\ file' = [file EXCEPT ![p] = "none"]
        BY <1>a, <4>5 DEF MemoryShape
      <4>6. QED
        BY <1>4, <4>3, <4>4, <4>5
    <3>3. QED
      BY <3>1, <3>2
  <2>5. QED
    BY <2>3, <2>4 DEF ExclusiveInv, Memory!Exclusive
<1>11. QED
  BY <1>7, <1>8, <1>9, <1>10 DEF FilesInv


(* A step of the rebuild: the file, the kinds and the paths stay.          *)
LEMMA RebuildShape ==
  ASSUME MemoryShape, ExclusiveInv, NEW r \in Requests,
         NEW place \in {"index", "facts", "done"}, Memory!Goto(r, place),
         pc[r] \in {"wait", "index", "facts"},
         UNCHANGED <<file, kind, paths, raced>>,
         reply' = reply \/ Memory!Answer(r, "error")
  PROVE  /\ MemoryShape' /\ ExclusiveInv'
         /\ pc'[r] = place /\ \A q \in Requests \ {r} : pc'[q] = pc[q]
         /\ Memory!Indexable' = Memory!Indexable /\ Memory!WithSession' = Memory!WithSession
         /\ Memory!FirstEntries(Memory!Indexable)' = Memory!FirstEntries(Memory!Indexable)
<1>1. /\ pc'[r] = place /\ \A q \in Requests \ {r} : pc'[q] = pc[q]
      /\ pc' \in [Requests -> {"idle", "change", "wait", "index", "facts", "done"}]
      /\ \A q \in Requests : pc'[q] = "idle" <=> pc[q] = "idle"
      /\ \A q \in Requests : pc'[q] = "change" => pc[q] = "change"
  BY DEF Memory!Goto, MemoryShape
<1>2. /\ reply' \in [Requests -> {"none", "ok", "replaced", "error"}]
      /\ \A q \in Requests : reply'[q] = reply[q] \/ reply'[q] = "error"
  BY DEF Memory!Answer, MemoryShape
<1>3. MemoryShape'
  <2>1. \A p \in Memory!Paths : file'[p] # "none" => pc'[file'[p]] # "idle"
    BY <1>1 DEF MemoryShape
  <2>2. QED
    BY <1>1, <1>2, <2>1 DEF MemoryShape
<1>4. ExclusiveInv'
  BY <1>1, <1>2 DEF ExclusiveInv, Memory!Exclusive, Memory!ReplacedOnlyByRace
<1>5. Memory!Indexable' = Memory!Indexable
  BY DEF Memory!Indexable
<1>6. QED
  BY <1>1, <1>3, <1>4, <1>5 DEF Memory!WithSession, Memory!FirstEntries

LEMMA LockKeeps ==
  ASSUME "none" \notin Requests, FilesInv, NEW r \in Requests, Memory!LockAndScan(r)
  PROVE  FilesInv'
<1>a. MemoryShape /\ HolderInv /\ RebuildInv /\ ExclusiveInv
  BY DEF FilesInv
<1>1. /\ pc[r] = "wait" /\ Memory!Goto(r, "index") /\ holder = "none" /\ holder' = r
      /\ snapshot' = Memory!Indexable
      /\ UNCHANGED <<file, index, facts, kind, paths, reply, stale, raced>>
  BY DEF Memory!LockAndScan, Memory!diskVars
<1>2. /\ MemoryShape' /\ ExclusiveInv'
      /\ pc'[r] = "index" /\ \A q \in Requests \ {r} : pc'[q] = pc[q]
      /\ Memory!Indexable' = Memory!Indexable
  BY <1>a, <1>1, RebuildShape
<1>3. \A q \in Requests : pc[q] \notin {"index", "facts"}
  BY <1>a, <1>1 DEF HolderInv
<1>4. HolderInv'
  BY <1>1, <1>2, <1>3 DEF HolderInv
<1>5. RebuildInv'
  BY <1>1, <1>2, <1>3 DEF RebuildInv
<1>6. QED
  BY <1>2, <1>4, <1>5 DEF FilesInv

LEMMA WriteIndexKeeps ==
  ASSUME "none" \notin Requests, FilesInv, NEW r \in Requests, Memory!WriteIndex(r)
  PROVE  FilesInv'
<1>a. MemoryShape /\ HolderInv /\ RebuildInv /\ ExclusiveInv
  BY DEF FilesInv
<1>1. /\ pc[r] = "index" /\ UNCHANGED <<file, facts, kind, paths, raced>>
      /\ reply' = reply \/ Memory!Answer(r, "error")
  BY DEF Memory!WriteIndex
<1>2. \/ /\ Memory!Goto(r, "facts") /\ snapshot' = Memory!WithSession /\ holder' = holder
         /\ \/ index' = Memory!FirstEntries(snapshot) /\ stale' = stale \ {"index"}
            \/ index' = index /\ stale' = stale \cup {"index"}
      \/ /\ Memory!Goto(r, "done") /\ holder' = "none" /\ stale' = {"index", "facts"}
  BY DEF Memory!WriteIndex
<1>3. PICK place \in {"facts", "done"} : Memory!Goto(r, place)
  BY <1>2
<1>4. /\ MemoryShape' /\ ExclusiveInv'
      /\ pc'[r] = place /\ \A q \in Requests \ {r} : pc'[q] = pc[q]
      /\ Memory!Indexable' = Memory!Indexable /\ Memory!WithSession' = Memory!WithSession
      /\ Memory!FirstEntries(Memory!Indexable)' = Memory!FirstEntries(Memory!Indexable)
  BY <1>a, <1>1, <1>3, RebuildShape
<1>5. holder = r /\ \A q \in Requests \ {r} : pc[q] \notin {"index", "facts"}
  BY <1>a, <1>1 DEF HolderInv
<1>6. Clean' => Clean
  BY <1>1, <1>4 DEF Clean, Dirty
<1>7. CASE place = "facts"
  <2>1. /\ snapshot' = Memory!WithSession /\ holder' = holder
        /\ \/ index' = Memory!FirstEntries(snapshot) /\ stale' = stale \ {"index"}
           \/ index' = index /\ stale' = stale \cup {"index"}
    <3>1. ~Memory!Goto(r, "done")
      BY <1>a, <1>3, <1>7 DEF Memory!Goto, MemoryShape
    <3>2. QED
      BY <1>2, <3>1
  <2>2. HolderInv'
    BY <1>4, <1>5, <1>7, <2>1 DEF HolderInv
  <2>3. Clean' => "index" \in stale' \/ index' = Memory!FirstEntries(Memory!Indexable)
    <3>1. Clean => snapshot = Memory!Indexable
      BY <1>a, <1>1 DEF RebuildInv
    <3>2. QED
      BY <1>6, <2>1, <3>1
  <2>4. RebuildInv'
    BY <1>4, <1>5, <1>7, <2>1, <2>3 DEF RebuildInv
  <2>5. QED
    BY <1>4, <2>2, <2>4 DEF FilesInv
<1>8. CASE place = "done"
  <2>1. holder' = "none" /\ stale' = {"index", "facts"}
    <3>1. ~Memory!Goto(r, "facts")
      BY <1>a, <1>3, <1>8 DEF Memory!Goto, MemoryShape
    <3>2. QED
      BY <1>2, <3>1
  <2>2. \A q \in Requests : pc'[q] \notin {"index", "facts"}
    BY <1>4, <1>5, <1>8
  <2>3. HolderInv' /\ RebuildInv'
    BY <2>1, <2>2 DEF HolderInv, RebuildInv
  <2>4. QED
    BY <1>4, <2>3 DEF FilesInv
<1>9. QED
  BY <1>7, <1>8

LEMMA WriteFactsKeeps ==
  ASSUME "none" \notin Requests, FilesInv, NEW r \in Requests, Memory!WriteFacts(r)
  PROVE  FilesInv'
<1>a. MemoryShape /\ HolderInv /\ RebuildInv /\ ExclusiveInv
  BY DEF FilesInv
<1>1. /\ pc[r] = "facts" /\ Memory!Goto(r, "done") /\ holder' = "none"
      /\ UNCHANGED <<file, index, kind, paths, raced>>
      /\ reply' = reply \/ Memory!Answer(r, "error")
      /\ \/ facts' = snapshot /\ stale' = stale \ {"facts"}
         \/ facts' = facts /\ stale' = stale \cup {"facts"}
  BY DEF Memory!WriteFacts
<1>2. /\ MemoryShape' /\ ExclusiveInv'
      /\ pc'[r] = "done" /\ \A q \in Requests \ {r} : pc'[q] = pc[q]
      /\ Memory!Indexable' = Memory!Indexable /\ Memory!WithSession' = Memory!WithSession
      /\ Memory!FirstEntries(Memory!Indexable)' = Memory!FirstEntries(Memory!Indexable)
  BY <1>a, <1>1, RebuildShape
<1>3. holder = r /\ \A q \in Requests \ {r} : pc[q] \notin {"index", "facts"}
  BY <1>a, <1>1 DEF HolderInv
<1>4. \A q \in Requests : pc'[q] \notin {"index", "facts"}
  BY <1>2, <1>3
<1>5. Clean' => Clean
  BY <1>1, <1>2 DEF Clean, Dirty
<1>6. HolderInv'
  BY <1>1, <1>4 DEF HolderInv
<1>7. Clean => snapshot = Memory!WithSession /\ ("index" \in stale \/ index = Memory!FirstEntries(Memory!Indexable))
  BY <1>a, <1>1, <1>3 DEF RebuildInv
<1>8. RebuildInv'
  BY <1>1, <1>2, <1>4, <1>5, <1>7 DEF RebuildInv
<1>9. QED
  BY <1>2, <1>6, <1>8 DEF FilesInv

(* Whoever was about to rebuild does not; that is recorded.                *)
LEMMA RestartKeeps ==
  ASSUME "none" \notin Requests, FilesInv, Memory!Restart
  PROVE  FilesInv'
<1>a. MemoryShape /\ HolderInv /\ RebuildInv /\ ExclusiveInv
  BY DEF FilesInv
<1>1. /\ pc' = [r \in Requests |-> IF pc[r] = "idle" THEN "idle" ELSE "done"]
      /\ holder' = "none" /\ UNCHANGED <<file, index, facts, kind, paths, reply, raced>>
      /\ stale' = IF \E r \in Requests : pc[r] \in {"change", "wait", "index", "facts"}
                  THEN {"index", "facts"} ELSE stale
  BY DEF Memory!Restart, Memory!diskVars
<1>2. MemoryShape'
  <2>1. \A r \in Requests : pc'[r] \in {"idle", "done"} /\ (pc'[r] = "idle" <=> pc[r] = "idle")
    BY <1>1
  <2>2. pc' \in [Requests -> {"idle", "change", "wait", "index", "facts", "done"}]
    BY <1>1
  <2>3. \A p \in Memory!Paths : file'[p] # "none" => pc'[file'[p]] # "idle"
    BY <1>a, <1>1, <2>1 DEF MemoryShape
  <2>4. QED
    BY <1>a, <1>1, <2>1, <2>2, <2>3 DEF MemoryShape
<1>3. HolderInv' /\ ExclusiveInv'
  BY <1>a, <1>1 DEF HolderInv, ExclusiveInv, Memory!Exclusive, Memory!ReplacedOnlyByRace
<1>4. Memory!Indexable' = Memory!Indexable
  BY <1>1 DEF Memory!Indexable
<1>5. Memory!WithSession' = Memory!WithSession /\ Memory!FirstEntries(Memory!Indexable)' = Memory!FirstEntries(Memory!Indexable)
  BY <1>1, <1>4 DEF Memory!WithSession, Memory!FirstEntries
<1>6. \/ stale' = {"index", "facts"}
      \/ stale' = stale /\ Clean /\ \A r \in Requests : pc[r] \notin {"index", "facts"}
  BY <1>1 DEF Clean, Dirty
<1>7. RebuildInv'
  BY <1>a, <1>1, <1>4, <1>5, <1>6 DEF RebuildInv
<1>8. QED
  BY <1>2, <1>3, <1>7 DEF FilesInv


LEMMA FilesInvariance ==
  ASSUME "none" \notin Requests
  PROVE  Memory!Spec => []FilesInv
<1>1. Memory!Init => FilesInv
  <2>1. SUFFICES ASSUME Memory!Init PROVE FilesInv
    OBVIOUS
  <2>2. MemoryShape
    BY <2>1 DEF Memory!Init, MemoryShape
  <2>3. HolderInv /\ ExclusiveInv
    BY <2>1 DEF Memory!Init, HolderInv, ExclusiveInv, Memory!ReplacedOnlyByRace
  <2>4. Memory!Indexable = {} /\ Memory!WithSession = {}
    BY <2>1 DEF Memory!Init, Memory!Indexable, Memory!WithSession
  <2>5. Memory!FirstEntries(Memory!Indexable) = {}
    BY <2>4 DEF Memory!FirstEntries
  <2>6. RebuildInv
    BY <2>1, <2>4, <2>5 DEF Memory!Init, RebuildInv
  <2>7. QED
    BY <2>2, <2>3, <2>6 DEF FilesInv
<1>2. FilesInv /\ [Memory!Next]_(Memory!vars) => FilesInv'
  <2>1. SUFFICES ASSUME FilesInv, [Memory!Next]_(Memory!vars) PROVE FilesInv'
    OBVIOUS
  <2>2. CASE \E r \in Requests, p \in Memory!Paths : Memory!StoreTool(r, p)
    <3>1. PICK r \in Requests, p \in Memory!Paths : Memory!StoreTool(r, p)
      BY <2>2
    <3>2. /\ Memory!Begin(r, "store", {p}) /\ Memory!Goto(r, "change") /\ reply' = reply
          /\ UNCHANGED <<Memory!diskVars, Memory!lockVars, stale, raced>>
      BY <3>1 DEF Memory!StoreTool
    <3>3. QED
      BY <2>1, <3>2, BeginKeeps
  <2>3. CASE \E r \in Requests, p \in Memory!Paths : Memory!WriteFile(r, p)
    <3>1. PICK r \in Requests, p \in Memory!Paths : Memory!WriteFile(r, p)
      BY <2>3
    <3>2. /\ Memory!Begin(r, "exclusive", {p})
          /\ UNCHANGED <<Memory!diskVars, Memory!lockVars, stale, raced>>
          /\ \/ Memory!Goto(r, "change") /\ reply' = reply /\ file[p] = "none"
             \/ Memory!Goto(r, "done") /\ Memory!Answer(r, "error")
      BY <3>1 DEF Memory!WriteFile
    <3>3. \A q \in {p} : file[p] = "none" => file[q] = "none"
      OBVIOUS
    <3>4. QED
      BY <2>1, <3>2, <3>3, BeginKeeps
  <2>4. CASE \E r \in Requests, p \in Memory!Paths : Memory!ChangeFile(r, p)
    BY <2>1, <2>4, ChangeKeeps
  <2>5. CASE \E r \in Requests, n \in Names : Memory!ForgetTool(r, n)
    <3>1. PICK r \in Requests, n \in Names : Memory!ForgetTool(r, n)
      BY <2>5
    <3>2. PICK found : found = {p \in Memory!Indexable : p[2] = n}
      OBVIOUS
    <3>3. PICK S : S = {p \in found : p[1] = "knowledge" \/ <<"knowledge", n>> \notin found}
      OBVIOUS
    <3>4. /\ Memory!Begin(r, "forget", S)
          /\ UNCHANGED <<Memory!diskVars, Memory!lockVars, stale, raced>>
          /\ \/ Memory!Goto(r, "change") /\ reply' = reply
             \/ Memory!Goto(r, "done") /\ Memory!Answer(r, "error")
      BY <3>1, <3>2, <3>3 DEF Memory!ForgetTool
    <3>5. S \in SUBSET Memory!Paths
      BY <3>2, <3>3 DEF Memory!Indexable
    <3>6. ASSUME NEW p \in S, NEW q \in S
          PROVE  p = q
      <4>1. /\ p \in {"archive", "knowledge", "system"} \X Names
            /\ q \in {"archive", "knowledge", "system"} \X Names
        BY <3>5 DEF Memory!Paths
      <4>2. /\ p[1] # "system" /\ q[1] # "system" /\ p[2] = n /\ q[2] = n
            /\ p \in found /\ q \in found
        BY <3>2, <3>3 DEF Memory!Indexable
      <4>3. p = <<p[1], n>> /\ q = <<q[1], n>> /\ p[1] \in {"archive", "knowledge"}
            /\ q[1] \in {"archive", "knowledge"}
        BY <4>1, <4>2
      <4>4. p[1] = q[1]
        BY <3>3, <4>2, <4>3
      <4>5. QED
        BY <4>3, <4>4
    <3>7. QED
      BY <2>1, <3>4, <3>5, <3>6, BeginKeeps
  <2>6. CASE \E r \in Requests, S \in SUBSET Memory!Paths : Memory!ExtractionHook(r, S)
    <3>1. PICK r \in Requests, S \in SUBSET Memory!Paths : Memory!ExtractionHook(r, S)
      BY <2>6
    <3>2. /\ Memory!Begin(r, "extract", S) /\ Memory!Goto(r, "change") /\ reply' = reply
          /\ UNCHANGED <<Memory!diskVars, Memory!lockVars, stale, raced>>
      BY <3>1 DEF Memory!ExtractionHook
    <3>3. QED
      BY <2>1, <3>2, BeginKeeps
  <2>7. CASE \E r \in Requests : Memory!LockAndScan(r) \/ Memory!WriteIndex(r) \/ Memory!WriteFacts(r)
    BY <2>1, <2>7, LockKeeps, WriteIndexKeeps, WriteFactsKeeps
  <2>8. CASE Memory!Restart
    BY <2>1, <2>8, RestartKeeps
  <2>9. CASE UNCHANGED Memory!vars
    <3>1. UNCHANGED <<file, index, facts, kind, pc, paths, reply, holder, snapshot, stale, raced>>
      BY <2>9 DEF Memory!vars, Memory!diskVars, Memory!lockVars
    <3>2. MemoryShape' /\ HolderInv' /\ ExclusiveInv'
      BY <2>1, <3>1 DEF FilesInv, MemoryShape, HolderInv, ExclusiveInv, Memory!Exclusive, Memory!ReplacedOnlyByRace
    <3>3. Memory!Indexable' = Memory!Indexable
      BY <3>1 DEF Memory!Indexable
    <3>4. Memory!WithSession' = Memory!WithSession /\ Memory!FirstEntries(Memory!Indexable)' = Memory!FirstEntries(Memory!Indexable)
      BY <3>1, <3>3 DEF Memory!WithSession, Memory!FirstEntries
    <3>5. RebuildInv'
      BY <2>1, <3>1, <3>3, <3>4 DEF FilesInv, RebuildInv, Clean, Dirty
    <3>6. QED
      BY <3>2, <3>5 DEF FilesInv
  <2>10. QED
    BY <2>1, <2>2, <2>3, <2>4, <2>5, <2>6, <2>7, <2>8, <2>9 DEF Memory!Next
<1>3. QED
  BY <1>1, <1>2, PTL DEF Memory!Spec

(* For any number of requests, files, failures and restarts: when no       *)
(* request is in progress the index and the facts are up to date, or known *)
(* not to have been rebuilt, and an exclusive write replaces a file only   *)
(* if another request wrote it after the check (filememory.go:117-138).    *)
THEOREM FilesAgree ==
  ASSUME "none" \notin Requests
  PROVE  Memory!Spec => []Memory!MemoryConsistent
<1>1. FilesInv => Memory!MemoryConsistent
  <2>1. SUFFICES ASSUME FilesInv PROVE Memory!RebuiltWhenQuiet /\ Memory!ReplacedOnlyByRace
    BY DEF Memory!MemoryConsistent
  <2>2. Memory!Quiet => Clean /\ \A r \in Requests : pc[r] \notin {"index", "facts"}
    BY DEF Memory!Quiet, Clean, Dirty
  <2>3. QED
    BY <2>1, <2>2 DEF FilesInv, RebuildInv, ExclusiveInv, Memory!RebuiltWhenQuiet
<1>2. QED
  BY <1>1, FilesInvariance, PTL

-----------------------------------------------------------------------------
(* A recall.                                                               *)

RecallInv ==
    /\ results \in Seq(Memories) /\ chosen \in Seq(Memories)
    /\ onDisk \subseteq Memories /\ steady \subseteq onDisk
    /\ Recall!SomethingIsFound /\ Recall!WithinRequest

LEMMA ReadKeeps ==
  ASSUME Limit \in Nat \ {0}, RecallInv, Recall!ReadChosen
  PROVE  RecallInv'
<1>1. /\ UNCHANGED <<onDisk, steady, call>> /\ call # "done"
      /\ chosen # <<>> /\ chosen' = Tail(chosen) /\ Len(results) < Limit
      /\ results' = results \/ results' = Append(results, Head(chosen))
  BY DEF Recall!ReadChosen
<1>2. Head(chosen) \in Memories /\ chosen' \in Seq(Memories) /\ results \in Seq(Memories)
  BY <1>1 DEF RecallInv
<1>3. results' \in Seq(Memories) /\ Len(results') <= Len(results) + 1 /\ Len(results) \in Nat
  <2>1. PICK old \in Seq(Memories), x \in Memories : old = results /\ x = Head(chosen)
    BY <1>2
  <2>2. /\ Append(old, x) \in Seq(Memories)
        /\ Len(Append(old, x)) = Len(old) + 1 /\ Len(old) \in Nat
    BY <2>1
  <2>3. results' = old \/ results' = Append(old, x)
    BY <1>1, <2>1
  <2>4. QED
    BY <2>1, <2>2, <2>3
<1>4. QED
  BY <1>1, <1>2, <1>3 DEF RecallInv, Recall!SomethingIsFound, Recall!WithinRequest

(* The search of the files finds every file that has the words, up to the  *)
(* limit.                                                                  *)
LEMMA KeywordKeeps ==
  ASSUME Limit \in Nat \ {0}, IsFiniteSet(Memories), RecallInv, Recall!KeywordRecall
  PROVE  RecallInv'
<1>1. PICK X : X = onDisk \cap Wanted \cap Matching
  OBVIOUS
<1>2. IsFiniteSet(X) /\ X \subseteq Memories
  BY <1>1, FS_Subset DEF RecallInv
<1>3. Recall!Cardinality(X) = Cardinality(X)
  BY DEF Cardinality, Recall!Cardinality
<1>4. PICK n : n = Cardinality(X) /\ n \in Nat /\ (n = 0 <=> X = {})
  BY <1>2, FS_CardinalityType, FS_EmptySet
<1>5. PICK order \in [1 .. n -> X] :
         results' = SubSeq(order, 1, IF Len(order) < Limit THEN Len(order) ELSE Limit)
  BY <1>1, <1>3, <1>4 DEF Recall!KeywordRecall, Recall!SetToSeqs
<1>6. order \in Seq(Memories) /\ Len(order) = n
  BY <1>2, <1>4, <1>5
<1>7. PICK m : m = IF n < Limit THEN n ELSE Limit
  OBVIOUS
<1>8. m \in 0 .. n /\ m <= Limit /\ (n # 0 => m # 0)
  BY <1>4, <1>7
<1>9. results' = SubSeq(order, 1, m)
  BY <1>5, <1>6, <1>7
<1>10. results' \in Seq(Memories) /\ Len(results') = m
  BY <1>4, <1>6, <1>8, <1>9
<1>11. X # {} => results' # <<>>
  BY <1>4, <1>8, <1>10
<1>12. UNCHANGED <<onDisk, steady, chosen>>
  BY DEF Recall!KeywordRecall
<1>13. steady \cap Wanted \cap Matching \subseteq X
  BY <1>1 DEF RecallInv
<1>14. QED
  BY <1>8, <1>10, <1>11, <1>12, <1>13 DEF RecallInv, Recall!SomethingIsFound, Recall!WithinRequest

LEMMA RecallInvariance ==
  ASSUME Limit \in Nat \ {0}, IsFiniteSet(Memories)
  PROVE  Recall!Spec => []RecallInv
<1>1. Recall!Init => RecallInv
  <2>1. SUFFICES ASSUME Recall!Init PROVE RecallInv
    OBVIOUS
  <2>2. results = <<>> /\ chosen = <<>> /\ call = "start" /\ onDisk \subseteq Memories /\ steady = onDisk
    BY <2>1 DEF Recall!Init
  <2>3. <<>> \in Seq(Memories) /\ Len(<<>>) = 0
    OBVIOUS
  <2>4. QED
    BY <2>2, <2>3 DEF RecallInv, Recall!SomethingIsFound, Recall!WithinRequest
<1>2. RecallInv /\ [Recall!Next]_Recall!recallVars => RecallInv'
  <2>1. SUFFICES ASSUME RecallInv, [Recall!Next]_Recall!recallVars PROVE RecallInv'
    OBVIOUS
  <2> USE DEF RecallInv, Recall!SomethingIsFound, Recall!WithinRequest
  <2>2. CASE \E p \in Memories : Recall!FileAppears(p) \/ Recall!FileGoes(p)
    BY <2>1, <2>2 DEF Recall!FileAppears, Recall!FileGoes
  <2>3. CASE Recall!IndexRebuilt \/ Recall!Ask
    BY <2>1, <2>3 DEF Recall!IndexRebuilt, Recall!Ask
  <2>4. CASE Recall!ReadChosen
    BY <2>1, <2>4, ReadKeeps
  <2>5. CASE Recall!AnswerChosen
    BY <2>1, <2>5 DEF Recall!AnswerChosen
  <2>6. CASE Recall!KeywordRecall
    BY <2>1, <2>6, KeywordKeeps
  <2>7. CASE \E n \in 0 .. 2 : \E named \in [1 .. n -> Memories] : Recall!ModelChooses(named)
    <3>1. PICK n \in 0 .. 2 : \E named \in [1 .. n -> Memories] : Recall!ModelChooses(named)
      BY <2>7
    <3>2. PICK named \in [1 .. n -> Memories] : Recall!ModelChooses(named)
      BY <3>1
    <3>3. named \in Seq(Memories)
      OBVIOUS
    <3>4. chosen' \in Seq(Memories) /\ call' # "done" /\ UNCHANGED <<onDisk, results, steady>>
      BY <3>2, <3>3 DEF Recall!ModelChooses
    <3>5. QED
      BY <2>1, <3>4
  <2>8. CASE UNCHANGED Recall!recallVars
    BY <2>1, <2>8 DEF Recall!recallVars
  <2>9. QED
    BY <2>1, <2>2, <2>3, <2>4, <2>5, <2>6, <2>7, <2>8 DEF Recall!Next
<1>3. QED
  BY <1>1, <1>2, PTL DEF Recall!Spec

(* For any memories and any limit: a recall finds something whenever a     *)
(* file with the words of the query was there all the time, and no more    *)
(* than it was asked for (memory_recall_tool.go:83).                       *)
THEOREM RecallFinds ==
  ASSUME Limit \in Nat \ {0}, IsFiniteSet(Memories)
  PROVE  Recall!Spec => []Recall!RecallConsistent
<1>1. RecallInv => Recall!RecallConsistent
  BY DEF RecallInv, Recall!RecallConsistent
<1>2. QED
  BY <1>1, RecallInvariance, PTL


-----------------------------------------------------------------------------
(* The summaries.                                                          *)

LEMMA LeastOf ==
  ASSUME NEW T \in SUBSET Nat, T # {}
  PROVE  \E x \in T : \A y \in T : x <= y
<1>1. IsWellFoundedOn({r \in Nat \X Nat : r[1] < r[2]}, Nat)
  BY NatLessThanWellFounded DEF OpToRel
<1>2. PICK x \in T : \A y \in T : <<y, x>> \notin {r \in Nat \X Nat : r[1] < r[2]}
  BY <1>1, WFMin
<1>3. ASSUME NEW y \in T PROVE x <= y
  <2>1. <<y, x>> \in Nat \X Nat /\ x \in Nat /\ y \in Nat
    OBVIOUS
  <2>2. ~(y < x)
    BY <1>2, <2>1
  <2>3. QED
    BY <2>1, <2>2
<1>4. QED
  BY <1>3

(* What a clean-up with the list S removes.                                *)
Dropped(S) == {d \in S : Cardinality({e \in S : e > d}) >= Keep}

(* At most Keep days of a list have fewer than Keep after them: all but    *)
(* the first of these come after the first.                                *)
LEMMA KeptAreFew ==
  ASSUME Keep \in Nat, NEW S \in SUBSET Nat, IsFiniteSet(S)
  PROVE  Cardinality(S \ Dropped(S)) <= Keep
<1>1. PICK T : T = S \ Dropped(S)
  OBVIOUS
<1>2. T \subseteq S /\ IsFiniteSet(T) /\ Cardinality(T) \in Nat
  BY <1>1, FS_Subset, FS_CardinalityType
<1>3. CASE T = {}
  <2>1. Cardinality(T) = 0
    BY <1>3, FS_EmptySet
  <2>2. QED
    BY <1>1, <2>1
<1>4. CASE T # {}
  <2>1. PICK x \in T : \A y \in T : x <= y
    BY <1>2, <1>4, LeastOf
  <2>2. PICK A : A = {e \in S : e > x}
    OBVIOUS
  <2>3. IsFiniteSet(A) /\ Cardinality(A) \in Nat
    BY <2>2, FS_Subset, FS_CardinalityType
  <2>4. ~(Cardinality(A) >= Keep)
    BY <1>1, <2>1, <2>2 DEF Dropped
  <2>5. T \ {x} \subseteq A
    BY <1>2, <2>1, <2>2
  <2>6. Cardinality(T \ {x}) <= Cardinality(A)
    BY <2>3, <2>5, FS_Subset
  <2>7. Cardinality(T \ {x}) = Cardinality(T) - 1
    BY <1>2, <2>1, FS_RemoveElement
  <2>8. QED
    BY <1>1, <1>2, <2>3, <2>4, <2>6, <2>7
<1>5. QED
  BY <1>3, <1>4

Busy == {j \in Jobs : job[j].phase \in {"written", "recorded", "listed"}}
Listing == {j \in Jobs : job[j].phase = "listed"}
DroppedBy(L) == UNION {Dropped(job[j].list) : j \in L}

(* Days do not come out of order, and the latest is not among those that   *)
(* are about to be removed.                                                *)
DaysInv ==
    /\ day \in Nat \ {0} /\ newest \in Nat /\ newest <= day
    /\ summaries \subseteq 1 .. newest
    /\ job \in [Jobs -> [phase : Summarizer!Phases, list : SUBSET (1 .. newest)]]
    /\ Summarizer!NewestKept

(* The bound, for what would be left after any of the clean-ups that have  *)
(* made their list: several may have listed the same summaries, and then   *)
(* the first leaves the others nothing to remove.                          *)
CleanupInv ==
    /\ starts \in Nat
    /\ \A L \in SUBSET Listing :
          Cardinality(summaries \ DroppedBy(L))
            <= Keep + starts * Cardinality(Jobs) + Cardinality(Busy \ L)

SummaryInv == DaysInv /\ CleanupInv


LEMMA SameCount == \A S : Summarizer!Cardinality(S) = Cardinality(S)
  BY DEF Cardinality, Summarizer!Cardinality

(* The sets that are counted are finite.                                   *)
LEMMA Countable ==
  ASSUME IsFiniteSet(Jobs), SummaryInv, NEW D, NEW L
  PROVE  /\ IsFiniteSet(summaries \ D) /\ Cardinality(summaries \ D) \in Nat
         /\ IsFiniteSet(Busy \ L) /\ Cardinality(Busy \ L) \in Nat
         /\ starts * Cardinality(Jobs) \in Nat
<1>0. DaysInv
  BY DEF SummaryInv
<1>1. summaries \subseteq 1 .. newest /\ IsFiniteSet(1 .. newest)
  BY <1>0, FS_Interval DEF DaysInv
<1>2. PICK days : days = 1 .. newest /\ summaries \ D \subseteq days /\ IsFiniteSet(days)
  BY <1>1, ZenonT(20)
<1>3. IsFiniteSet(summaries \ D) /\ Cardinality(summaries \ D) \in Nat
  BY <1>1, <1>2, FS_Subset, FS_CardinalityType
<1>4. Busy \ L \subseteq Jobs
  BY DEF Busy
<1>5. IsFiniteSet(Busy \ L) /\ Cardinality(Busy \ L) \in Nat
  BY <1>4, FS_Subset, FS_CardinalityType
<1>6. Cardinality(Jobs) \in Nat /\ starts \in Nat
  BY FS_CardinalityType DEF SummaryInv, CleanupInv
<1>7. QED
  BY <1>3, <1>5, <1>6

LEMMA DroppedSame ==
  ASSUME NEW L, \A i \in L : job'[i].list = job[i].list
  PROVE  DroppedBy(L)' = DroppedBy(L)
<1>1. \A i \in L : Dropped(job'[i].list) = Dropped(job[i].list)
  OBVIOUS
<1>2. QED
  BY <1>1 DEF DroppedBy

(* A step that neither writes nor lists nor removes summaries.             *)
LEMMA CleanupSame ==
  ASSUME CleanupInv, UNCHANGED <<summaries, starts>>, Busy' = Busy, Listing' = Listing,
         \A i \in Jobs : job'[i].list = job[i].list
  PROVE  CleanupInv'
<1>1. ASSUME NEW L \in SUBSET Listing
      PROVE  DroppedBy(L)' = DroppedBy(L)
  <2>1. \A i \in L : job'[i].list = job[i].list
    BY DEF Listing
  <2>2. QED
    BY <2>1, DroppedSame
<1>2. QED
  BY <1>1 DEF CleanupInv

LEMMA WriteSummaryKeeps ==
  ASSUME Keep \in Nat \ {0}, IsFiniteSet(Jobs), SummaryInv,
         NEW j \in Jobs, Summarizer!WriteSummary(j)
  PROVE  SummaryInv'
<1>a. DaysInv /\ CleanupInv
  BY DEF SummaryInv
<1>1. /\ job[j].phase = "calling" /\ job' = [job EXCEPT ![j].phase = "written"]
      /\ summaries' = summaries \cup {day} /\ newest' = day /\ UNCHANGED <<day, starts>>
  BY DEF Summarizer!WriteSummary
<1>2. /\ job'[j].phase = "written" /\ \A i \in Jobs \ {j} : job'[i] = job[i]
      /\ \A i \in Jobs : job'[i].list = job[i].list
      /\ job' \in [Jobs -> [phase : Summarizer!Phases, list : SUBSET (1 .. newest)]]
  BY <1>a, <1>1 DEF DaysInv, Summarizer!Phases
<1>3. DaysInv'
  <2>1. newest' \in Nat /\ newest <= newest' /\ 1 .. newest \subseteq 1 .. newest' /\ day \in 1 .. newest'
    BY <1>a, <1>1 DEF DaysInv
  <2>2. job' \in [Jobs -> [phase : Summarizer!Phases, list : SUBSET (1 .. newest')]]
    BY <1>2, <2>1
  <2>3. QED
    BY <1>a, <1>1, <2>1, <2>2 DEF DaysInv, Summarizer!NewestKept
<1>4. CleanupInv'
  <2>1. Listing' = Listing /\ Busy' = Busy \cup {j} /\ j \notin Busy
    BY <1>1, <1>2 DEF Listing, Busy
  <2>2. ASSUME NEW L \in SUBSET Listing
        PROVE  Cardinality(summaries' \ DroppedBy(L)')
                 <= Keep + starts' * Cardinality(Jobs) + Cardinality(Busy' \ L)
    <3>1. DroppedBy(L)' = DroppedBy(L)
      <4>1. \A i \in L : job'[i].list = job[i].list
        BY <1>2 DEF Listing
      <4>2. QED
        BY <4>1, DroppedSame
    <3>2. PICK A, B, c : A = summaries \ DroppedBy(L) /\ B = Busy \ L
                         /\ c = starts * Cardinality(Jobs)
      OBVIOUS
    <3>3. /\ IsFiniteSet(A) /\ Cardinality(A) \in Nat
          /\ IsFiniteSet(B) /\ Cardinality(B) \in Nat /\ c \in Nat
      BY <3>2, Countable
    <3>4. Cardinality(A) <= Keep + c + Cardinality(B)
      BY <1>a, <3>2 DEF CleanupInv
    <3>5. summaries' \ DroppedBy(L)' \subseteq A \cup {day}
      BY <1>1, <3>1, <3>2
    <3>6. IsFiniteSet(A \cup {day}) /\ Cardinality(A \cup {day}) <= Cardinality(A) + 1
      BY <3>3, FS_AddElement
    <3>7. /\ Cardinality(summaries' \ DroppedBy(L)') <= Cardinality(A \cup {day})
          /\ Cardinality(A \cup {day}) \in Nat
          /\ Cardinality(summaries' \ DroppedBy(L)') \in Nat
      BY <3>5, <3>6, FS_Subset, FS_CardinalityType
    <3>8. j \notin B /\ Busy' \ L = B \cup {j}
      BY <1>1, <2>1, <3>2 DEF Listing
    <3>9. Cardinality(Busy' \ L) = Cardinality(B) + 1
      BY <3>3, <3>8, FS_AddElement
    <3>10. starts' * Cardinality(Jobs) = c
      BY <1>1, <3>2
    <3>11. QED
      BY <3>3, <3>4, <3>6, <3>7, <3>9, <3>10
  <2>3. QED
    BY <1>a, <1>1, <2>1, <2>2 DEF CleanupInv
<1>5. QED
  BY <1>3, <1>4 DEF SummaryInv

LEMMA ListSummariesKeeps ==
  ASSUME Keep \in Nat \ {0}, IsFiniteSet(Jobs), SummaryInv,
         NEW j \in Jobs, Summarizer!ListSummaries(j)
  PROVE  SummaryInv'
<1>a. DaysInv /\ CleanupInv
  BY DEF SummaryInv
<1>1. /\ job[j].phase = "recorded"
      /\ job' = [job EXCEPT ![j] = [phase |-> "listed", list |-> summaries]]
      /\ UNCHANGED <<day, summaries, newest, starts>>
  BY DEF Summarizer!ListSummaries
<1>2. /\ job'[j].phase = "listed" /\ job'[j].list = summaries
      /\ \A i \in Jobs \ {j} : job'[i] = job[i]
      /\ job' \in [Jobs -> [phase : Summarizer!Phases, list : SUBSET (1 .. newest)]]
  BY <1>a, <1>1 DEF DaysInv, Summarizer!Phases
<1>3. DaysInv'
  BY <1>a, <1>1, <1>2 DEF DaysInv, Summarizer!NewestKept
<1>4. Listing' = Listing \cup {j} /\ Busy' = Busy
  BY <1>1, <1>2 DEF Listing, Busy
<1>5. ASSUME NEW L \in SUBSET Listing'
      PROVE  Cardinality(summaries' \ DroppedBy(L)')
               <= Keep + starts' * Cardinality(Jobs) + Cardinality(Busy' \ L)
  <2>1. CASE j \notin L
    <3>1. L \in SUBSET Listing
      BY <1>4, <2>1
    <3>2. \A i \in L : job'[i] = job[i]
      BY <1>2, <2>1, <3>1 DEF Listing
    <3>3. DroppedBy(L)' = DroppedBy(L)
      BY <3>2, DroppedSame
    <3>4. QED
      BY <1>a, <1>1, <1>4, <3>1, <3>3 DEF CleanupInv
  <2>2. CASE j \in L
    <3>1. Dropped(summaries) \subseteq DroppedBy(L)'
      BY <1>2, <2>2 DEF DroppedBy
    <3>2. summaries \in SUBSET Nat
      BY <1>a DEF DaysInv
    <3>3. summaries \ {} = summaries
      OBVIOUS
    <3>4. IsFiniteSet(summaries)
      BY <3>3, Countable
    <3>5. Cardinality(summaries \ Dropped(summaries)) <= Keep
      BY <3>2, <3>4, KeptAreFew
    <3>6. PICK A, B : A = summaries' \ DroppedBy(L)' /\ B = summaries \ Dropped(summaries)
      OBVIOUS
    <3>7. A \subseteq B
      BY <1>1, <3>1, <3>6
    <3>8. IsFiniteSet(B) /\ Cardinality(B) \in Nat
      BY <3>6, Countable
    <3>9. Cardinality(A) <= Cardinality(B) /\ Cardinality(A) \in Nat
      BY <3>7, <3>8, FS_Subset, FS_CardinalityType
    <3>10. starts' * Cardinality(Jobs) \in Nat /\ Cardinality(Busy' \ L) \in Nat
      BY <1>1, <1>4, Countable
    <3>11. QED
      BY <3>5, <3>6, <3>8, <3>9, <3>10
  <2>3. QED
    BY <2>1, <2>2
<1>6. CleanupInv'
  BY <1>a, <1>1, <1>5 DEF CleanupInv
<1>7. QED
  BY <1>3, <1>6 DEF SummaryInv

(* The bound for those left includes the one that removes now.             *)
LEMMA RemoveOldestKeeps ==
  ASSUME Keep \in Nat \ {0}, IsFiniteSet(Jobs), SummaryInv,
         NEW j \in Jobs, Summarizer!RemoveOldest(j)
  PROVE  SummaryInv'
<1>a. DaysInv /\ CleanupInv
  BY DEF SummaryInv
<1>1. /\ job[j].phase = "listed"
      /\ job' = [job EXCEPT ![j] = [phase |-> "idle", list |-> {}]]
      /\ summaries' = summaries \ Dropped(job[j].list)
      /\ UNCHANGED <<day, newest, starts>>
  BY SameCount DEF Summarizer!RemoveOldest, Summarizer!Idle, Dropped
<1>2. /\ job'[j].phase = "idle" /\ \A i \in Jobs \ {j} : job'[i] = job[i]
      /\ job' \in [Jobs -> [phase : Summarizer!Phases, list : SUBSET (1 .. newest)]]
  BY <1>a, <1>1 DEF DaysInv, Summarizer!Phases
<1>3. newest \notin Dropped(job[j].list)
  <2>1. PICK S : S = job[j].list /\ S \subseteq 1 .. newest
    BY <1>a DEF DaysInv
  <2>2. {e \in S : e > newest} = {}
    BY <1>a, <2>1 DEF DaysInv
  <2>3. Cardinality({e \in S : e > newest}) = 0
    BY <2>2, FS_EmptySet
  <2>4. QED
    BY <2>1, <2>3 DEF Dropped
<1>4. DaysInv'
  BY <1>a, <1>1, <1>2, <1>3 DEF DaysInv, Summarizer!NewestKept
<1>5. Listing' = Listing \ {j} /\ Busy' = Busy \ {j} /\ j \in Listing
  BY <1>1, <1>2 DEF Listing, Busy
<1>6. ASSUME NEW L \in SUBSET Listing'
      PROVE  Cardinality(summaries' \ DroppedBy(L)')
               <= Keep + starts' * Cardinality(Jobs) + Cardinality(Busy' \ L)
  <2>1. L \cup {j} \in SUBSET Listing /\ j \notin L
    BY <1>5
  <2>2. \A i \in L : job'[i] = job[i]
    BY <1>2, <2>1 DEF Listing
  <2>3. DroppedBy(L)' = DroppedBy(L)
    BY <2>2, DroppedSame
  <2>4. DroppedBy(L \cup {j}) = DroppedBy(L) \cup Dropped(job[j].list)
    BY DEF DroppedBy
  <2>5. summaries' \ DroppedBy(L)' = summaries \ DroppedBy(L \cup {j})
    BY <1>1, <2>3, <2>4
  <2>6. Busy' \ L = Busy \ (L \cup {j})
    BY <1>5
  <2>7. Cardinality(summaries \ DroppedBy(L \cup {j}))
          <= Keep + starts * Cardinality(Jobs) + Cardinality(Busy \ (L \cup {j}))
    BY <1>a, <2>1 DEF CleanupInv
  <2>8. QED
    BY <1>1, <2>5, <2>6, <2>7
<1>7. CleanupInv'
  BY <1>a, <1>1, <1>6 DEF CleanupInv
<1>8. QED
  BY <1>4, <1>7 DEF SummaryInv

(* Each job that is cut off may leave one summary more.                    *)
LEMMA RestartKeepsSummaries ==
  ASSUME Keep \in Nat \ {0}, IsFiniteSet(Jobs), SummaryInv, Summarizer!Restart
  PROVE  SummaryInv'
<1>a. DaysInv /\ CleanupInv
  BY DEF SummaryInv
<1>1. /\ job' = [j \in Jobs |-> [phase |-> "idle", list |-> {}]]
      /\ starts' = starts + 1 /\ UNCHANGED <<day, summaries, newest>>
  BY DEF Summarizer!Restart, Summarizer!Idle
<1>2. DaysInv'
  BY <1>a, <1>1 DEF DaysInv, Summarizer!NewestKept, Summarizer!Phases
<1>3. CleanupInv'
  <2>1. Listing' = {} /\ Busy' = {} /\ starts \in Nat /\ starts' \in Nat
    BY <1>a, <1>1 DEF Listing, Busy, CleanupInv
  <2>2. PICK n, b, c : n = Cardinality(summaries) /\ b = Cardinality(Busy) /\ c = Cardinality(Jobs)
    OBVIOUS
  <2>3. summaries \ {} = summaries /\ Busy \ {} = Busy /\ DroppedBy({}) = {} /\ {} \in SUBSET Listing
    BY DEF DroppedBy
  <2>4. n \in Nat /\ b \in Nat
    BY <2>2, <2>3, Countable
  <2>5. c \in Nat /\ b <= c
    BY <2>2, FS_CardinalityType, FS_Subset DEF Busy
  <2>6. n <= Keep + starts * c + b
    BY <1>a, <2>2, <2>3 DEF CleanupInv
  <2>7. (starts + 1) * c = starts * c + c /\ starts * c \in Nat
    BY <2>1, <2>5
  <2>8. n <= Keep + (starts + 1) * c + 0
    BY <2>4, <2>5, <2>6, <2>7
  <2>9. DroppedBy({})' = {} /\ summaries' \ {} = summaries /\ {} \ {} = {} /\ Cardinality({}) = 0
    BY <1>1, FS_EmptySet DEF DroppedBy
  <2>10. ASSUME NEW L \in SUBSET Listing'
         PROVE  Cardinality(summaries' \ DroppedBy(L)')
                  <= Keep + starts' * Cardinality(Jobs) + Cardinality(Busy' \ L)
    <3>1. L = {}
      BY <2>1
    <3>2. summaries' \ DroppedBy(L)' = summaries /\ Busy' \ L = {}
      BY <2>1, <2>9, <3>1
    <3>3. QED
      BY <1>1, <2>2, <2>8, <2>9, <3>2
  <2>11. QED
    BY <2>1, <2>10 DEF CleanupInv
<1>4. QED
  BY <1>2, <1>3 DEF SummaryInv

(* The steps of a job before it writes, and the recording of the time.     *)
LEMMA PhaseKeeps ==
  ASSUME SummaryInv, NEW j \in Jobs,
         Summarizer!Trigger(j) \/ Summarizer!Collect(j) \/ Summarizer!SummaryFails(j)
           \/ Summarizer!RecordTime(j)
  PROVE  SummaryInv'
<1>a. DaysInv /\ CleanupInv
  BY DEF SummaryInv
<1>1. PICK place : /\ Summarizer!Set(j, place) /\ summaries' = summaries
                   /\ \/ /\ job[j].phase \in {"idle", "collecting", "calling"}
                         /\ place \in {"idle", "collecting", "calling"}
                      \/ job[j].phase = "written" /\ place = "recorded"
  BY DEF Summarizer!Trigger, Summarizer!Collect, Summarizer!SummaryFails, Summarizer!RecordTime
<1>2. /\ job' = [job EXCEPT ![j].phase = place] /\ UNCHANGED <<day, newest, starts>>
  BY <1>1 DEF Summarizer!Set
<1>3. /\ job'[j].phase = place /\ \A i \in Jobs \ {j} : job'[i] = job[i]
      /\ \A i \in Jobs : job'[i].list = job[i].list
      /\ job' \in [Jobs -> [phase : Summarizer!Phases, list : SUBSET (1 .. newest)]]
  BY <1>a, <1>1, <1>2 DEF DaysInv, Summarizer!Phases
<1>4. Listing' = Listing /\ Busy' = Busy
  BY <1>1, <1>3 DEF Listing, Busy
<1>5. DaysInv'
  BY <1>a, <1>1, <1>2, <1>3 DEF DaysInv, Summarizer!NewestKept
<1>6. CleanupInv'
  BY <1>a, <1>1, <1>2, <1>3, <1>4, CleanupSame
<1>7. QED
  BY <1>5, <1>6 DEF SummaryInv

LEMMA SummaryInvariance ==
  ASSUME Keep \in Nat \ {0}, IsFiniteSet(Jobs)
  PROVE  Summarizer!Spec => []SummaryInv
<1>1. Summarizer!Init => SummaryInv
  <2>1. SUFFICES ASSUME Summarizer!Init PROVE SummaryInv
    OBVIOUS
  <2>2. /\ day = 1 /\ newest = 0 /\ summaries = {} /\ starts = 0
        /\ job = [j \in Jobs |-> [phase |-> "idle", list |-> {}]]
    BY <2>1 DEF Summarizer!Init, Summarizer!Idle
  <2>3. DaysInv
    BY <2>2 DEF DaysInv, Summarizer!NewestKept, Summarizer!Phases
  <2>4. Listing = {} /\ Busy = {}
    BY <2>2 DEF Listing, Busy
  <2>5. Cardinality({}) = 0 /\ Cardinality(Jobs) \in Nat
    BY FS_EmptySet, FS_CardinalityType
  <2>6. \A L \in SUBSET Listing : summaries \ DroppedBy(L) = {} /\ Busy \ L = {}
    BY <2>2, <2>4
  <2>7. CleanupInv
    <3>1. ASSUME NEW L \in SUBSET Listing
          PROVE  Cardinality(summaries \ DroppedBy(L))
                   <= Keep + starts * Cardinality(Jobs) + Cardinality(Busy \ L)
      <4>1. Cardinality(summaries \ DroppedBy(L)) = 0 /\ Cardinality(Busy \ L) = 0
        BY <2>5, <2>6
      <4>2. starts * Cardinality(Jobs) = 0
        BY <2>2, <2>5
      <4>3. QED
        BY <4>1, <4>2
    <3>2. QED
      BY <2>2, <3>1 DEF CleanupInv
  <2>8. QED
    BY <2>3, <2>7 DEF SummaryInv
<1>2. SummaryInv /\ [Summarizer!Next]_Summarizer!summaryVars => SummaryInv'
  <2>1. SUFFICES ASSUME SummaryInv, [Summarizer!Next]_Summarizer!summaryVars PROVE SummaryInv'
    OBVIOUS
  <2>2. CASE \/ Summarizer!NextDay \/ Summarizer!CooldownOver \/ UNCHANGED Summarizer!summaryVars
             \/ \E f \in Files : Summarizer!Remember(f) \/ Summarizer!Forget(f)
    <3>1. UNCHANGED <<summaries, job, newest, starts>> /\ (day' = day \/ day' = day + 1)
      BY <2>2 DEF Summarizer!NextDay, Summarizer!CooldownOver, Summarizer!Remember,
                  Summarizer!Forget, Summarizer!summaryVars
    <3>2. DaysInv'
      BY <2>1, <3>1 DEF SummaryInv, DaysInv, Summarizer!NewestKept
    <3>3. Listing' = Listing /\ Busy' = Busy /\ \A i \in Jobs : job'[i].list = job[i].list
      BY <3>1 DEF Listing, Busy
    <3>4. CleanupInv'
      BY <2>1, <3>1, <3>3, CleanupSame DEF SummaryInv
    <3>5. QED
      BY <3>2, <3>4 DEF SummaryInv
  <2>3. CASE Summarizer!Restart
    BY <2>1, <2>3, RestartKeepsSummaries
  <2>4. CASE \E j \in Jobs :
               \/ Summarizer!Trigger(j) \/ Summarizer!Collect(j) \/ Summarizer!SummaryFails(j)
               \/ Summarizer!WriteSummary(j) \/ Summarizer!RecordTime(j)
               \/ Summarizer!ListSummaries(j) \/ Summarizer!RemoveOldest(j)
    BY <2>1, <2>4, PhaseKeeps, WriteSummaryKeeps, ListSummariesKeeps, RemoveOldestKeeps
  <2>5. QED
    BY <2>1, <2>2, <2>3, <2>4 DEF Summarizer!Next
<1>3. QED
  BY <1>1, <1>2, PTL DEF Summarizer!Spec

(* For any number of jobs, days and restarts: the latest summary is never  *)
(* removed, and there are no more than Keep of them, one more for each job *)
(* that is on its way and each that was cut off (summarizer.go:190, 220).  *)
THEOREM SummariesKept ==
  ASSUME Keep \in Nat \ {0}, IsFiniteSet(Jobs)
  PROVE  Summarizer!Spec => []Summarizer!SummariesConsistent
<1>1. SummaryInv => Summarizer!SummariesConsistent
  <2>1. SUFFICES ASSUME SummaryInv
                 PROVE  Summarizer!NewestKept /\ Summarizer!SummariesBounded
    BY DEF Summarizer!SummariesConsistent
  <2>2. summaries \ {} = summaries /\ Busy \ {} = Busy /\ DroppedBy({}) = {} /\ {} \in SUBSET Listing
    BY DEF DroppedBy
  <2>3. Cardinality(summaries) <= Keep + starts * Cardinality(Jobs) + Cardinality(Busy)
    BY <2>1, <2>2 DEF SummaryInv, CleanupInv
  <2>4. Summarizer!SummariesBounded
    BY <2>3, SameCount DEF Summarizer!SummariesBounded, Busy
  <2>5. QED
    BY <2>1, <2>4 DEF SummaryInv, DaysInv
<1>2. QED
  BY <1>1, SummaryInvariance, PTL

=============================================================================
