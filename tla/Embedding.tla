----------------------------- MODULE Embedding -----------------------------
(***************************************************************************)
(* The embedding client: the texts of a document are sent in batches, a    *)
(* failed request is repeated with a growing delay, and what the batches   *)
(* brought is stored against the chunks by position.  The service may      *)
(* fail for a while or for good, may answer with fewer vectors than texts, *)
(* and the caller's context may end at any time.                           *)
(***************************************************************************)
EXTENDS Integers, Sequences

CONSTANTS
  MaxTexts,     \* bound: texts of a document
  BatchSize,    \* embedBatchSize (100)
  MaxRetries    \* embedMaxRetries (3)

VARIABLES
  texts,      \* number of texts of the document
  vectors,    \* for each vector received, the text it was computed from
  batch,      \* batches done
  attempt,    \* requests of this batch, the current one included
  phase,      \* "sending", "backoff", "embedded", "failed", "stored", "unstored"
  cancelled   \* the caller's context is done

embedVars == <<texts, vectors, batch, attempt, phase, cancelled>>

Batches == (texts + BatchSize - 1) \div BatchSize
First   == batch * BatchSize + 1
LastOf  == IF First + BatchSize - 1 < texts THEN First + BatchSize - 1 ELSE texts

EmbeddingTypeOK ==
  /\ texts \in 1 .. MaxTexts /\ vectors \in Seq(1 .. MaxTexts)
  /\ batch \in 0 .. Batches /\ attempt \in 1 .. MaxRetries
  /\ phase \in {"sending", "backoff", "embedded", "failed", "stored", "unstored"}
  /\ cancelled \in BOOLEAN

Init ==
  /\ texts \in 1 .. MaxTexts
  /\ vectors = <<>> /\ batch = 0 /\ attempt = 1
  /\ phase = "sending" /\ cancelled = FALSE

\* The caller goes away: a stopped chat, the worker at shutdown.
CancelContext ==
  /\ ~cancelled
  /\ phase \in {"sending", "backoff"}
  /\ cancelled' = TRUE
  /\ UNCHANGED <<texts, vectors, batch, attempt, phase>>

\* An answer of n vectors, n > 0, the i-th for the i-th text of the batch; that there is
\* one for each text is not checked.  A request under way when the context ends may
\* still be answered.
Answered(n) ==
  /\ phase = "sending"
  /\ n <= LastOf - First + 1
  /\ vectors' = vectors \o [i \in 1 .. n |-> First + i - 1]
  /\ batch' = batch + 1 /\ attempt' = 1
  /\ phase' = IF batch + 1 = Batches THEN "embedded" ELSE "sending"
  /\ UNCHANGED <<texts, cancelled>>

\* No vectors at all, vectors of another dimension, a 4xx answer, an unreadable one.
Refused ==
  /\ phase = "sending"
  /\ phase' = "failed"
  /\ UNCHANGED <<texts, vectors, batch, attempt, cancelled>>

\* Variant: the attempts are not counted.
FailedUncounted ==
  /\ phase = "sending"
  /\ phase' = "backoff"
  /\ attempt' = 0
  /\ UNCHANGED <<texts, vectors, batch, cancelled>>

\* Variant: one request more than there are attempts.
FailedOnceMore ==
  /\ phase = "sending"
  /\ phase' = IF attempt <= MaxRetries THEN "backoff" ELSE "failed"
  /\ UNCHANGED <<texts, vectors, batch, attempt, cancelled>>

\* A transport error, a timeout or a 5xx answer is retried, up to MaxRetries requests.
Failed ==
  /\ phase = "sending"
  /\ phase' = IF attempt < MaxRetries THEN "backoff" ELSE "failed"
  /\ UNCHANGED <<texts, vectors, batch, attempt, cancelled>>

\* The delay is over, or the context ends it.
Retry ==
  /\ phase = "backoff"
  /\ IF cancelled THEN phase' = "failed" /\ UNCHANGED attempt
                  ELSE phase' = "sending" /\ attempt' = attempt + 1
  /\ UNCHANGED <<texts, vectors, batch, cancelled>>

\* Variant: vectors are stored up to the shorter of the two lists.
StoreWhatCame ==
  /\ phase = "embedded"
  /\ phase' = "stored"
  /\ UNCHANGED <<texts, vectors, batch, attempt, cancelled>>

\* StoreChunks refuses another number of vectors than of chunks.
StoreVectors ==
  /\ phase = "embedded"
  /\ phase' = IF Len(vectors) = texts THEN "stored" ELSE "unstored"
  /\ UNCHANGED <<texts, vectors, batch, attempt, cancelled>>

\* The request, its answer or failure, and what follows.
Embed ==
  \/ Refused \/ Failed \/ Retry \/ StoreVectors
  \/ \E n \in 1 .. BatchSize : Answered(n)

Next == CancelContext \/ Embed

Spec == Init /\ [][Next]_embedVars

-----------------------------------------------------------------------------
\* What is stored with a chunk is the vector of that chunk's text, however batches were
\* answered short, failed and repeated: vectors that moved up behind a short answer are
\* never stored (openai.go:140 appends, knowledge.go:202 compares the totals).
VectorsMatchTexts == phase = "stored" => vectors = [i \in 1 .. texts |-> i]

\* Every document's embedding comes to an end, under weak fairness of the client: a
\* batch that keeps failing is given up after MaxRetries requests (openai.go:148).
EmbeddingEnds == <>(phase \in {"failed", "stored", "unstored"})

=============================================================================
