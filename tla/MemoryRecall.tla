---------------------------- MODULE MemoryRecall ----------------------------
(***************************************************************************)
(* One call of the memory_recall tool while other chats store and forget   *)
(* memories.  The model is shown the entries of the index and names paths; *)
(* whatever goes wrong with that, an outdated index, a useless answer,     *)
(* files that are gone, the tool falls back to searching the files for the *)
(* words of the query.                                                     *)
(***************************************************************************)
EXTENDS Integers, Sequences, FiniteSets, SequencesExt

CONSTANTS
  Memories,   \* paths of memory files
  Matching,   \* those whose text contains the query
  Wanted,     \* those of the category asked for (all of them, if none is)
  Limit       \* results asked for (5)

VARIABLES
  onDisk,   \* the files
  listed,   \* the entries of INDEX.md
  asked,    \* what the model was shown
  chosen,   \* the paths it named that are still to be read
  results,  \* what the call has found
  call,     \* "start", "asked", "reading", "keyword", "done"
  steady    \* history: the files that were there all through the call

recallVars == <<onDisk, listed, asked, chosen, results, call, steady>>

RecallTypeOK ==
  /\ onDisk \subseteq Memories /\ listed \subseteq Memories /\ asked \subseteq Memories
  /\ chosen \in Seq(Memories) /\ results \in Seq(Memories)
  /\ call \in {"start", "asked", "reading", "keyword", "done"} /\ steady \subseteq Memories

Init ==
  /\ onDisk \in SUBSET Memories
  /\ listed \in SUBSET Memories
  /\ asked = {} /\ chosen = <<>> /\ results = <<>>
  /\ call = "start" /\ steady = onDisk

\* Other chats change files and, separately, the index that is built from them.
FileAppears(p) ==
  /\ p \notin onDisk
  /\ onDisk' = onDisk \cup {p}
  /\ UNCHANGED <<listed, asked, chosen, results, call, steady>>
FileGoes(p) ==
  /\ p \in onDisk
  /\ onDisk' = onDisk \ {p} /\ steady' = steady \ {p}
  /\ UNCHANGED <<listed, asked, chosen, results, call>>
IndexRebuilt ==
  /\ listed # onDisk
  /\ listed' = onDisk
  /\ UNCHANGED <<onDisk, asked, chosen, results, call, steady>>

\* The index is read and the entries of the category are put to the model; without a
\* model, an index or such an entry the files are searched.
Ask ==
  /\ call = "start"
  /\ asked' = listed \cap Wanted
  /\ call' \in IF asked' = {} THEN {"keyword"} ELSE {"asked", "keyword"}
  /\ UNCHANGED <<onDisk, listed, chosen, results, steady>>

\* The model names paths, in its order, some perhaps twice or not shown to it; it may also fail, or answer
\* with something else or with no path.
ModelChooses(paths) ==
  /\ call = "asked"
  /\ chosen' = paths
  /\ call' = IF paths = <<>> THEN "keyword" ELSE "reading"
  /\ UNCHANGED <<onDisk, listed, asked, results, steady>>

\* The next named file: one that cannot be read is passed over.
ReadChosen ==
  /\ call = "reading" /\ chosen # <<>> /\ Len(results) < Limit
  /\ results' = IF Head(chosen) \in onDisk THEN Append(results, Head(chosen)) ELSE results
  /\ chosen' = Tail(chosen)
  /\ UNCHANGED <<onDisk, listed, asked, call, steady>>

\* Variant: an empty result of the model's choice is the answer.
AnswerChosenAnyway ==
  /\ call = "reading" /\ (chosen = <<>> \/ Len(results) >= Limit)
  /\ call' = "done"
  /\ UNCHANGED <<onDisk, listed, asked, chosen, results, steady>>

\* All read: the results are the answer if there are any.
AnswerChosen ==
  /\ call = "reading" /\ (chosen = <<>> \/ Len(results) >= Limit)
  /\ call' = IF results = <<>> THEN "keyword" ELSE "done"
  /\ UNCHANGED <<onDisk, listed, asked, chosen, results, steady>>

\* The files of the category, in directory order, up to the limit.
KeywordRecall ==
  /\ call = "keyword"
  /\ \E order \in SetToSeqs(onDisk \cap Wanted \cap Matching) :
       results' = SubSeq(order, 1, IF Len(order) < Limit THEN Len(order) ELSE Limit)
  /\ call' = "done"
  /\ UNCHANGED <<onDisk, listed, asked, chosen, steady>>

Next ==
  \/ \E p \in Memories : FileAppears(p) \/ FileGoes(p)
  \/ IndexRebuilt \/ Ask \/ ReadChosen \/ AnswerChosen \/ KeywordRecall
  \/ \E n \in 0 .. 2 : \E paths \in [1 .. n -> Memories] : ModelChooses(paths)

Spec == Init /\ [][Next]_recallVars

-----------------------------------------------------------------------------
\* A memory of the category that contains the query's words and is there all through
\* the call makes the answer non-empty: neither an index that misses it or lists deleted
\* files nor the model's answer can hide that there is something
\* (memory_recall_tool.go:83).
SomethingIsFound == call = "done" /\ steady \cap Wanted \cap Matching # {} => results # <<>>

\* The answer is within the limit, whichever way it was found (that the model stays with
\* the entries it was shown is not checked).
WithinRequest == Len(results) <= Limit

RecallConsistent == SomethingIsFound /\ WithinRequest

=============================================================================
