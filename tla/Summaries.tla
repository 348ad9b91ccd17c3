----------------------------- MODULE Summaries -----------------------------
(***************************************************************************)
(* The summaries of an agent's memory files.  A hook at the system prompt  *)
(* of any chat of the agent may start one in the background; nothing keeps *)
(* two chats from starting one each, and the process may end at any point. *)
(* A summary is a file named after its day; the three latest are kept.     *)
(***************************************************************************)
EXTENDS Integers, Sequences, FiniteSets, FiniteSetsExt

CONSTANTS
  Jobs,          \* background summaries that may run at a time
  Files,         \* memory files 1 .. n, by name
  MaxMemories,   \* files that trigger a summary when exceeded (50)
  Keep,          \* summaries kept (3)
  MaxDays, MaxRestarts  \* bounds

VARIABLES
  day,        \* today
  file,       \* for each memory file "none", "fresh" or "old" (than MaxAgeHours)
  summaries,  \* the days that have a summary file
  cooling,    \* less than CooldownMinutes since .last_summary
  job,        \* per job [phase, list]: "idle", "collecting", "calling", "written",
              \*   "recorded" or "listed", with the summaries it found to clean up
  newest,     \* history: the day of the latest summary written
  restarts    \* bound; a job that is cut may leave a summary too many

summaryVars == <<day, file, summaries, cooling, job, newest, restarts>>

Idle == [phase |-> "idle", list |-> {}]
Phases == {"idle", "collecting", "calling", "written", "recorded", "listed"}

SummariesTypeOK ==
  /\ day \in 1 .. MaxDays /\ newest \in 0 .. MaxDays /\ restarts \in 0 .. MaxRestarts
  /\ file \in [Files -> {"none", "fresh", "old"}]
  /\ summaries \subseteq 1 .. MaxDays /\ cooling \in BOOLEAN
  /\ job \in [Jobs -> [phase : Phases, list : SUBSET (1 .. MaxDays)]]

Init ==
  /\ day = 1 /\ file \in [Files -> {"none", "old"}] /\ summaries = {} /\ cooling = FALSE
  /\ job = [j \in Jobs |-> Idle] /\ newest = 0 /\ restarts = 0

Present == {f \in Files : file[f] # "none"}

(* Time passes and memories come and go. *)
NextDay ==
  /\ day < MaxDays
  /\ day' = day + 1 /\ cooling' = FALSE
  /\ file' = [f \in Files |-> IF file[f] = "fresh" THEN "old" ELSE file[f]]
  /\ UNCHANGED <<summaries, job, newest, restarts>>
CooldownOver ==
  /\ cooling
  /\ cooling' = FALSE
  /\ UNCHANGED <<day, file, summaries, job, newest, restarts>>
Remember(f) ==
  /\ file[f] = "none"
  /\ file' = [file EXCEPT ![f] = "fresh"]
  /\ UNCHANGED <<day, summaries, cooling, job, newest, restarts>>
Forget(f) ==
  /\ file[f] # "none"
  /\ file' = [file EXCEPT ![f] = "none"]
  /\ UNCHANGED <<day, summaries, cooling, job, newest, restarts>>

\* Too many files, or the first of them by name is old: the loop ends at that file, so
\* another file's age does not count.
ShouldTrigger ==
  /\ ~cooling
  /\ \/ Cardinality(Present) > MaxMemories
     \/ Present # {} /\ file[Min(Present)] = "old"

Set(j, phase) ==
  /\ job' = [job EXCEPT ![j].phase = phase]
  /\ UNCHANGED <<day, file, newest, restarts>>

\* The hook of some chat: the decision and the start of the job.
Trigger(j) ==
  /\ job[j].phase = "idle"
  /\ ShouldTrigger
  /\ Set(j, "collecting")
  /\ UNCHANGED <<summaries, cooling>>

\* The files are read; with none left there is nothing to do.
Collect(j) ==
  /\ job[j].phase = "collecting"
  /\ Set(j, IF Present = {} THEN "idle" ELSE "calling")
  /\ UNCHANGED <<summaries, cooling>>

\* The model fails, its minute is over, or the file cannot be written: no cooldown either.
SummaryFails(j) ==
  /\ job[j].phase = "calling"
  /\ Set(j, "idle")
  /\ UNCHANGED <<summaries, cooling>>

WriteSummary(j) ==
  /\ job[j].phase = "calling"
  /\ job' = [job EXCEPT ![j].phase = "written"]
  /\ summaries' = summaries \cup {day}
  /\ newest' = day
  /\ UNCHANGED <<day, file, cooling, restarts>>

RecordTime(j) ==
  /\ job[j].phase = "written"
  /\ Set(j, "recorded")
  /\ cooling' = TRUE
  /\ UNCHANGED summaries

ListSummaries(j) ==
  /\ job[j].phase = "recorded"
  /\ job' = [job EXCEPT ![j] = [phase |-> "listed", list |-> summaries]]
  /\ UNCHANGED <<day, file, summaries, cooling, newest, restarts>>

\* Variant: the order of the names is taken the wrong way round.
RemoveNewest(j) ==
  /\ job[j].phase = "listed"
  /\ summaries' = summaries \ {d \in job[j].list : Cardinality({e \in job[j].list : e < d}) >= Keep}
  /\ job' = [job EXCEPT ![j] = Idle]
  /\ UNCHANGED <<day, file, cooling, newest, restarts>>

\* All but the last Keep names of the list are removed.
RemoveOldest(j) ==
  /\ job[j].phase = "listed"
  /\ summaries' = summaries \ {d \in job[j].list : Cardinality({e \in job[j].list : e > d}) >= Keep}
  /\ job' = [job EXCEPT ![j] = Idle]
  /\ UNCHANGED <<day, file, cooling, newest, restarts>>

\* The process ends and is started again.
Restart ==
  /\ restarts < MaxRestarts
  /\ restarts' = restarts + 1
  /\ job' = [j \in Jobs |-> Idle]
  /\ UNCHANGED <<day, file, summaries, cooling, newest>>

Next ==
  \/ NextDay \/ CooldownOver \/ Restart
  \/ \E f \in Files : Remember(f) \/ Forget(f)
  \/ \E j \in Jobs :
       \/ Trigger(j) \/ Collect(j) \/ SummaryFails(j) \/ WriteSummary(j)
       \/ RecordTime(j) \/ ListSummaries(j) \/ RemoveOldest(j)

Spec == Init /\ [][Next]_summaryVars

-----------------------------------------------------------------------------
\* The latest summary is never removed, though clean-ups of several jobs overlap each
\* other and the writing of a new one (summarizer.go:220).
NewestKept == newest > 0 => newest \in summaries

\* No more than Keep summaries stay, one more for each job between its writing and its
\* clean-up; what a crash leaves over, the next clean-up removes (summarizer.go:190).
SummariesBounded ==
  Cardinality(summaries) <= Keep + restarts * Cardinality(Jobs)
    + Cardinality({j \in Jobs : job[j].phase \in {"written", "recorded", "listed"}})

SummariesConsistent == NewestKept /\ SummariesBounded

=============================================================================
