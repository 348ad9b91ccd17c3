--------------------------- MODULE AgentLoopProofs ---------------------------
(***************************************************************************)
(* Proofs about one run of the agent loop, for any number of steps, calls  *)
(* and permits, and any faults of the store.                               *)
(***************************************************************************)
EXTENDS AgentLoop, FiniteSetTheorems, TLAPS

(* Where the loop is, and what that says of the step it is in.             *)
PhaseInv ==
    /\ pc \in {"context", "stream", "calls", "tools", "checkpoint"} => step \in Steps
    /\ pc \in {"prepare", "top", "context", "stream", "calls"} => handled = {}
    /\ step \in Steps => handled \subseteq 1 .. Len(calls[step])
    /\ \A s \in Steps :
          (s > step \/ (s = step /\ pc \in {"prepare", "top", "context", "stream"}))
              => calls[s] = <<>>
    /\ (outcome = "none") <=> (pc # "ended")
    /\ outcome = "done" => step \in Steps /\ calls[step] = <<>>
    /\ outcome = "limit" => step \notin Steps

(* The loop is done with a call that is not asynchronous.                  *)
Handled(c) == c[1] < step \/ (c[1] = step /\ c[2] \in handled)

(* A call, what has become of its tool, and its tool row.                  *)
CallInv(c) ==
    /\ c \notin CallsMade => tool[c] = "idle" /\ results[c] = <<>> /\ c \notin saving
    /\ results[c] # <<>> => Returned(c) /\ results[c] = <<tool[c]>>
    /\ c \in saving => Returned(c) /\ results[c] = <<>>
    /\ pc = "calls" /\ c[1] = step => tool[c] = "idle"
    /\ c \in CallsMade /\ Mode(c) = "async" /\ pc # "ended" /\ ~Handled(c) =>
          tool[c] = "idle"
    /\ c \in CallsMade /\ Mode(c) # "async" =>
          /\ tool[c] # "queued" /\ c \notin saving
          /\ tool[c] = "denied" => closed
          /\ Handled(c) => results[c] # <<>>
          /\ pc # "ended" /\ results[c] # <<>> => Handled(c)

ToolInv == \A c \in CallIds : CallInv(c)

(* Tools run in turn: of the synchronous calls only the first that is not  *)
(* handled, the concurrent ones after them.  At a checkpoint none runs.    *)
TurnInv ==
    pc \in {"tools", "checkpoint"} =>
        /\ \A k \in Of("sync") \ handled :
              tool[<<step, k>>] # "idle" => \A j \in Of("sync") : j < k => j \in handled
        /\ \A k \in Of("concurrent") : tool[<<step, k>>] # "idle" => Of("sync") \subseteq handled
        /\ pc = "checkpoint" =>
              \A k \in (Of("sync") \cup Of("concurrent")) \ handled : tool[<<step, k>>] = "idle"

(* After a stop, one synchronous tool may be started: it is the first that *)
(* is not handled, and its result cannot be stored.                        *)
Ahead == {"idle", "queued", "granted", "announced"}

LateInv ==
    /\ ~closed => late = {}
    /\ \A c \in late : c \in CallsMade /\ tool[c] \notin Ahead
    /\ \A c, d \in late : Mode(c) = "sync" /\ Mode(d) = "sync" => c = d
    /\ \A c \in late :
          Mode(c) = "sync" =>
             \/ pc = "ended"
             \/ /\ pc = "tools" /\ c[1] = step /\ c[2] \in Of("sync") \ handled
                /\ \A j \in Of("sync") : j < c[2] => j \in handled

(* Of the other tools only those start after a stop that held a permit.    *)
Waiting == {c \in CallIds : tool[c] \in {"granted", "announced"} /\ Mode(c) # "sync"}
LateOthers == {c \in late : Mode(c) # "sync"}

PermitInv ==
    /\ Cardinality(Holders) <= Concurrency
    /\ closed => Cardinality(Waiting \cup LateOthers) <= Concurrency

(* The calls the client has been sent a part for.                          *)
OnScreen == {c \in CallsMade : c[1] < step \/ pc \in {"tools", "checkpoint"}}

IndexInv ==
    /\ pc \in {"tools", "checkpoint"} =>
          \A k \in 1 .. Len(calls[step]) : partIndex[<<step, k>>] = CallIndex(k)
    /\ \A c, d \in OnScreen : c[1] = d[1] /\ c # d => partIndex[c] # partIndex[d]

Displayed(t) == CASE t \in {"idle", "granted"} -> "pending"
                  [] t = "announced"          -> "running"
                  [] OTHER                    -> t

Display(c) == Displayed(tool[c])

SeenRight(c) ==
    /\ shown[c[1]][partIndex[c]].kind = "call"
    /\ Mode(c) # "async" => shown[c[1]][partIndex[c]].state = Display(c)

ShownInv == ~closed /\ outcome # "error" => \A c \in OnScreen : SeenRight(c)

(* What a finished step has left in the accumulated parts.                 *)
Settled(part) ==
    IF part.kind = "call"
    THEN IF Mode(IdOf(part)) = "async" THEN part.state = "pending"
         ELSE results[IdOf(part)] # <<>> /\ part.state = tool[IdOf(part)]
    ELSE part.state = "done"

AccumulatedInv ==
    outcome # "error" =>
        /\ pc # "ended" => \A j \in DOMAIN accumulated : accumulated[j].step < step
        /\ IdsIn(accumulated) = CallsBefore(step)
        /\ \A i, j \in CallsIn(accumulated) :
              i < j => Precedes(IdOf(accumulated[i]), IdOf(accumulated[j]))
        /\ \A j \in DOMAIN accumulated : Settled(accumulated[j])
        /\ \A j \in CallsIn(accumulated) :
              Place(accumulated, j) = partIndex[IdOf(accumulated[j])]

MadeCallsInv ==
    outcome # "error" =>
        /\ ToSet(madeCalls) = CallsBefore(step)
        /\ \A i, j \in DOMAIN madeCalls : i < j => Precedes(madeCalls[i], madeCalls[j])

(* The row: what it says of tools is true, it extends what is accumulated, *)
(* and it has every call as long as no store operation failed.             *)
Truthful(part) ==
    part.state \in {"complete", "error"} =>
        /\ IdOf(part) \in CallIds
        /\ results[IdOf(part)] # <<>> /\ part.state = tool[IdOf(part)]

RowInv ==
    /\ \A j \in DOMAIN row.parts : Truthful(row.parts[j])
    /\ pc # "ended" =>
          /\ Len(accumulated) <= Len(row.parts)
          /\ \A j \in DOMAIN row.parts :
                IF j <= Len(accumulated) THEN row.parts[j] = accumulated[j]
                ELSE row.parts[j].step = step
    /\ pc \in {"prepare", "top", "context"} => row.parts = accumulated
    /\ outcome = "done" => row.parts = accumulated /\ row.calls = madeCalls

RowHasCallsInv ==
    faults = 0 =>
        \A c \in CallsMade : c \in IdsIn(row.parts) \/ (closed /\ results[c] = <<>>)

Inv ==
    /\ TypeOK /\ PhaseInv /\ ToolInv /\ TurnInv /\ LateInv /\ PermitInv /\ IndexInv
    /\ ShownInv /\ AccumulatedInv /\ MadeCallsInv /\ RowInv /\ RowHasCallsInv

-----------------------------------------------------------------------------
(* BoundedSeq as sequences of bounded length, which the provers know.      *)
LEMMA BoundedSeqIs ==
  ASSUME NEW S, NEW n \in Nat
  PROVE  /\ <<>> \in BoundedSeq(S, n)
         /\ \A q \in BoundedSeq(S, n) : q \in Seq(S) /\ Len(q) <= n
         /\ \A q \in Seq(S) : Len(q) <= n => q \in BoundedSeq(S, n)
  BY DEF BoundedSeq, SeqOf

LEMMA ConstantTypes ==
  /\ MaxSteps \in Nat /\ MaxCalls \in Nat /\ MaxDeltas \in Nat /\ MaxFaults \in Nat
  /\ Concurrency \in Nat /\ PersistEvery \in Nat /\ PersistEvery # 0
  /\ \A s \in Steps : CallLimit[s] \in 0 .. MaxCalls
  BY LoopBounds DEF Steps

LEMMA OnlyShape ==
  ASSUME NEW b \in BOOLEAN, NEW S, NEW p \in S
  PROVE  /\ Only(b, p) \in Seq(S)
         /\ Len(Only(b, p)) = Count(b)
         /\ Count(b) \in Nat
         /\ \A m \in 1 .. Len(Only(b, p)) : Only(b, p)[m] = p
<1>1. CASE b = TRUE
  <2>1. Only(b, p) = <<p>> /\ Count(b) = 1
    BY <1>1, Zenon DEF Only, Count
  <2>2. QED
    BY <2>1
<1>2. CASE b = FALSE
  <2>1. Only(b, p) = <<>> /\ Count(b) = 0
    BY <1>2, Zenon DEF Only, Count
  <2>2. QED
    BY <2>1
<1>3. QED
  BY <1>1, <1>2, Zenon

(* Concatenation, for the provers.                                         *)
LEMMA ConcatShape ==
  ASSUME NEW S, NEW p \in Seq(S), NEW q \in Seq(S)
  PROVE  /\ p \o q \in Seq(S)
         /\ Len(p) \in Nat /\ Len(q) \in Nat
         /\ Len(p \o q) = Len(p) + Len(q)
         /\ DOMAIN (p \o q) = 1 .. Len(p) + Len(q)
         /\ \A j \in 1 .. Len(p) : (p \o q)[j] = p[j]
         /\ \A j \in 1 .. Len(q) : (p \o q)[Len(p) + j] = q[j]
  OBVIOUS

LEMMA ConcatElements ==
  ASSUME NEW S, NEW p \in Seq(S), NEW q \in Seq(S), NEW A,
         \A j \in 1 .. Len(p) : p[j] \in A, \A j \in 1 .. Len(q) : q[j] \in A
  PROVE  \A j \in 1 .. Len(p) + Len(q) : (p \o q)[j] \in A
<1>1. TAKE j \in 1 .. Len(p) + Len(q)
<1>2. CASE j <= Len(p)
  BY <1>2, ConcatShape
<1>3. CASE j > Len(p)
  <2>1. PICK i \in 1 .. Len(q) : j = Len(p) + i
    <3>1. j - Len(p) \in 1 .. Len(q) /\ j = Len(p) + (j - Len(p))
      BY <1>3, ConcatShape
    <3>2. QED
      BY <3>1
  <2>2. QED
    BY <2>1, ConcatShape
<1>4. QED
  BY <1>2, <1>3, ConcatShape

LEMMA ReplyBooleans ==
  ASSUME TypeOK, NEW cs
  PROVE  reply.reasoning \in BOOLEAN /\ (reply.text \/ cs = <<>>) \in BOOLEAN
<1>1. reply \in [reasoning : BOOLEAN, text : BOOLEAN]
  BY Zenon DEF TypeOK
<1>2. QED
  BY <1>1, Zenon

(* The list of parts buildUIParts makes: what is not a call, then the calls. *)
Texts(cs) == Count(reply.reasoning) + Count(reply.text \/ cs = <<>>)

LEMMA PartsOfShape ==
  ASSUME TypeOK, step \in Steps,
         NEW cs, cs \in Seq(Modes), Len(cs) <= MaxCalls,
         NEW states, \A k \in 1 .. Len(cs) : states[k] \in PartStates
  PROVE  /\ PartsOf(cs, states) \in Seq(Parts)
         /\ Texts(cs) \in Nat /\ Len(cs) \in Nat
         /\ Len(PartsOf(cs, states)) = Texts(cs) + Len(cs)
         /\ \A m \in 1 .. Texts(cs) :
               /\ PartsOf(cs, states)[m].kind # "call"
               /\ PartsOf(cs, states)[m].step = step
               /\ PartsOf(cs, states)[m].state = "done"
         /\ \A k \in 1 .. Len(cs) :
               PartsOf(cs, states)[Texts(cs) + k] = Part(step, "call", k, states[k])
<1>. DEFINE r == Part(step, "reasoning", 0, "done")
            t == Part(step, "text", 0, "done")
            R == Only(reply.reasoning, r)
            T == Only(reply.text \/ cs = <<>>, t)
            C == [k \in 1 .. Len(cs) |-> Part(step, "call", k, states[k])]
<1>0. /\ r \in Parts /\ r.kind # "call" /\ r.step = step /\ r.state = "done"
      /\ t \in Parts /\ t.kind # "call" /\ t.step = step /\ t.state = "done"
  BY ConstantTypes DEF Part, Parts, Kinds, PartStates
<1>. HIDE DEF r, t
<1>1. /\ R \in Seq(Parts) /\ Len(R) = Count(reply.reasoning)
      /\ Count(reply.reasoning) \in Nat
      /\ \A m \in 1 .. Len(R) : R[m] = r
  BY <1>0, ReplyBooleans, OnlyShape, Zenon
<1>2. /\ T \in Seq(Parts) /\ Len(T) = Count(reply.text \/ cs = <<>>)
      /\ Count(reply.text \/ cs = <<>>) \in Nat
      /\ \A m \in 1 .. Len(T) : T[m] = t
  BY <1>0, ReplyBooleans, OnlyShape, Zenon
<1>3. /\ C \in Seq(Parts) /\ Len(C) = Len(cs) /\ Len(cs) \in Nat
      /\ \A k \in 1 .. Len(cs) : C[k] = Part(step, "call", k, states[k])
  BY ConstantTypes DEF Part, Parts, Kinds, PartStates
<1>5. PartsOf(cs, states) = (R \o T) \o C
  BY <1>1, <1>2, <1>3 DEF PartsOf, r, t
<1>6. Texts(cs) = Len(R) + Len(T)
  BY <1>1, <1>2 DEF Texts
<1>. HIDE DEF R, T, C
<1>7. /\ R \o T \in Seq(Parts) /\ Len(R \o T) = Texts(cs)
      /\ \A m \in 1 .. Texts(cs) : (R \o T)[m] \in {r, t}
  <2>1. /\ \A m \in 1 .. Len(R) : R[m] \in {r, t}
        /\ \A m \in 1 .. Len(T) : T[m] \in {r, t}
    BY <1>1, <1>2
  <2>2. QED
    BY <1>1, <1>2, <1>6, <2>1, ConcatShape, ConcatElements
<1>8. Texts(cs) \in Nat
  BY <1>7
<1>9. /\ PartsOf(cs, states) \in Seq(Parts)
      /\ Len(PartsOf(cs, states)) = Texts(cs) + Len(cs)
      /\ \A m \in 1 .. Texts(cs) : PartsOf(cs, states)[m] = (R \o T)[m]
      /\ \A k \in 1 .. Len(cs) : PartsOf(cs, states)[Texts(cs) + k] = C[k]
  BY <1>3, <1>5, <1>7, ConcatShape
<1>10. QED
  BY <1>0, <1>3, <1>7, <1>8, <1>9

(* A checkpoint in the middle of a reply adds parts that are not calls.    *)
LEMMA StreamingPartsShape ==
  ASSUME TypeOK, step \in Steps, NEW r \in [reasoning : BOOLEAN, text : BOOLEAN]
  PROVE  /\ StreamingParts(r) \in Seq(Parts)
         /\ Len(accumulated) <= Len(StreamingParts(r))
         /\ \A j \in 1 .. Len(StreamingParts(r)) :
               IF j <= Len(accumulated) THEN StreamingParts(r)[j] = accumulated[j]
               ELSE /\ StreamingParts(r)[j].step = step
                    /\ StreamingParts(r)[j].kind # "call"
                    /\ StreamingParts(r)[j].state = "streaming"
<1>. DEFINE p == Part(step, "reasoning", 0, "streaming")
            t == Part(step, "text", 0, "streaming")
            R == Only(r.reasoning, p)
            T == Only(r.text, t)
<1>0. /\ p \in Parts /\ p.kind # "call" /\ p.step = step /\ p.state = "streaming"
      /\ t \in Parts /\ t.kind # "call" /\ t.step = step /\ t.state = "streaming"
  BY ConstantTypes DEF Part, Parts, Kinds, PartStates
<1>. HIDE DEF p, t
<1>b. r.reasoning \in BOOLEAN /\ r.text \in BOOLEAN
  BY Zenon
<1>1. R \in Seq(Parts) /\ \A m \in 1 .. Len(R) : R[m] = p
  BY <1>0, <1>b, OnlyShape, Zenon
<1>2. T \in Seq(Parts) /\ \A m \in 1 .. Len(T) : T[m] = t
  BY <1>0, <1>b, OnlyShape, Zenon
<1>3. accumulated \in Seq(Parts)
  BY DEF TypeOK
<1>4. StreamingParts(r) = (accumulated \o R) \o T
  BY <1>1, <1>2, <1>3 DEF StreamingParts, p, t
<1>. HIDE DEF R, T
<1>5. /\ accumulated \o R \in Seq(Parts)
      /\ Len(accumulated) \in Nat /\ Len(R) \in Nat /\ Len(T) \in Nat
      /\ Len(accumulated \o R) = Len(accumulated) + Len(R)
      /\ \A j \in 1 .. Len(accumulated) : (accumulated \o R)[j] = accumulated[j]
      /\ \A j \in 1 .. Len(R) : (accumulated \o R)[Len(accumulated) + j] = R[j]
  BY <1>1, <1>2, <1>3, ConcatShape
<1>6. /\ StreamingParts(r) \in Seq(Parts)
      /\ Len(StreamingParts(r)) = Len(accumulated) + Len(R) + Len(T)
      /\ \A j \in 1 .. Len(accumulated) + Len(R) :
            StreamingParts(r)[j] = (accumulated \o R)[j]
      /\ \A j \in 1 .. Len(T) :
            StreamingParts(r)[Len(accumulated) + Len(R) + j] = T[j]
  BY <1>2, <1>4, <1>5, ConcatShape
<1>7. ASSUME NEW j \in 1 .. Len(StreamingParts(r)), j > Len(accumulated)
      PROVE  StreamingParts(r)[j] \in {p, t}
  <2>1. CASE j <= Len(accumulated) + Len(R)
    <3>1. j - Len(accumulated) \in 1 .. Len(R)
          /\ j = Len(accumulated) + (j - Len(accumulated))
      BY <1>5, <1>7, <2>1
    <3>2. (accumulated \o R)[j] = R[j - Len(accumulated)]
      BY <1>5, <3>1
    <3>3. QED
      BY <1>1, <1>5, <1>6, <1>7, <2>1, <3>1, <3>2
  <2>2. CASE j > Len(accumulated) + Len(R)
    <3>1. PICK i \in 1 .. Len(T) : j = Len(accumulated) + Len(R) + i
      <4>1. /\ j - (Len(accumulated) + Len(R)) \in 1 .. Len(T)
            /\ j = Len(accumulated) + Len(R) + (j - (Len(accumulated) + Len(R)))
        BY <1>5, <1>6, <1>7, <2>2
      <4>2. QED
        BY <4>1
    <3>2. QED
      BY <1>2, <1>6, <3>1
  <2>3. QED
    BY <1>5, <1>7, <2>1, <2>2
<1>8. ASSUME NEW j \in 1 .. Len(StreamingParts(r)), j <= Len(accumulated)
      PROVE  StreamingParts(r)[j] = accumulated[j]
  <2>1. j \in 1 .. Len(accumulated) /\ j \in 1 .. Len(accumulated) + Len(R)
    BY <1>5, <1>8
  <2>2. StreamingParts(r)[j] = (accumulated \o R)[j]
    BY <1>6, <2>1, Zenon
  <2>3. (accumulated \o R)[j] = accumulated[j]
    BY <1>5, <2>1, Zenon
  <2>4. QED
    BY <2>2, <2>3, Zenon
<1>9. Len(accumulated) <= Len(StreamingParts(r))
  BY <1>5, <1>6
<1>10. ASSUME NEW j \in 1 .. Len(StreamingParts(r)), ~(j <= Len(accumulated))
       PROVE  /\ StreamingParts(r)[j].step = step
              /\ StreamingParts(r)[j].kind # "call"
              /\ StreamingParts(r)[j].state = "streaming"
  <2>1. j > Len(accumulated)
    BY <1>5, <1>6, <1>10
  <2>2. QED
    BY <1>0, <1>7, <2>1
<1>11. QED
  BY <1>6, <1>8, <1>9, <1>10

LEMMA InitType == Init => TypeOK
<1>. SUFFICES ASSUME Init PROVE TypeOK
  OBVIOUS
<1>0. <<>> \in BoundedSeq(Modes, MaxCalls)
  BY ConstantTypes, BoundedSeqIs
<1>1. calls \in [Steps -> BoundedSeq(Modes, MaxCalls)]
  BY <1>0 DEF Init
<1>2. results \in [CallIds -> BoundedSeq({"complete", "error", "null"}, 1)]
  BY BoundedSeqIs DEF Init
<1>3. shown \in [Steps -> [Indexes -> {Absent} \cup [kind : Kinds, state : PartStates]]]
  BY DEF Init
<1>4. partIndex \in [CallIds -> Indexes]
  BY ConstantTypes DEF Init, Indexes
<1>5. row \in [exists : BOOLEAN, parts : Seq(Parts), calls : Seq(CallIds)]
  BY DEF Init
<1>6. reply \in [reasoning : BOOLEAN, text : BOOLEAN] /\ closed \in BOOLEAN
  BY DEF Init, NoReply
<1>7. QED
  BY <1>1, <1>2, <1>3, <1>4, <1>5, <1>6, ConstantTypes DEF Init, TypeOK

-----------------------------------------------------------------------------
(* What the actions share.                                                 *)

(* A reply, when the stream ends.                                          *)
LEMMA ReplyShape ==
  ASSUME TypeOK, PhaseInv, pc = "stream",
         NEW cs \in BoundedSeq(Modes, CallLimit[step])
  PROVE  /\ step \in Steps
         /\ cs \in Seq(Modes) /\ Len(cs) \in 0 .. MaxCalls
         /\ cs \in BoundedSeq(Modes, MaxCalls)
<1>1. step \in Steps
  BY DEF PhaseInv
<1>2. cs \in Seq(Modes) /\ Len(cs) <= CallLimit[step] /\ CallLimit[step] \in 0 .. MaxCalls
  BY <1>1, ConstantTypes, BoundedSeqIs
<1>3. cs \in Seq(Modes) /\ Len(cs) \in 0 .. MaxCalls
  BY <1>2, ConstantTypes
<1>4. QED
  BY <1>1, <1>3, ConstantTypes, BoundedSeqIs

(* The calls of a step.                                                    *)
LEMMA CallsShape ==
  ASSUME TypeOK, NEW s \in Steps
  PROVE  /\ calls[s] \in Seq(Modes) /\ Len(calls[s]) \in 0 .. MaxCalls
         /\ \A k \in 1 .. Len(calls[s]) :
               /\ k \in 1 .. MaxCalls /\ <<s, k>> \in CallsMade /\ <<s, k>> \in CallIds
               /\ Mode(<<s, k>>) = calls[s][k] /\ calls[s][k] \in Modes
<1>1. calls[s] \in BoundedSeq(Modes, MaxCalls)
  BY DEF TypeOK
<1>2. calls[s] \in Seq(Modes) /\ Len(calls[s]) <= MaxCalls
  BY <1>1, ConstantTypes, BoundedSeqIs
<1>3. Len(calls[s]) \in 0 .. MaxCalls
  BY <1>2, ConstantTypes
<1>4. QED
  BY <1>2, <1>3, ConstantTypes DEF CallsMade, CallIds, Mode

(* The two outcomes of an upsert.                                          *)
LEMMA UpsertEffect ==
  ASSUME TypeOK, NEW parts, Upsert(parts)
  PROVE  /\ faults' \in 0 .. MaxFaults /\ faults <= faults'
         /\ \/ /\ row' = [exists |-> TRUE, parts |-> parts, calls |-> <<>>]
               /\ faults' = faults /\ ~closed
            \/ row' = row /\ (faults' > faults \/ closed)
  BY ConstantTypes DEF TypeOK, Upsert, Succeeds, Fails

LEMMA UpsertType ==
  ASSUME TypeOK, NEW parts \in Seq(Parts), Upsert(parts)
  PROVE  /\ faults' \in 0 .. MaxFaults
         /\ row' \in [exists : BOOLEAN, parts : Seq(Parts), calls : Seq(CallIds)]
<1>1. row \in [exists : BOOLEAN, parts : Seq(Parts), calls : Seq(CallIds)]
  BY Zenon DEF TypeOK
<1>2. <<>> \in Seq(CallIds) /\ TRUE \in BOOLEAN
  OBVIOUS
<1>3. [exists |-> TRUE, parts |-> parts, calls |-> <<>>]
         \in [exists : BOOLEAN, parts : Seq(Parts), calls : Seq(CallIds)]
  BY <1>2, Zenon
<1>4. QED
  BY <1>1, <1>3, UpsertEffect, Zenon

(* Where the client is told to put the k-th call: after the texts.         *)
LEMMA CallIndexShape ==
  ASSUME TypeOK, step \in Steps, NEW k \in 1 .. Len(calls[step])
  PROVE  /\ CallIndex(k) \in Indexes
         /\ CallIndex(k) = Texts(calls[step]) + k - 1
<1>0. /\ Len(calls[step]) \in 0 .. MaxCalls /\ k \in 1 .. MaxCalls
      /\ calls[step] # <<>>
  <2>1. Len(<<>>) = 0
    OBVIOUS
  <2>2. Len(calls[step]) # 0
    BY CallsShape
  <2>3. QED
    BY <2>1, <2>2, CallsShape
<1>1. reply.reasoning \in BOOLEAN /\ reply.text \in BOOLEAN
      /\ (reply.text \/ calls[step] = <<>>) = reply.text
  BY <1>0, ReplyBooleans, Zenon DEF TypeOK
<1>2. Count(reply.reasoning) \in 0 .. 1 /\ Count(reply.text) \in 0 .. 1
  BY DEF Count
<1>3. Texts(calls[step]) = Count(reply.reasoning) + Count(reply.text)
  BY <1>1, Zenon DEF Texts
<1>4. QED
  BY <1>0, <1>2, <1>3, ConstantTypes DEF CallIndex, Indexes

(* What the loop adds to the parts at the end of a step.                   *)
LEMMA CurrentPartsShape ==
  ASSUME TypeOK, step \in Steps
  PROVE  /\ CurrentParts \in Seq(Parts)
         /\ Texts(calls[step]) \in Nat /\ Len(calls[step]) \in Nat
         /\ Len(CurrentParts) = Texts(calls[step]) + Len(calls[step])
         /\ \A m \in 1 .. Texts(calls[step]) :
               /\ CurrentParts[m].kind # "call"
               /\ CurrentParts[m].step = step
               /\ CurrentParts[m].state = "done"
         /\ \A k \in 1 .. Len(calls[step]) :
               CurrentParts[Texts(calls[step]) + k] = Part(step, "call", k, CallState(k))
<1>. DEFINE states == [k \in 1 .. MaxCalls |-> CallState(k)]
<1>1. /\ calls[step] \in Seq(Modes) /\ Len(calls[step]) <= MaxCalls
      /\ \A k \in 1 .. Len(calls[step]) : k \in 1 .. MaxCalls
  BY CallsShape, ConstantTypes
<1>2. \A k \in 1 .. MaxCalls : states[k] = CallState(k) /\ CallState(k) \in PartStates
  BY DEF CallState, PartStates, Returned
<1>3. CurrentParts = PartsOf(calls[step], states)
  BY DEF CurrentParts
<1>. HIDE DEF states
<1>4. \A k \in 1 .. Len(calls[step]) : states[k] \in PartStates
  BY <1>1, <1>2
<1>5. QED
  BY <1>1, <1>2, <1>3, <1>4, PartsOfShape

(* A call the loop is working on.                                          *)
LEMMA OfShape ==
  ASSUME TypeOK, PhaseInv, pc \in {"calls", "tools", "checkpoint"},
         NEW mode \in Modes, NEW k \in Of(mode)
  PROVE  /\ step \in Steps /\ k \in 1 .. Len(calls[step]) /\ k \in 1 .. MaxCalls
         /\ <<step, k>> \in CallIds /\ <<step, k>> \in CallsMade
         /\ Mode(<<step, k>>) = mode
         /\ Handled(<<step, k>>) <=> k \in handled
<1>1. step \in Steps
  BY DEF PhaseInv
<1>2. k \in 1 .. Len(calls[step]) /\ calls[step][k] = mode
  BY DEF Of
<1>3. ~(step < step)
  BY <1>1, ConstantTypes DEF Steps
<1>4. Handled(<<step, k>>) <=> k \in handled
  BY <1>3 DEF Handled
<1>5. QED
  BY <1>1, <1>2, <1>4, CallsShape

Screens == [Steps -> [Indexes -> {Absent} \cup [kind : Kinds, state : PartStates]]]

LEMMA ShowType ==
  ASSUME TypeOK, NEW s \in Steps, NEW i \in Indexes, NEW kind \in Kinds,
         NEW state \in PartStates,
         shown' = Sent([shown EXCEPT ![s][i] = [kind |-> kind, state |-> state]])
  PROVE  shown' \in Screens
<1>1. shown \in Screens
  BY Zenon DEF TypeOK, Screens
<1>2. [kind |-> kind, state |-> state] \in [kind : Kinds, state : PartStates]
  OBVIOUS
<1>3. [shown EXCEPT ![s][i] = [kind |-> kind, state |-> state]] \in Screens
  BY <1>1, <1>2, Zenon DEF Screens
<1>4. QED
  BY <1>1, <1>3, Zenon DEF Sent

LEMMA ShowCallType ==
  ASSUME TypeOK, NEW c \in CallIds, NEW state \in PartStates, ShowCall(c, state)
  PROVE  shown' \in Screens
<1>1. c[1] \in Steps /\ partIndex[c] \in Indexes
  BY DEF TypeOK, CallIds
<1>2. "call" \in Kinds
  BY DEF Kinds
<1>3. QED
  BY <1>1, <1>2, ShowType, Zenon DEF ShowCall

(* A tool row is written, or it is not.                                    *)
LEMMA AddResultType ==
  ASSUME TypeOK, NEW c \in CallIds, results[c] = <<>>,
         NEW content \in {"complete", "error", "null"}, AddResult(c, content)
  PROVE  /\ results' = [results EXCEPT ![c] = <<content>>]
         /\ results' \in [CallIds -> BoundedSeq({"complete", "error", "null"}, 1)]
         /\ faults' = faults /\ ~closed
<1>1. results' = [results EXCEPT ![c] = <<content>>]
  BY DEF TypeOK, AddResult
<1>2. <<content>> \in BoundedSeq({"complete", "error", "null"}, 1)
  <2>. DEFINE T == {"complete", "error", "null"}
  <2>1. <<content>> \in Seq(T) /\ Len(<<content>>) <= 1
    OBVIOUS
  <2>. HIDE DEF T
  <2>2. 1 \in Nat
    OBVIOUS
  <2>3. \A q \in Seq(T) : Len(q) <= 1 => q \in BoundedSeq(T, 1)
    BY <2>2, BoundedSeqIs, Zenon
  <2>4. <<content>> \in BoundedSeq(T, 1)
    BY <2>1, <2>3, Zenon
  <2>5. QED
    BY <2>4, Zenon DEF T
<1>3. results' \in [CallIds -> BoundedSeq({"complete", "error", "null"}, 1)]
  BY <1>1, <1>2 DEF TypeOK
<1>4. QED
  BY <1>1, <1>3 DEF AddResult, Succeeds

-----------------------------------------------------------------------------
(* Every step keeps the types.                                             *)

LEMMA TypeNext ==
  ASSUME Inv, [Next]_vars
  PROVE  TypeOK'
<1>. USE ConstantTypes
<1>a. TypeOK /\ PhaseInv /\ ToolInv
  BY Zenon DEF Inv
<1>1. CASE Prepare
  BY <1>a, <1>1 DEF TypeOK, Prepare, Succeeds, Abort, replyVars, toolVars, partVars
<1>2. CASE StepLimit
  BY <1>a, <1>2 DEF TypeOK, StepLimit, replyVars, toolVars, partVars, storeVars
<1>3. CASE StepCreate
  <2>1. /\ faults' \in 0 .. MaxFaults
        /\ row' \in [exists : BOOLEAN, parts : Seq(Parts), calls : Seq(CallIds)]
    BY <1>a, <1>3, UpsertType, ConstantTypes, Zenon DEF StepCreate, TypeOK
  <2>2. QED
    BY <1>a, <1>3, <2>1 DEF TypeOK, StepCreate, replyVars, toolVars, partVars
<1>4. CASE BuildContext
  BY <1>a, <1>4 DEF TypeOK, BuildContext, Succeeds, Fails, Abort, replyVars, toolVars,
                    partVars, storeVars
<1>5. CASE TextDelta
  <2>. DEFINE r == [reply EXCEPT !.text = TRUE]
  <2>0. step \in Steps
    BY <1>a, <1>5 DEF PhaseInv, TextDelta
  <2>1. r \in [reasoning : BOOLEAN, text : BOOLEAN]
    BY <1>a, Zenon DEF TypeOK
  <2>2. /\ faults' \in 0 .. MaxFaults
        /\ row' \in [exists : BOOLEAN, parts : Seq(Parts), calls : Seq(CallIds)]
    <3>1. StreamingParts(r) \in Seq(Parts)
      BY <1>a, <2>0, <2>1, StreamingPartsShape, Zenon
    <3>2. Upsert(StreamingParts(r)) \/ UNCHANGED <<row, faults>>
      BY <1>5, Zenon DEF TextDelta
    <3>3. CASE Upsert(StreamingParts(r))
      BY <1>a, <3>1, <3>3, UpsertType, Zenon
    <3>4. CASE UNCHANGED <<row, faults>>
      BY <1>a, <3>4, Zenon DEF TypeOK
    <3>5. QED
      BY <3>2, <3>3, <3>4
  <2>3. shown' \in Screens
    <3>1. Count(reply.reasoning) \in Indexes /\ "text" \in Kinds /\ "streaming" \in PartStates
      BY DEF Count, Indexes, Kinds, PartStates
    <3>2. UNCHANGED shown \/ ShowPart(Count(reply.reasoning), "text", "streaming")
      BY <1>5, Zenon DEF TextDelta
    <3>3. QED
      <4>1. CASE UNCHANGED shown
        BY <1>a, <4>1, Zenon DEF TypeOK, Screens
      <4>2. CASE ShowPart(Count(reply.reasoning), "text", "streaming")
        BY <1>a, <2>0, <3>1, <4>2, ShowType, Zenon DEF ShowPart
      <4>3. QED
        BY <3>2, <4>1, <4>2
  <2>4. reply' \in [reasoning : BOOLEAN, text : BOOLEAN]
    BY <1>5, <2>1, Zenon DEF TextDelta
  <2>5. QED
    <3>1. deltas' \in 0 .. MaxDeltas
      <4>1. deltas' = deltas + 1 /\ deltas < MaxDeltas
        BY <1>5, Zenon DEF TextDelta
      <4>2. QED
        BY <1>a, <4>1 DEF TypeOK
    <3>2. UNCHANGED <<loopVars, calls, partIndex, toolVars, partVars, results, closed>>
      BY <1>5, Zenon DEF TextDelta
    <3>3. QED
      BY <1>a, <2>2, <2>3, <2>4, <3>1, <3>2 DEF TypeOK, loopVars, toolVars, partVars, Screens
<1>6. CASE ReasoningDelta
  <2>0. step \in Steps
    BY <1>a, <1>6 DEF PhaseInv, ReasoningDelta
  <2>1. reply' \in [reasoning : BOOLEAN, text : BOOLEAN]
    BY <1>a, <1>6, Zenon DEF TypeOK, ReasoningDelta
  <2>2. shown' \in Screens
    <3>1. Count(reply.text) \in Indexes /\ "reasoning" \in Kinds /\ "streaming" \in PartStates
      BY DEF Count, Indexes, Kinds, PartStates
    <3>2. QED
      BY <1>a, <1>6, <2>0, <3>1, ShowType, Zenon DEF ReasoningDelta, ShowPart
  <2>3. QED
    BY <1>a, <1>6, <2>1, <2>2 DEF TypeOK, ReasoningDelta, loopVars, toolVars, partVars,
                                  storeVars, Screens
<1>7. CASE StreamFails
  BY <1>a, <1>7 DEF TypeOK, StreamFails, Abort, replyVars, toolVars, partVars, storeVars
<1>8. ASSUME pc = "stream", NEW cs \in BoundedSeq(Modes, CallLimit[step]), StreamEnds(cs)
      PROVE  TypeOK'
  <2>. DEFINE pending == [k \in 1 .. Len(cs) |-> "pending"]
  <2>0. /\ step \in Steps
        /\ cs \in Seq(Modes) /\ Len(cs) \in 0 .. MaxCalls
        /\ cs \in BoundedSeq(Modes, MaxCalls)
    BY <1>a, <1>8, ReplyShape
  <2>1. PartsOf(cs, pending) \in Seq(Parts)
    BY <1>a, <2>0, PartsOfShape DEF PartStates
  <2>2. accumulated \o PartsOf(cs, pending) \in Seq(Parts)
    BY <1>a, <2>1, ConcatShape DEF TypeOK
  <2>3. /\ faults' \in 0 .. MaxFaults
        /\ row' \in [exists : BOOLEAN, parts : Seq(Parts), calls : Seq(CallIds)]
    BY <1>a, <1>8, <2>2, UpsertType, Zenon DEF StreamEnds
  <2>4. calls' \in [Steps -> BoundedSeq(Modes, MaxCalls)]
    BY <1>a, <1>8, <2>0 DEF StreamEnds, TypeOK
  <2>5. shown' \in Screens
    <3>. DEFINE Seen == {Absent} \cup [kind : Kinds, state : PartStates]
                Done == [i \in Indexes |-> IF shown[step][i] = Absent THEN Absent
                                           ELSE [shown[step][i] EXCEPT !.state = "done"]]
    <3>1. shown \in [Steps -> [Indexes -> Seen]]
      BY <1>a, Zenon DEF TypeOK
    <3>2. ASSUME NEW x \in Seen, x # Absent
          PROVE  [x EXCEPT !.state = "done"] \in Seen
      BY <3>2 DEF PartStates
    <3>3. \A i \in Indexes : shown[step][i] \in Seen
      BY <2>0, <3>1, Zenon
    <3>4. Done \in [Indexes -> Seen]
      <4>. Absent \in Seen
        OBVIOUS
      <4>. HIDE DEF Seen
      <4>. QED
        BY <3>2, <3>3, Zenon
    <3>5. shown' = Sent([shown EXCEPT ![step] = Done])
      BY <1>8, <2>0, <3>1 DEF StreamEnds
    <3>6. [shown EXCEPT ![step] = Done] \in [Steps -> [Indexes -> Seen]]
      BY <2>0, <3>1, <3>4, Zenon
    <3>7. QED
      BY <3>1, <3>5, <3>6, Zenon DEF Sent, Screens
  <2>6. QED
    BY <1>a, <1>8, <2>3, <2>4, <2>5 DEF TypeOK, StreamEnds, replyVars, toolVars, partVars,
                                  Screens
<1>9. CASE CreateParts
  <2>0. step \in Steps
    BY <1>a, <1>9 DEF PhaseInv, CreateParts
  <2>1. partIndex' \in [CallIds -> Indexes]
    <3>1. \A c \in CallIds : partIndex[c] \in Indexes
      BY <1>a DEF TypeOK
    <3>2. \A k \in 1 .. Len(calls[step]) : CallIndex(k) \in Indexes
      BY <1>a, <2>0, CallIndexShape
    <3>3. QED
      BY <1>9, <3>1, <3>2 DEF CreateParts
  <2>2. shown' \in Screens
    BY <1>a, <1>9, <2>0 DEF CreateParts, TypeOK, Screens, Sent, Kinds, PartStates
  <2>3. QED
    BY <1>a, <1>9, <2>1, <2>2 DEF TypeOK, CreateParts, replyVars, toolVars, partVars, storeVars,
                                  Screens
<1>10. ASSUME NEW k \in 1 .. MaxCalls, SyncAnnounce(k)
       PROVE  TypeOK'
  <2>0. <<step, k>> \in CallIds
    BY <1>a, <1>10 DEF PhaseInv, SyncAnnounce, CallIds
  <2>1. shown' \in Screens
    BY <1>a, <1>10, <2>0, ShowCallType DEF SyncAnnounce, PartStates
  <2>3. QED
    BY <1>a, <1>10, <2>0, <2>1 DEF TypeOK, SyncAnnounce, loopVars, replyVars, partVars, storeVars, Screens
<1>26. ASSUME NEW k \in 1 .. MaxCalls, ToolStart(k)
       PROVE  TypeOK'
  <2>0. <<step, k>> \in CallIds
    BY <1>a, <1>26 DEF PhaseInv, ToolStart, CallIds
  <2>1. late' \subseteq CallIds
    BY <1>a, <1>26, <2>0 DEF TypeOK, ToolStart
  <2>2. QED
    BY <1>a, <1>26, <2>0, <2>1 DEF TypeOK, ToolStart, loopVars, replyVars, partVars, storeVars
<1>11. ASSUME NEW k \in 1 .. MaxCalls, ToolReturn(k)
       PROVE  TypeOK'
  <2>0. <<step, k>> \in CallIds
    BY <1>a, <1>11 DEF PhaseInv, ToolReturn, CallIds
  <2>1. shown' \in Screens
    BY <1>a, <1>11, <2>0, ShowCallType DEF ToolReturn, PartStates
  <2>3. QED
    BY <1>a, <1>11, <2>0, <2>1 DEF TypeOK, ToolReturn, loopVars, replyVars, partVars, storeVars, Screens
<1>12. ASSUME NEW k \in 1 .. MaxCalls, SyncSave(k)
       PROVE  TypeOK'
  <2>0. /\ <<step, k>> \in CallIds /\ <<step, k>> \in CallsMade /\ Mode(<<step, k>>) = "sync"
        /\ pc # "ended" /\ ~Handled(<<step, k>>)
    BY <1>a, <1>12, OfShape DEF SyncSave, Modes
  <2>1. results[<<step, k>>] = <<>>
    BY <1>a, <2>0 DEF ToolInv, CallInv
  <2>2. results' \in [CallIds -> BoundedSeq({"complete", "error", "null"}, 1)]
    BY <1>a, <1>12, <2>0, <2>1, AddResultType DEF SyncSave, Returned, TypeOK
  <2>3. handled' \subseteq 1 .. MaxCalls /\ pc' \in {"checkpoint", "tools", "ended"}
        /\ outcome' \in {outcome, "error"} /\ faults' \in 0 .. MaxFaults
    <3>1. /\ handled' \in {handled, handled \cup {k}} /\ pc' \in {"checkpoint", "tools", "ended"}
          /\ outcome' \in {outcome, "error"}
      BY <1>12 DEF SyncSave, Abort
    <3>2. Succeeds \/ Fails
      BY <1>12, Zenon DEF SyncSave, AddResult
    <3>3. faults' \in 0 .. MaxFaults
      BY <1>a, <3>2 DEF TypeOK, Succeeds, Fails
    <3>4. QED
      BY <1>a, <3>1, <3>3 DEF TypeOK
  <2>4. QED
    BY <1>a, <1>12, <2>2, <2>3 DEF TypeOK, SyncSave, replyVars, toolVars, partVars
<1>13. ASSUME NEW k \in 1 .. MaxCalls, ConcurrentAnnounce(k)
       PROVE  TypeOK'
  <2>0. <<step, k>> \in CallIds
    BY <1>a, <1>13 DEF PhaseInv, ConcurrentAnnounce, ConcurrentPhase, CallIds
  <2>1. shown' \in Screens
    BY <1>a, <1>13, <2>0, ShowCallType DEF ConcurrentAnnounce, PartStates
  <2>3. QED
    BY <1>a, <1>13, <2>0, <2>1 DEF TypeOK, ConcurrentAnnounce, loopVars, replyVars, partVars, storeVars, Screens
<1>27. ASSUME NEW k \in 1 .. MaxCalls, ConcurrentAcquire(k)
       PROVE  TypeOK'
  BY <1>a, <1>27 DEF TypeOK, ConcurrentAcquire, loopVars, replyVars, partVars, storeVars
<1>14. ASSUME NEW k \in 1 .. MaxCalls, ConcurrentDenied(k)
       PROVE  TypeOK'
  BY <1>a, <1>14 DEF TypeOK, ConcurrentDenied, loopVars, replyVars, partVars, storeVars
<1>15. ASSUME NEW k \in 1 .. MaxCalls, ConcurrentSave(k)
       PROVE  TypeOK'
  <2>0. /\ <<step, k>> \in CallIds /\ <<step, k>> \in CallsMade /\ Mode(<<step, k>>) = "concurrent"
        /\ pc # "ended" /\ ~Handled(<<step, k>>) /\ k \in Of("concurrent")
    BY <1>a, <1>15, OfShape DEF ConcurrentSave, ConcurrentPhase, Modes
  <2>1. results[<<step, k>>] = <<>>
    BY <1>a, <2>0 DEF ToolInv, CallInv
  <2>c. tool[<<step, k>>] \in {"complete", "error", "denied"}
    BY <1>a, <1>15, <2>0 DEF ToolInv, CallInv, ConcurrentSave, TypeOK
  <2>2. results' \in [CallIds -> BoundedSeq({"complete", "error", "null"}, 1)]
    BY <1>a, <1>15, <2>0, <2>1, <2>c, AddResultType DEF ConcurrentSave, TypeOK
  <2>3. handled' \subseteq 1 .. MaxCalls /\ pc' \in {"checkpoint", "tools", "ended"}
        /\ outcome' \in {outcome, "error"} /\ faults' \in 0 .. MaxFaults
    <3>1. /\ handled' \in {handled, handled \cup {k}} /\ pc' \in {"checkpoint", "tools", "ended"}
          /\ outcome' \in {outcome, "error"}
      BY <1>15 DEF ConcurrentSave, Abort
    <3>2. Succeeds \/ Fails
      BY <1>15, Zenon DEF ConcurrentSave, AddResult
    <3>3. faults' \in 0 .. MaxFaults
      BY <1>a, <3>2 DEF TypeOK, Succeeds, Fails
    <3>4. QED
      BY <1>a, <3>1, <3>3 DEF TypeOK
  <2>4. QED
    BY <1>a, <1>15, <2>2, <2>3 DEF TypeOK, ConcurrentSave, replyVars, toolVars, partVars
<1>16. ASSUME NEW k \in 1 .. MaxCalls, AsyncLaunch(k)
       PROVE  TypeOK'
  <2>0. <<step, k>> \in CallIds
    BY <1>a, <1>16 DEF PhaseInv, AsyncLaunch, CallIds
  <2>1. shown' \in Screens
    BY <1>a, <1>16, <2>0, ShowCallType DEF AsyncLaunch, PartStates
  <2>3. QED
    BY <1>a, <1>16, <2>0, <2>1 DEF TypeOK, AsyncLaunch, replyVars, partVars, storeVars, Screens
<1>17. CASE Checkpoint
  <2>0. accumulated \o CurrentParts \in Seq(Parts)
    BY <1>a, <1>17, CurrentPartsShape, ConcatShape DEF Checkpoint, PhaseInv, TypeOK
  <2>1. /\ faults' \in 0 .. MaxFaults
        /\ row' \in [exists : BOOLEAN, parts : Seq(Parts), calls : Seq(CallIds)]
    BY <1>a, <1>17, <2>0, UpsertType, Zenon DEF Checkpoint
  <2>2. QED
    BY <1>a, <1>17, <2>1 DEF TypeOK, Checkpoint, replyVars, toolVars, partVars
<1>18. CASE Persist
  <2>. DEFINE ids == [k \in 1 .. Len(calls[step]) |-> <<step, k>>]
  <2>0. step \in Steps
    BY <1>a, <1>18 DEF Persist, PhaseInv
  <2>1. accumulated' \in Seq(Parts)
    BY <1>a, <1>18, <2>0, CurrentPartsShape, ConcatShape DEF Persist, TypeOK
  <2>2. ids \in Seq(CallIds)
    BY <1>a, <2>0, CallsShape
  <2>3. madeCalls' = madeCalls \o ids
    BY <1>18 DEF Persist
  <2>4. madeCalls' \in Seq(CallIds)
    BY <1>a, <2>2, <2>3, ConcatShape DEF TypeOK
  <2>5. row' = [exists |-> TRUE, parts |-> accumulated', calls |-> madeCalls'] \/ row' = row
    BY <1>18, Zenon DEF Persist, UpdateOk, UpdateFails
  <2>6. row' \in [exists : BOOLEAN, parts : Seq(Parts), calls : Seq(CallIds)]
    <3>1. row \in [exists : BOOLEAN, parts : Seq(Parts), calls : Seq(CallIds)] /\ TRUE \in BOOLEAN
      BY <1>a, Zenon DEF TypeOK
    <3>2. CASE row' = row
      BY <3>1, <3>2, Zenon
    <3>3. CASE row' = [exists |-> TRUE, parts |-> accumulated', calls |-> madeCalls']
      BY <2>1, <2>4, <3>1, <3>3
    <3>4. QED
      BY <2>5, <3>2, <3>3
  <2>7. reply' \in [reasoning : BOOLEAN, text : BOOLEAN]
    BY <1>18 DEF Persist, NoReply
  <2>8. /\ faults' \in 0 .. MaxFaults /\ step' \in 0 .. MaxSteps
        /\ pc' \in {"top", "ended"} /\ outcome' \in {outcome, "done", "error"}
    <3>1. /\ pc' \in {"top", "ended"} /\ outcome' \in {outcome, "done", "error"}
          /\ step' \in {step, step + 1}
      BY <1>18 DEF Persist, Abort
    <3>2. Succeeds \/ Fails \/ UNCHANGED faults
      BY <1>18, Zenon DEF Persist, UpdateOk, UpdateFails
    <3>3. faults' \in 0 .. MaxFaults
      BY <1>a, <3>2 DEF TypeOK, Succeeds, Fails
    <3>4. QED
      BY <2>0, <3>1, <3>3, ConstantTypes DEF Steps
  <2>9. /\ handled' = {} /\ deltas' = 0
        /\ UNCHANGED <<calls, partIndex, tool, saving, late, results, shown, closed>>
    BY <1>18, Zenon DEF Persist, toolVars
  <2>10. outcome' \in {"none", "done", "limit", "error"}
    BY <1>a, <2>8 DEF TypeOK
  <2>11. QED
    BY <1>a, <2>1, <2>4, <2>6, <2>7, <2>8, <2>9, <2>10 DEF TypeOK
<1>19. ASSUME NEW c \in CallIds, AsyncStart(c)
       PROVE  TypeOK'
  <2>1. late' \subseteq CallIds
    BY <1>a, <1>19 DEF TypeOK, AsyncStart
  <2>2. QED
    BY <1>a, <1>19, <2>1 DEF TypeOK, AsyncStart, loopVars, replyVars, partVars, storeVars
<1>28. ASSUME NEW c \in CallIds, AsyncAcquire(c)
       PROVE  TypeOK'
  BY <1>a, <1>28 DEF TypeOK, AsyncAcquire, loopVars, replyVars, partVars, storeVars
<1>20. ASSUME NEW c \in CallIds, AsyncDenied(c)
       PROVE  TypeOK'
  <2>1. shown' \in Screens
    BY <1>a, <1>20, ShowCallType DEF AsyncDenied, PartStates
  <2>3. QED
    BY <1>a, <1>20, <2>1 DEF TypeOK, AsyncDenied, loopVars, replyVars, partVars, storeVars, Screens
<1>21. ASSUME NEW c \in CallIds, AsyncReturn(c)
       PROVE  TypeOK'
  <2>1. shown' \in Screens
    BY <1>a, <1>21, ShowCallType DEF AsyncReturn, PartStates
  <2>3. QED
    BY <1>a, <1>21, <2>1 DEF TypeOK, AsyncReturn, loopVars, replyVars, partVars, storeVars, Screens
<1>22. ASSUME NEW c \in CallIds, AsyncPanic(c)
       PROVE  TypeOK'
  <2>1. shown' \in Screens
    BY <1>a, <1>22, ShowCallType DEF AsyncPanic, PartStates
  <2>3. QED
    BY <1>a, <1>22, <2>1 DEF TypeOK, AsyncPanic, loopVars, replyVars, partVars, storeVars, Screens
<1>23. ASSUME NEW c \in CallIds, AsyncSave(c)
       PROVE  TypeOK'
  <2>1. results[c] = <<>> /\ Returned(c)
    BY <1>a, <1>23 DEF ToolInv, CallInv, AsyncSave
  <2>2. results' \in [CallIds -> BoundedSeq({"complete", "error", "null"}, 1)]
    BY <1>a, <1>23, <2>1, AddResultType DEF AsyncSave, Returned, TypeOK
  <2>3. QED
    BY <1>a, <1>23, <2>2 DEF TypeOK, AsyncSave, AddResult, Succeeds, Fails, loopVars, replyVars, toolVars, partVars
<1>24. CASE Close
  BY <1>a, <1>24 DEF TypeOK, Close, loopVars, replyVars, toolVars, partVars, storeVars
<1>25. CASE UNCHANGED vars
  BY <1>a, <1>25 DEF TypeOK, vars, loopVars, replyVars, toolVars, partVars, storeVars
<1>29. QED
  BY <1>1, <1>2, <1>3, <1>4, <1>5, <1>6, <1>7, <1>8, <1>9, <1>10, <1>11, <1>12, <1>13, <1>14,
     <1>15, <1>16, <1>17, <1>18, <1>19, <1>20, <1>21, <1>22, <1>23, <1>24, <1>25,
     <1>26, <1>27, <1>28, Zenon
     DEF Next, Loop, Streaming, ToolCall, AsyncTool

-----------------------------------------------------------------------------
(* Where the loop is.                                                      *)

(* The steps that move the loop.                                           *)
LEMMA LoopSteps ==
  ASSUME [Next]_vars
  PROVE  \/ UNCHANGED <<loopVars, calls>>
         \/ Prepare \/ StepLimit \/ StepCreate \/ BuildContext \/ StreamFails
         \/ pc = "stream" /\ \E cs \in BoundedSeq(Modes, CallLimit[step]) : StreamEnds(cs)
         \/ CreateParts
         \/ \E k \in 1 .. MaxCalls : SyncSave(k) \/ ConcurrentSave(k) \/ AsyncLaunch(k)
         \/ Checkpoint \/ Persist
<1>1. TextDelta \/ ReasoningDelta \/ Close \/ UNCHANGED vars => UNCHANGED <<loopVars, calls>>
  BY Zenon DEF TextDelta, ReasoningDelta, Close, vars
<1>2. \A k \in 1 .. MaxCalls :
        SyncAnnounce(k) \/ ToolStart(k) \/ ToolReturn(k) \/ ConcurrentAcquire(k) \/ ConcurrentAnnounce(k) \/ ConcurrentDenied(k)
           => UNCHANGED <<loopVars, calls>>
  BY Zenon DEF SyncAnnounce, ToolStart, ToolReturn, ConcurrentAcquire, ConcurrentAnnounce, ConcurrentDenied
<1>3. \A c \in CallIds : AsyncTool(c) => UNCHANGED <<loopVars, calls>>
  BY Zenon DEF AsyncTool, AsyncAcquire, AsyncStart, AsyncDenied, AsyncReturn, AsyncPanic, AsyncSave
<1>4. QED
  BY <1>1, <1>2, <1>3, Zenon DEF Next, Loop, Streaming, ToolCall

LEMMA PhaseNext ==
  ASSUME Inv, [Next]_vars
  PROVE  PhaseInv'
<1>a. TypeOK /\ PhaseInv
  BY Zenon DEF Inv
<1>b. step \in 0 .. MaxSteps /\ MaxSteps \in Nat /\ MaxCalls \in Nat
  BY <1>a, ConstantTypes DEF TypeOK
<1>1. CASE UNCHANGED <<loopVars, calls>>
  BY <1>a, <1>1 DEF PhaseInv, loopVars
<1>2. CASE Prepare
  BY <1>a, <1>2 DEF PhaseInv, Prepare, Abort
<1>3. CASE StepLimit
  BY <1>a, <1>b, <1>3 DEF PhaseInv, StepLimit, Steps
<1>4. CASE StepCreate
  BY <1>a, <1>b, <1>4 DEF PhaseInv, StepCreate, Steps
<1>5. CASE BuildContext
  BY <1>a, <1>5 DEF PhaseInv, BuildContext, Abort
<1>6. CASE StreamFails
  BY <1>a, <1>6 DEF PhaseInv, StreamFails, Abort
<1>7. ASSUME pc = "stream", NEW cs \in BoundedSeq(Modes, CallLimit[step]), StreamEnds(cs)
      PROVE  PhaseInv'
  <2>1. step \in Steps /\ calls' = [calls EXCEPT ![step] = cs] /\ step' = step
        /\ handled' = handled /\ handled = {} /\ outcome' = outcome
        /\ pc' = IF cs = <<>> THEN "tools" ELSE "calls"
    BY <1>a, <1>7 DEF PhaseInv, StreamEnds
  <2>2. \A s \in Steps : s > step => calls'[s] = <<>>
    BY <1>a, <1>b, <2>1 DEF PhaseInv, TypeOK, Steps
  <2>3. outcome # "done"
    BY <1>a, <1>7 DEF PhaseInv
  <2>4. QED
    BY <1>a, <1>7, <2>1, <2>2, <2>3 DEF PhaseInv
<1>8. CASE CreateParts
  BY <1>a, <1>8 DEF PhaseInv, CreateParts
<1>9. ASSUME NEW k \in 1 .. MaxCalls, SyncSave(k) \/ ConcurrentSave(k)
      PROVE  PhaseInv'
  <2>1. /\ pc = "tools" /\ step' = step /\ calls' = calls
        /\ pc' \in {"checkpoint", "tools", "ended"}
        /\ handled' \in {handled, handled \cup {k}}
        /\ outcome' = IF pc' = "ended" THEN "error" ELSE outcome
        /\ k \in 1 .. Len(calls[step])
    BY <1>9 DEF SyncSave, ConcurrentSave, ConcurrentPhase, Of, Abort
  <2>2. QED
    BY <1>a, <2>1 DEF PhaseInv
<1>10. ASSUME NEW k \in 1 .. MaxCalls, AsyncLaunch(k)
       PROVE  PhaseInv'
  BY <1>a, <1>10 DEF PhaseInv, AsyncLaunch, Of
<1>11. CASE Checkpoint
  BY <1>a, <1>11 DEF PhaseInv, Checkpoint
<1>12. CASE Persist
  <2>1. /\ pc = "tools" /\ step \in Steps /\ calls' = calls /\ handled' = {}
        /\ \/ /\ pc' = "ended" /\ outcome' = "done" /\ step' = step
              /\ [k \in 1 .. Len(calls[step]) |-> <<step, k>>] = <<>>
           \/ pc' = "top" /\ outcome' = outcome /\ step' = step + 1
           \/ pc' = "ended" /\ outcome' = "error" /\ step' = step
    BY <1>a, <1>12 DEF PhaseInv, Persist, Abort
  <2>2. [k \in 1 .. Len(calls[step]) |-> <<step, k>>] = <<>> => calls[step] = <<>>
    <3>1. calls[step] \in Seq(Modes) /\ Len(calls[step]) \in Nat
      BY <1>a, <2>1, CallsShape
    <3>2. HAVE [k \in 1 .. Len(calls[step]) |-> <<step, k>>] = <<>>
    <3>3. Len([k \in 1 .. Len(calls[step]) |-> <<step, k>>]) = Len(calls[step])
      BY <3>1
    <3>4. Len(<<>>) = 0
      OBVIOUS
    <3>5. Len(calls[step]) = 0
      BY <3>2, <3>3, <3>4, Zenon
    <3>6. QED
      BY <3>1, <3>5
  <2>3. outcome # "done" /\ outcome = "none"
    BY <1>a, <2>1 DEF PhaseInv
  <2>4. \A s \in Steps : s > step => calls[s] = <<>>
    BY <1>a, <2>1 DEF PhaseInv
  <2>5. CASE pc' = "ended"
    BY <1>a, <1>b, <2>1, <2>2, <2>3, <2>4, <2>5 DEF PhaseInv, Steps
  <2>6. CASE pc' = "top"
    BY <1>a, <1>b, <2>1, <2>3, <2>4, <2>6 DEF PhaseInv, Steps
  <2>7. QED
    BY <2>1, <2>5, <2>6
<1>13. QED
  BY LoopSteps, <1>1, <1>2, <1>3, <1>4, <1>5, <1>6, <1>7, <1>8, <1>9, <1>10, <1>11, <1>12, Zenon

-----------------------------------------------------------------------------
(* What becomes of the tools.                                              *)

(* The steps that concern a tool call, and what the others leave alone.    *)
Aside ==
    /\ UNCHANGED <<calls, tool, results, saving, late, step, handled>>
    /\ closed => closed'
    /\ pc' = pc \/ pc' # "calls"
    /\ pc' # "ended" => pc # "ended"

LEMMA ToolSteps ==
  ASSUME [Next]_vars
  PROVE  \/ Aside
         \/ pc = "stream" /\ \E cs \in BoundedSeq(Modes, CallLimit[step]) : StreamEnds(cs)
         \/ \E k \in 1 .. MaxCalls : ToolCall(k)
         \/ Persist
         \/ \E c \in CallIds : AsyncTool(c)
<1>1. CASE Prepare \/ StepLimit \/ StepCreate \/ BuildContext
  BY <1>1 DEF Aside, Prepare, StepLimit, StepCreate, BuildContext, Abort, toolVars, storeVars
<1>2. CASE TextDelta \/ ReasoningDelta \/ StreamFails
  BY <1>2 DEF Aside, TextDelta, ReasoningDelta, StreamFails, Abort, toolVars, storeVars, loopVars
<1>3. CASE CreateParts \/ Checkpoint \/ Close
  BY <1>3 DEF Aside, CreateParts, Checkpoint, Close, toolVars, storeVars, loopVars
<1>4. CASE UNCHANGED vars
  BY <1>4 DEF Aside, vars, toolVars, storeVars, loopVars
<1>5. QED
  BY <1>1, <1>2, <1>3, <1>4, Zenon DEF Next, Loop, Streaming

(* A step leaves alone the calls it does not concern.                      *)
LEMMA CallFrame ==
  ASSUME NEW d \in CallIds, CallInv(d), UNCHANGED <<calls, step>>,
         tool'[d] = tool[d], results'[d] = results[d], d \in saving' <=> d \in saving,
         closed => closed', pc' = pc \/ pc' # "calls", pc' # "ended" => pc # "ended",
         Handled(d)' <=> Handled(d)
  PROVE  CallInv(d)'
  BY DEF CallInv, Returned, CallsMade, Mode

LEMMA ToolNext ==
  ASSUME Inv, [Next]_vars
  PROVE  ToolInv'
<1>a. TypeOK /\ PhaseInv /\ \A c \in CallIds : CallInv(c)
  BY Zenon DEF Inv, ToolInv
<1>b. step \in 0 .. MaxSteps /\ MaxSteps \in Nat /\ MaxCalls \in Nat
  BY <1>a, ConstantTypes DEF TypeOK
<1>. SUFFICES ASSUME NEW d \in CallIds PROVE CallInv(d)'
  BY Zenon DEF ToolInv
<1>d. CallInv(d)
  BY <1>a
<1>1. CASE Aside
  BY <1>d, <1>1, CallFrame DEF Aside, Handled
<1>2. ASSUME pc = "stream", NEW cs \in BoundedSeq(Modes, CallLimit[step]), StreamEnds(cs)
      PROVE  CallInv(d)'
  <2>1. /\ step \in Steps /\ calls[step] = <<>> /\ calls' = [calls EXCEPT ![step] = cs]
        /\ UNCHANGED <<tool, results, saving, step, handled, closed>> /\ handled = {}
        /\ pc' \in {"tools", "calls"}
    BY <1>a, <1>2, <1>b DEF StreamEnds, PhaseInv, toolVars
  <2>2. CASE d[1] = step
    <3>1. d \notin CallsMade
      BY <1>b, <2>1, <2>2 DEF CallsMade, CallIds
    <3>2. /\ tool[d] = "idle" /\ results[d] = <<>> /\ d \notin saving
      BY <1>d, <3>1 DEF CallInv
    <3>3. ~Handled(d)'
      BY <1>b, <2>1, <2>2 DEF Handled
    <3>4. QED
      BY <2>1, <3>2, <3>3 DEF CallInv
  <2>3. CASE d[1] # step
    <3>1. calls'[d[1]] = calls[d[1]]
      BY <1>a, <2>1, <2>3 DEF TypeOK, CallIds
    <3>2. (d \in CallsMade)' <=> d \in CallsMade
      BY <3>1 DEF CallsMade
    <3>3. Mode(d)' = Mode(d)
      BY <3>1 DEF Mode
    <3>4. Handled(d)' <=> Handled(d)
      BY <2>1 DEF Handled
    <3>5. QED
      BY <1>d, <1>2, <2>1, <2>3, <3>2, <3>3, <3>4 DEF CallInv, Returned
  <2>4. QED
    BY <2>2, <2>3
<1>3. ASSUME NEW k \in 1 .. MaxCalls, SyncAnnounce(k)
      PROVE  CallInv(d)'
  <2>. DEFINE c == <<step, k>>
  <2>1. /\ c \in CallIds /\ c \in CallsMade /\ Mode(c) = "sync" /\ ~Handled(c)
    BY <1>a, <1>3, OfShape DEF SyncAnnounce, Modes, Handled
  <2>2. /\ tool' = [tool EXCEPT ![c] = "announced"] /\ pc = "tools" /\ tool[c] = "idle"
        /\ UNCHANGED <<calls, results, saving, step, handled, closed, pc>>
    BY <1>3 DEF SyncAnnounce, loopVars, storeVars
  <2>. HIDE DEF c
  <2>3. CASE d # c
    BY <1>a, <1>d, <2>2, <2>3, CallFrame DEF Handled, TypeOK
  <2>4. CASE d = c
    <3>1. tool'[d] = "announced" /\ results[d] = <<>> /\ d \notin saving
      BY <1>a, <1>d, <2>1, <2>2, <2>4 DEF TypeOK, CallInv, Returned
    <3>2. QED
      BY <2>1, <2>2, <2>4, <3>1 DEF CallInv, Handled, CallsMade, Mode
  <2>5. QED
    BY <2>3, <2>4
<1>11. ASSUME NEW k \in 1 .. MaxCalls, ToolStart(k)
       PROVE  CallInv(d)'
  <2>. DEFINE c == <<step, k>>
  <2>1. /\ c \in CallIds /\ c \in CallsMade /\ Mode(c) # "async"
    BY <1>a, <1>11, OfShape DEF ToolStart, Modes
  <2>2. /\ tool' = [tool EXCEPT ![c] = "running"] /\ pc = "tools" /\ tool[c] = "announced"
        /\ UNCHANGED <<calls, results, saving, step, handled, closed, pc>>
    BY <1>11 DEF ToolStart, loopVars, storeVars
  <2>. HIDE DEF c
  <2>3. CASE d # c
    BY <1>a, <1>d, <2>2, <2>3, CallFrame DEF Handled, TypeOK
  <2>4. CASE d = c
    <3>1. tool'[d] = "running" /\ results[d] = <<>> /\ d \notin saving
      BY <1>a, <1>d, <2>1, <2>2, <2>4 DEF TypeOK, CallInv, Returned
    <3>2. ~Handled(d)
      BY <1>d, <2>1, <2>4, <3>1 DEF CallInv
    <3>3. QED
      BY <2>1, <2>2, <2>4, <3>1, <3>2 DEF CallInv, Handled, CallsMade, Mode
  <2>5. QED
    BY <2>3, <2>4
<1>4. ASSUME NEW k \in 1 .. MaxCalls, ToolReturn(k)
      PROVE  CallInv(d)'
  <2>. DEFINE c == <<step, k>>
  <2>1. /\ c \in CallIds /\ c \in CallsMade /\ Mode(c) # "async"
    BY <1>a, <1>4, OfShape DEF ToolReturn, Modes
  <2>2. /\ tool[c] = "running" /\ pc = "tools"
        /\ UNCHANGED <<calls, results, saving, step, handled, closed, pc>>
    BY <1>4 DEF ToolReturn, loopVars, storeVars
  <2>3. PICK result \in {"complete", "error"} : tool' = [tool EXCEPT ![c] = result]
    BY <1>4 DEF ToolReturn
  <2>. HIDE DEF c
  <2>4. CASE d # c
    BY <1>a, <1>d, <2>2, <2>3, <2>4, CallFrame DEF Handled, TypeOK
  <2>5. CASE d = c
    <3>1. tool'[d] = result /\ results[d] = <<>> /\ d \notin saving
      BY <1>a, <1>d, <2>1, <2>2, <2>3, <2>5 DEF TypeOK, CallInv, Returned
    <3>2. QED
      BY <1>d, <2>1, <2>2, <2>5, <3>1 DEF CallInv, Handled, CallsMade, Mode, Returned
  <2>6. QED
    BY <2>4, <2>5
<1>5. ASSUME NEW k \in 1 .. MaxCalls, SyncSave(k) \/ ConcurrentSave(k)
      PROVE  CallInv(d)'
  <2>. DEFINE c == <<step, k>>
  <2>1. /\ c \in CallIds /\ c \in CallsMade /\ Mode(c) # "async" /\ ~Handled(c) /\ pc = "tools"
        /\ step \in Steps
    BY <1>a, <1>5, OfShape DEF SyncSave, ConcurrentSave, ConcurrentPhase, Modes
  <2>2. CallInv(c)
    BY <1>a, <2>1
  <2>3. results[c] = <<>> /\ c \notin saving /\ (tool[c] = "denied" => closed)
    BY <2>1, <2>2 DEF CallInv
  <2>4. tool[c] \in {"complete", "error", "denied"}
    BY <1>a, <1>5, <2>1, <2>2 DEF SyncSave, ConcurrentSave, ConcurrentPhase, Returned, CallInv,
                                  TypeOK, Of
  <2>5. UNCHANGED <<calls, tool, saving, step, closed>> /\ pc' # "calls"
    BY <1>5 DEF SyncSave, ConcurrentSave, Abort, toolVars
  <2>. HIDE DEF c
  <2>6. CASE pc' = "ended"
    <3>1. UNCHANGED <<results, handled>>
      BY <1>5, <2>6 DEF SyncSave, ConcurrentSave
    <3>2. QED
      BY <1>d, <2>1, <2>5, <2>6, <3>1, CallFrame DEF Handled
  <2>7. CASE pc' # "ended"
    <3>1. /\ AddResult(c, tool[c]) \/ AddResult(c, IF tool[c] = "denied" THEN "null" ELSE tool[c])
          /\ handled' = handled \cup {k}
      BY <1>5, <2>7 DEF SyncSave, ConcurrentSave, Abort, c
    <3>2. tool[c] # "denied" /\ results' = [results EXCEPT ![c] = <<tool[c]>>]
      <4>1. PICK content \in {"complete", "error", "null"} :
               AddResult(c, content) /\ (tool[c] # "denied" => content = tool[c])
        <5>. DEFINE other == IF tool[c] = "denied" THEN "null" ELSE tool[c]
        <5>1. /\ other \in {"complete", "error", "null"} /\ (tool[c] # "denied" => other = tool[c])
              /\ tool[c] = "denied" => closed
          BY <2>3, <2>4
        <5>2. CASE AddResult(c, tool[c])
          BY <2>3, <2>4, <5>2 DEF AddResult, Succeeds
        <5>3. CASE AddResult(c, other)
          BY <5>1, <5>3, Zenon
        <5>4. QED
          BY <3>1, <5>2, <5>3, Zenon
      <4>2. results' = [results EXCEPT ![c] = <<content>>] /\ ~closed
        BY <1>a, <2>1, <2>3, <4>1, AddResultType
      <4>3. QED
        BY <2>3, <4>1, <4>2
    <3>3. CASE d = c
      <4>1. Handled(d)' /\ results'[d] = <<tool[d]>> /\ d \notin saving
        BY <1>a, <2>1, <2>3, <2>5, <3>1, <3>2, <3>3 DEF Handled, TypeOK, c
      <4>2. tool'[d] = tool[d] /\ Returned(d)' /\ results'[d] # <<>> /\ d \notin saving'
        BY <2>4, <2>5, <3>2, <3>3, <4>1 DEF Returned
      <4>3. (d \in CallsMade)' /\ Mode(d)' # "async"
        BY <2>1, <2>5, <3>3 DEF CallsMade, Mode
      <4>4. QED
        BY <2>4, <2>5, <3>2, <3>3, <4>1, <4>2, <4>3 DEF CallInv
    <3>4. CASE d # c
      <4>1. Handled(d)' <=> Handled(d)
        BY <2>5, <3>1, <3>4 DEF Handled, CallIds, c
      <4>2. results'[d] = results[d]
        BY <1>a, <3>2, <3>4 DEF TypeOK
      <4>3. QED
        BY <1>d, <2>1, <2>5, <2>7, <4>1, <4>2, CallFrame
    <3>5. QED
      BY <3>3, <3>4
  <2>8. QED
    BY <2>6, <2>7
<1>6. ASSUME NEW k \in 1 .. MaxCalls, ConcurrentAcquire(k) \/ ConcurrentAnnounce(k) \/ ConcurrentDenied(k)
      PROVE  CallInv(d)'
  <2>. DEFINE c == <<step, k>>
  <2>1. /\ c \in CallIds /\ c \in CallsMade /\ Mode(c) = "concurrent" /\ ~Handled(c) /\ pc = "tools"
    BY <1>a, <1>6, OfShape DEF ConcurrentAcquire, ConcurrentAnnounce, ConcurrentDenied, ConcurrentPhase, Modes
  <2>2. PICK state \in {"granted", "announced", "denied"} :
           tool' = [tool EXCEPT ![c] = state] /\ (state = "denied" => closed)
    BY <1>6 DEF ConcurrentAcquire, ConcurrentAnnounce, ConcurrentDenied
  <2>3. UNCHANGED <<calls, results, saving, step, handled, closed, pc>>
    BY <1>6 DEF ConcurrentAcquire, ConcurrentAnnounce, ConcurrentDenied, loopVars, storeVars
  <2>. HIDE DEF c
  <2>4. CASE d # c
    BY <1>a, <1>d, <2>2, <2>3, <2>4, CallFrame DEF Handled, TypeOK
  <2>5. CASE d = c
    <3>1. tool'[d] = state /\ results[d] = <<>> /\ d \notin saving
      BY <1>a, <1>d, <2>1, <2>2, <2>5 DEF TypeOK, CallInv
    <3>2. QED
      BY <2>1, <2>2, <2>3, <2>5, <3>1 DEF CallInv, Handled, CallsMade, Mode
  <2>6. QED
    BY <2>4, <2>5
<1>7. ASSUME NEW k \in 1 .. MaxCalls, AsyncLaunch(k)
      PROVE  CallInv(d)'
  <2>. DEFINE c == <<step, k>>
  <2>1. /\ c \in CallIds /\ c \in CallsMade /\ Mode(c) = "async" /\ ~Handled(c) /\ pc = "tools"
        /\ step \in Steps
    BY <1>a, <1>7, OfShape DEF AsyncLaunch, Modes
  <2>2. /\ tool' = [tool EXCEPT ![c] = "queued"] /\ handled' = handled \cup {k}
        /\ UNCHANGED <<calls, results, saving, step, closed, pc>>
    BY <1>7 DEF AsyncLaunch, storeVars
  <2>3. (d = c)' <=> d = c
    BY <2>2
  <2>4. CASE d # c
    <3>1. Handled(d)' <=> Handled(d)
      BY <2>2, <2>4 DEF Handled, CallIds
    <3>2. QED
      BY <1>a, <1>d, <2>2, <2>4, <3>1, CallFrame DEF TypeOK
  <2>5. CASE d = c
    <3>1. tool[d] = "idle" /\ Handled(d)'
      BY <1>d, <2>1, <2>2, <2>5 DEF CallInv, Handled
    <3>2. tool'[d] = "queued" /\ results[d] = <<>> /\ d \notin saving
      BY <1>a, <1>d, <2>1, <2>2, <2>5, <3>1 DEF TypeOK, CallInv, Returned
    <3>3. QED
      BY <2>1, <2>2, <2>5, <3>1, <3>2 DEF CallInv, CallsMade, Mode
  <2>6. QED
    BY <2>4, <2>5
<1>8. CASE Persist
  <2>1. /\ pc = "tools" /\ step \in Steps /\ handled' = {} /\ handled = 1 .. Len(calls[step])
        /\ UNCHANGED <<calls, tool, results, saving, closed>>
        /\ pc' \in {"top", "ended"} /\ (pc' = "top" => step' = step + 1)
        /\ step' \in {step, step + 1}
    <3>1. Len([k \in 1 .. Len(calls[step]) |-> <<step, k>>]) = Len(calls[step])
      BY <1>a, <1>8, CallsShape DEF Persist, PhaseInv
    <3>2. QED
      BY <1>a, <1>8, <3>1 DEF Persist, PhaseInv, toolVars, Abort
  <2>2. (d \in CallsMade)' <=> d \in CallsMade
    BY <2>1 DEF CallsMade
  <2>3. Mode(d)' = Mode(d)
    BY <2>1 DEF Mode
  <2>4. Handled(d)' /\ d \in CallsMade => Handled(d)
    BY <1>b, <2>1 DEF Handled, CallsMade, CallIds, Steps
  <2>5. pc' # "ended" /\ Handled(d) => Handled(d)'
    BY <1>b, <2>1 DEF Handled, CallIds, Steps
  <2>6. QED
    BY <1>d, <2>1, <2>2, <2>3, <2>4, <2>5 DEF CallInv, Returned
<1>9. ASSUME NEW c \in CallIds,
             AsyncAcquire(c) \/ AsyncStart(c) \/ AsyncDenied(c) \/ AsyncReturn(c) \/ AsyncPanic(c) \/ AsyncSave(c)
      PROVE  CallInv(d)'
  <2>1. UNCHANGED <<calls, step, handled, closed, pc>>
    BY <1>9 DEF AsyncAcquire, AsyncStart, AsyncDenied, AsyncReturn, AsyncPanic, AsyncSave, loopVars
  <2>2. CallInv(c)
    BY <1>a
  <2>3. c \in CallsMade /\ Mode(c) = "async" /\ tool[c] # "idle"
    BY <1>9, <2>2 DEF AsyncAcquire, AsyncStart, AsyncDenied, AsyncReturn, AsyncPanic, AsyncSave, CallInv, Returned
  <2>4. Handled(d)' <=> Handled(d)
    BY <2>1 DEF Handled
  <2>5. (d \in CallsMade)' <=> d \in CallsMade
    BY <2>1 DEF CallsMade
  <2>6. Mode(d)' = Mode(d)
    BY <2>1 DEF Mode
  <2>7. CASE AsyncAcquire(c) \/ AsyncStart(c) \/ AsyncDenied(c) \/ AsyncPanic(c)
    <3>1. PICK state \in {"granted", "running", "denied", "error"} : tool' = [tool EXCEPT ![c] = state]
      BY <2>7 DEF AsyncAcquire, AsyncStart, AsyncDenied, AsyncPanic
    <3>2. UNCHANGED <<results, saving>> /\ tool[c] \in {"queued", "granted", "running"}
      BY <2>7 DEF AsyncAcquire, AsyncStart, AsyncDenied, AsyncPanic, storeVars
    <3>3. CASE d # c
      BY <1>a, <1>d, <2>1, <2>4, <3>1, <3>2, <3>3, CallFrame DEF TypeOK
    <3>4. CASE d = c
      <4>1. results[d] = <<>> /\ d \notin saving
        BY <1>d, <3>2, <3>4 DEF CallInv, Returned
      <4>2. QED
        BY <1>d, <2>1, <2>3, <2>4, <2>5, <2>6, <3>2, <3>4, <4>1 DEF CallInv, Returned
    <3>5. QED
      BY <3>3, <3>4
  <2>8. CASE AsyncReturn(c)
    <3>1. PICK result \in {"complete", "error"} : tool' = [tool EXCEPT ![c] = result]
      BY <2>8 DEF AsyncReturn
    <3>2. UNCHANGED results /\ saving' = saving \cup {c} /\ tool[c] = "running"
      BY <2>8 DEF AsyncReturn, storeVars
    <3>3. CASE d # c
      BY <1>a, <1>d, <2>1, <2>4, <3>1, <3>2, <3>3, CallFrame DEF TypeOK
    <3>4. CASE d = c
      <4>1. results[d] = <<>> /\ tool'[d] = result
        BY <1>a, <1>d, <3>1, <3>2, <3>4 DEF CallInv, Returned, TypeOK
      <4>2. QED
        BY <1>d, <2>1, <2>3, <2>4, <2>5, <2>6, <3>2, <3>4, <4>1 DEF CallInv, Returned
    <3>5. QED
      BY <3>3, <3>4
  <2>9. CASE AsyncSave(c)
    <3>1. UNCHANGED tool /\ saving' = saving \ {c} /\ Returned(c) /\ results[c] = <<>>
      BY <2>2, <2>9 DEF AsyncSave, CallInv
    <3>2. results' = [results EXCEPT ![c] = <<tool[c]>>] \/ results' = results
      BY <1>a, <2>9, <3>1, AddResultType DEF AsyncSave, Returned
    <3>3. CASE d # c
      BY <1>a, <1>d, <2>1, <2>4, <3>1, <3>2, <3>3, CallFrame DEF TypeOK
    <3>4. CASE d = c
      <4>1. results'[d] = <<tool[d]>> \/ results'[d] = <<>>
        BY <1>a, <3>1, <3>2, <3>4 DEF TypeOK
      <4>2. QED
        BY <1>d, <2>1, <2>3, <2>4, <2>5, <2>6, <3>1, <3>4, <4>1 DEF CallInv, Returned
    <3>5. QED
      BY <3>3, <3>4
  <2>10. QED
    BY <1>9, <2>7, <2>8, <2>9
<1>10. QED
  BY ToolSteps, <1>1, <1>2, <1>3, <1>4, <1>5, <1>6, <1>7, <1>8, <1>9, <1>11, Zenon DEF ToolCall, AsyncTool

-----------------------------------------------------------------------------
(* After a stop.                                                           *)

(* A tool that is not idle never becomes idle again.                       *)
LEMMA ToolAdvances ==
  ASSUME TypeOK, PhaseInv, ToolInv, [Next]_vars, NEW c \in CallIds, tool[c] # "idle"
  PROVE  tool'[c] # "idle"
<1>1. ASSUME NEW k \in 1 .. MaxCalls, ToolCall(k)
      PROVE  tool'[c] # "idle"
  BY <1>1 DEF TypeOK, ToolCall, SyncAnnounce, ToolStart, ToolReturn, SyncSave, ConcurrentAcquire, ConcurrentAnnounce,
              ConcurrentDenied, ConcurrentSave, AsyncLaunch, toolVars
<1>2. ASSUME NEW d \in CallIds, AsyncTool(d)
      PROVE  tool'[c] # "idle"
  BY <1>2 DEF TypeOK, AsyncTool, AsyncAcquire, AsyncStart, AsyncDenied, AsyncReturn, AsyncPanic, AsyncSave
<1>3. tool' = tool => tool'[c] # "idle"
  OBVIOUS
<1>4. CASE Aside
  BY <1>3, <1>4 DEF Aside
<1>5. ASSUME NEW cs, StreamEnds(cs)
      PROVE  tool'[c] # "idle"
  BY <1>3, <1>5 DEF StreamEnds, toolVars
<1>6. CASE Persist
  BY <1>3, <1>6 DEF Persist, toolVars
<1>7. QED
  BY ToolSteps, <1>1, <1>2, <1>4, <1>5, <1>6, Zenon

(* A tool that has been started is not started again.                      *)
LEMMA StartedStays ==
  ASSUME TypeOK, PhaseInv, ToolInv, [Next]_vars, NEW c \in CallIds, tool[c] \notin Ahead
  PROVE  tool'[c] \notin Ahead
<1>1. ASSUME NEW k \in 1 .. MaxCalls, ToolCall(k)
      PROVE  tool'[c] \notin Ahead
  <2>. DEFINE e == <<step, k>>
  <2>1. SyncSave(k) \/ ConcurrentSave(k) => tool' = tool
    BY Zenon DEF SyncSave, ConcurrentSave, toolVars
  <2>2. ToolStart(k) \/ ToolReturn(k) \/ ConcurrentDenied(k) =>
           \E new \in {"running", "complete", "error", "denied"} : tool' = [tool EXCEPT ![e] = new]
    BY DEF ToolStart, ToolReturn, ConcurrentDenied
  <2>3. SyncAnnounce(k) \/ ConcurrentAcquire(k) \/ ConcurrentAnnounce(k) =>
           tool[e] \in Ahead /\ \E new \in Ahead : tool' = [tool EXCEPT ![e] = new]
    BY DEF SyncAnnounce, ConcurrentAcquire, ConcurrentAnnounce, Ahead
  <2>4. AsyncLaunch(k) => tool[e] \in Ahead /\ \E new \in Ahead : tool' = [tool EXCEPT ![e] = new]
    <3>1. SUFFICES ASSUME AsyncLaunch(k) PROVE tool[e] \in Ahead
      BY DEF AsyncLaunch, Ahead
    <3>2. /\ pc = "tools" /\ k \in Of("async") \ handled
      BY <3>1 DEF AsyncLaunch
    <3>3. /\ e \in CallIds /\ e \in CallsMade /\ Mode(e) = "async" /\ step \in Steps
      BY <3>2, OfShape DEF Modes
    <3>4. CallInv(e) /\ ~Handled(e)
      BY <3>2, <3>3, ConstantTypes DEF ToolInv, Handled, Steps
    <3>5. QED
      BY <3>2, <3>3, <3>4 DEF CallInv, Ahead
  <2>. HIDE DEF e
  <2>5. ASSUME NEW new, tool' = [tool EXCEPT ![e] = new], new \notin Ahead \/ tool[e] \in Ahead
        PROVE  tool'[c] \notin Ahead
    BY <2>5 DEF TypeOK
  <2>6. {"running", "complete", "error", "denied"} \cap Ahead = {}
    BY DEF Ahead
  <2>7. QED
    BY <1>1, <2>1, <2>2, <2>3, <2>4, <2>5, <2>6 DEF ToolCall
<1>2. ASSUME NEW d \in CallIds, AsyncTool(d)
      PROVE  tool'[c] \notin Ahead
  BY <1>2 DEF TypeOK, AsyncTool, AsyncAcquire, AsyncStart, AsyncDenied, AsyncReturn, AsyncPanic,
              AsyncSave, Ahead
<1>3. tool' = tool => tool'[c] \notin Ahead
  OBVIOUS
<1>4. CASE Aside
  BY <1>3, <1>4 DEF Aside
<1>5. ASSUME NEW cs, StreamEnds(cs)
      PROVE  tool'[c] \notin Ahead
  BY <1>3, <1>5 DEF StreamEnds, toolVars
<1>6. CASE Persist
  BY <1>3, <1>6 DEF Persist, toolVars
<1>7. QED
  BY ToolSteps, <1>1, <1>2, <1>4, <1>5, <1>6, Zenon

(* A call that has been made keeps its mode.                               *)
LEMMA ModeStays ==
  ASSUME TypeOK, PhaseInv, [Next]_vars, NEW c \in CallsMade
  PROVE  Mode(c)' = Mode(c) /\ (c \in CallsMade)'
<1>1. CASE calls' = calls
  BY <1>1 DEF Mode, CallsMade
<1>2. ASSUME pc = "stream", NEW cs \in BoundedSeq(Modes, CallLimit[step]), StreamEnds(cs)
      PROVE  Mode(c)' = Mode(c) /\ (c \in CallsMade)'
  <2>1. step \in Steps /\ calls[step] = <<>> /\ calls' = [calls EXCEPT ![step] = cs]
    BY <1>2 DEF StreamEnds, PhaseInv
  <2>2. c[1] # step
    BY <2>1, ConstantTypes DEF CallsMade, CallIds
  <2>3. calls'[c[1]] = calls[c[1]]
    BY <2>1, <2>2 DEF TypeOK, CallsMade, CallIds
  <2>4. QED
    BY <2>3 DEF Mode, CallsMade
<1>3. ASSUME NEW k \in 1 .. MaxCalls, ToolCall(k)
      PROVE  calls' = calls
  BY <1>3, Zenon DEF ToolCall, SyncAnnounce, ToolStart, ToolReturn, SyncSave, ConcurrentAcquire,
              ConcurrentAnnounce, ConcurrentDenied, ConcurrentSave, AsyncLaunch
<1>4. ASSUME NEW d \in CallIds, AsyncTool(d)
      PROVE  calls' = calls
  BY <1>4, Zenon DEF AsyncTool, AsyncAcquire, AsyncStart, AsyncDenied, AsyncReturn, AsyncPanic,
              AsyncSave
<1>5. Aside \/ Persist => calls' = calls
  BY Zenon DEF Aside, Persist
<1>6. QED
  BY <1>1, <1>2, <1>3, <1>4, <1>5, ToolSteps, Zenon

(* Only the start of a tool counts.                                        *)
LEMMA LateSteps ==
  ASSUME [Next]_vars
  PROVE  \/ late' = late
         \/ \E k \in 1 .. MaxCalls : ToolStart(k)
         \/ \E c \in CallIds : AsyncStart(c)
<1>1. CASE Prepare \/ StepLimit \/ StepCreate \/ BuildContext \/ CreateParts \/ Checkpoint
           \/ Persist \/ Close
  BY <1>1, Zenon DEF Prepare, StepLimit, StepCreate, BuildContext, CreateParts, Checkpoint, Persist,
              Close, toolVars
<1>2. CASE Streaming
  BY <1>2, Zenon DEF Streaming, TextDelta, ReasoningDelta, StreamFails, StreamEnds, toolVars
<1>3. ASSUME NEW k \in 1 .. MaxCalls, ToolCall(k), ~ToolStart(k)
      PROVE  late' = late
  BY <1>3, Zenon DEF ToolCall, SyncAnnounce, ToolReturn, SyncSave, ConcurrentAcquire,
              ConcurrentAnnounce, ConcurrentDenied, ConcurrentSave, AsyncLaunch, toolVars
<1>4. ASSUME NEW c \in CallIds, AsyncTool(c), ~AsyncStart(c)
      PROVE  late' = late
  BY <1>4, Zenon DEF AsyncTool, AsyncAcquire, AsyncDenied, AsyncReturn, AsyncPanic, AsyncSave, toolVars
<1>5. CASE UNCHANGED vars
  BY <1>5, Zenon DEF vars, toolVars
<1>6. QED
  BY <1>1, <1>2, <1>3, <1>4, <1>5, Zenon DEF Next, Loop

(* A stopped session stays stopped, an ended run ended.                    *)
LEMMA ClosedStays ==
  ASSUME [Next]_vars
  PROVE  /\ closed => closed'
         /\ pc = "ended" => UNCHANGED <<loopVars, calls, row, partVars, partIndex>>
<1>1. ASSUME pc = "ended"
      PROVE  ~Loop
  <2>1. ~Prepare /\ ~StepLimit /\ ~StepCreate /\ ~BuildContext /\ ~CreateParts /\ ~Checkpoint
        /\ ~Persist
    BY <1>1 DEF Prepare, StepLimit, StepCreate, BuildContext, CreateParts, Checkpoint, Persist
  <2>2. ~Streaming
    BY <1>1 DEF Streaming, TextDelta, ReasoningDelta, StreamFails
  <2>3. ASSUME NEW k \in 1 .. MaxCalls
        PROVE  ~ToolCall(k)
    BY <1>1 DEF ToolCall, SyncAnnounce, ToolStart, ToolReturn, SyncSave, ConcurrentAcquire, ConcurrentAnnounce, ConcurrentDenied,
                ConcurrentSave, ConcurrentPhase, AsyncLaunch
  <2>4. QED
    BY <2>1, <2>2, <2>3, Zenon DEF Loop
<1>2. ASSUME Loop
      PROVE  closed' = closed
  <2>1. CASE Prepare \/ StepLimit \/ StepCreate \/ BuildContext \/ CreateParts \/ Checkpoint
             \/ Persist
    BY <2>1, Zenon DEF Prepare, StepLimit, StepCreate, BuildContext, CreateParts, Checkpoint, Persist
  <2>2. CASE Streaming
    BY <2>2, Zenon DEF Streaming, TextDelta, ReasoningDelta, StreamFails, StreamEnds
  <2>3. ASSUME NEW k \in 1 .. MaxCalls, ToolCall(k)
        PROVE  closed' = closed
    BY <2>3, Zenon DEF ToolCall, SyncAnnounce, ToolStart, ToolReturn, SyncSave, ConcurrentAcquire, ConcurrentAnnounce, ConcurrentDenied,
                       ConcurrentSave, AsyncLaunch
  <2>4. QED
    BY <1>2, <2>1, <2>2, <2>3, Zenon DEF Loop
<1>3. ASSUME NEW c \in CallIds, AsyncTool(c)
      PROVE  UNCHANGED <<loopVars, calls, row, partVars, partIndex, closed>>
  BY <1>3, Zenon DEF AsyncTool, AsyncAcquire, AsyncStart, AsyncDenied, AsyncReturn, AsyncPanic, AsyncSave, storeVars
<1>4. Close => closed' /\ UNCHANGED <<loopVars, calls, row, partVars, partIndex>>
  BY Zenon DEF Close, storeVars
<1>5. UNCHANGED vars => UNCHANGED <<loopVars, calls, row, partVars, partIndex, closed>>
  BY Zenon DEF vars, storeVars
<1>6. closed => closed'
  BY <1>2, <1>3, <1>4, <1>5, Zenon DEF Next
<1>7. pc = "ended" => UNCHANGED <<loopVars, calls, row, partVars, partIndex>>
  BY <1>1, <1>3, <1>4, <1>5, Zenon DEF Next
<1>8. QED
  BY <1>6, <1>7

LEMMA LateNext ==
  ASSUME Inv, [Next]_vars
  PROVE  LateInv'
<1>a. TypeOK /\ PhaseInv /\ ToolInv /\ TurnInv /\ LateInv /\ late \subseteq CallIds
  BY Zenon DEF Inv, TypeOK
<1>1. ASSUME NEW k \in 1 .. MaxCalls, ToolStart(k)
      PROVE  LateInv'
  <2>. DEFINE c == <<step, k>>
  <2>1. /\ pc = "tools" /\ k \in Of("sync") \cup Of("concurrent") /\ tool[c] = "announced"
        /\ tool' = [tool EXCEPT ![c] = "running"]
        /\ late' = (IF closed THEN late \cup {c} ELSE late)
        /\ UNCHANGED <<calls, step, handled, closed, pc>>
    BY <1>1 DEF ToolStart, loopVars
  <2>2. /\ c \in CallIds /\ c \in CallsMade /\ (k \in Of("sync") <=> Mode(c) = "sync")
        /\ Mode(c) # "async"
    BY <1>a, <2>1, OfShape DEF Modes, Of, Mode
  <2>3. k \notin handled
    <3>1. CallInv(c)
      BY <1>a, <2>2 DEF ToolInv
    <3>2. ~Handled(c)
      BY <2>1, <2>2, <3>1 DEF CallInv, Returned
    <3>3. QED
      BY <3>2 DEF Handled
  <2>4. Mode(c) = "sync" => \A j \in Of("sync") : j < k => j \in handled
    BY <1>a, <2>1, <2>2, <2>3 DEF TurnInv
  <2>5. c \notin late
    BY <1>a, <2>1 DEF LateInv, Ahead
  <2>6. ASSUME NEW d \in late, Mode(d) = "sync", Mode(c) = "sync"
        PROVE  FALSE
    <3>1. /\ d \in CallIds /\ d[1] = step /\ d[2] \in Of("sync") \ handled
          /\ \A j \in Of("sync") : j < d[2] => j \in handled
      BY <1>a, <2>1, <2>6 DEF LateInv
    <3>2. d[2] \in Nat /\ k \in Nat /\ d = <<d[1], d[2]>>
      BY <3>1, ConstantTypes DEF CallIds
    <3>3. d[2] = k
      BY <2>2, <2>3, <2>4, <2>6, <3>1, <3>2
    <3>4. QED
      BY <2>5, <3>1, <3>2, <3>3
  <2>7. /\ \A d \in CallIds : Mode(d)' = Mode(d) /\ (d \in CallsMade)' = (d \in CallsMade)
        /\ Of("sync")' = Of("sync")
    BY <2>1 DEF Mode, CallsMade, Of
  <2>8. \A d \in late' : d \in CallIds /\ (d \in late \/ (closed /\ d = c))
    BY <1>a, <2>1, <2>2
  <2>9. ~closed' => late' = {}
    BY <1>a, <2>1 DEF LateInv
  <2>10. \A d \in late' : (d \in CallsMade)' /\ tool'[d] \notin Ahead
    <3>1. tool'[c] = "running" /\ \A d \in CallIds : d # c => tool'[d] = tool[d]
      BY <1>a, <2>1, <2>2 DEF TypeOK
    <3>. HIDE DEF c
    <3>2. ASSUME NEW d \in late' PROVE (d \in CallsMade)' /\ tool'[d] \notin Ahead
      <4>1. CASE d = c
        BY <2>2, <2>7, <3>1, <4>1 DEF Ahead
      <4>2. CASE d # c
        <5>1. d \in late /\ d \in CallIds
          BY <2>8, <4>2
        <5>2. d \in CallsMade /\ tool[d] \notin Ahead
          BY <1>a, <5>1 DEF LateInv
        <5>3. QED
          BY <2>7, <3>1, <4>2, <5>1, <5>2
      <4>3. QED
        BY <4>1, <4>2
    <3>3. QED
      BY <3>2
  <2>11. ASSUME NEW d \in late', NEW e \in late', Mode(d)' = "sync", Mode(e)' = "sync"
         PROVE  d = e
    <3>. HIDE DEF c
    <3>1. d \in CallIds /\ e \in CallIds /\ Mode(d) = "sync" /\ Mode(e) = "sync"
      BY <2>7, <2>8, <2>11
    <3>2. CASE d \in late /\ e \in late
      BY <1>a, <3>1, <3>2 DEF LateInv
    <3>3. CASE d \notin late \/ e \notin late
      BY <2>6, <2>8, <3>1, <3>3
    <3>4. QED
      BY <3>2, <3>3
  <2>12. ASSUME NEW d \in late', Mode(d)' = "sync"
         PROVE  /\ pc' = "tools" /\ d[1] = step' /\ d[2] \in Of("sync")' \ handled'
                /\ \A j \in Of("sync")' : j < d[2] => j \in handled'
    <3>1. d \in CallIds /\ Mode(d) = "sync"
      BY <2>7, <2>8, <2>12
    <3>2. CASE d = c
      BY <2>1, <2>2, <2>3, <2>4, <2>7, <3>1, <3>2
    <3>3. CASE d \in late
      <4>1. /\ d[1] = step /\ d[2] \in Of("sync") \ handled
            /\ \A j \in Of("sync") : j < d[2] => j \in handled
        BY <1>a, <2>1, <3>1, <3>3 DEF LateInv
      <4>2. QED
        BY <2>1, <2>7, <4>1
    <3>4. QED
      BY <2>8, <3>2, <3>3
  <2>. HIDE DEF c
  <2>13. QED
    BY <2>9, <2>10, <2>11, <2>12 DEF LateInv
<1>2. ASSUME NEW c \in CallIds, AsyncStart(c)
      PROVE  LateInv'
  <2>1. /\ Mode(c) = "async" /\ tool[c] = "granted" /\ tool' = [tool EXCEPT ![c] = "running"]
        /\ late' = (IF closed THEN late \cup {c} ELSE late)
        /\ UNCHANGED <<calls, step, handled, closed, pc>>
    BY <1>2 DEF AsyncStart, loopVars
  <2>2. c \in CallsMade
    BY <1>a, <2>1 DEF ToolInv, CallInv
  <2>3. tool'[c] = "running" /\ \A d \in CallIds : d # c => tool'[d] = tool[d]
    BY <1>a, <2>1 DEF TypeOK
  <2>4. /\ \A d \in CallIds : Mode(d)' = Mode(d) /\ (d \in CallsMade)' = (d \in CallsMade)
        /\ Of("sync")' = Of("sync")
    BY <2>1 DEF Mode, CallsMade, Of
  <2>5. \A d \in late' : d \in CallIds /\ (d \in late \/ d = c)
    BY <1>a, <2>1
  <2>6. \A d \in late' : Mode(d)' = "sync" => d \in late /\ Mode(d) = "sync"
    BY <2>1, <2>4, <2>5
  <2>7. ~closed' => late' = {}
    BY <1>a, <2>1 DEF LateInv
  <2>8. \A d \in late' : (d \in CallsMade)' /\ tool'[d] \notin Ahead
    BY <1>a, <2>2, <2>3, <2>4, <2>5 DEF LateInv, Ahead
  <2>9. \A d, e \in late' : Mode(d)' = "sync" /\ Mode(e)' = "sync" => d = e
    BY <1>a, <2>6 DEF LateInv
  <2>10. ASSUME NEW d \in late', Mode(d)' = "sync"
         PROVE  \/ pc' = "ended"
                \/ /\ pc' = "tools" /\ d[1] = step' /\ d[2] \in Of("sync")' \ handled'
                   /\ \A j \in Of("sync")' : j < d[2] => j \in handled'
    <3>1. d \in late /\ Mode(d) = "sync"
      BY <2>6, <2>10
    <3>2. QED
      BY <1>a, <2>1, <2>4, <3>1 DEF LateInv
  <2>11. QED
    BY <2>7, <2>8, <2>9, <2>10 DEF LateInv
<1>3. ASSUME late' = late
      PROVE  LateInv'
  <2>1. ~closed' => late' = {}
    BY <1>a, <1>3, ClosedStays DEF LateInv
  <2>2. ASSUME NEW d \in late
        PROVE  (d \in CallsMade)' /\ Mode(d)' = Mode(d) /\ tool'[d] \notin Ahead
    <3>1. d \in CallIds /\ d \in CallsMade /\ tool[d] \notin Ahead
      BY <1>a DEF LateInv
    <3>2. QED
      BY <1>a, <3>1, ModeStays, StartedStays
  <2>3. ASSUME NEW d \in late, Mode(d) = "sync"
        PROVE  \/ pc' = "ended"
               \/ /\ pc' = "tools" /\ d[1] = step' /\ d[2] \in Of("sync")' \ handled'
                  /\ \A j \in Of("sync")' : j < d[2] => j \in handled'
    <3>0. CASE pc = "ended"
      BY <3>0, ClosedStays DEF loopVars
    <3>1. CASE pc # "ended"
      <4>1. /\ pc = "tools" /\ d[1] = step /\ closed /\ d \in CallIds
        BY <1>a, <2>3, <3>1 DEF LateInv
      <4>2. PICK k \in Of("sync") \ handled :
               k = d[2] /\ \A j \in Of("sync") : j < k => j \in handled
        BY <1>a, <2>3, <3>1 DEF LateInv
      <4>3. k \in 1 .. Len(calls[step]) /\ <<step, k>> \in CallIds
        BY <1>a, <4>1, <4>2, OfShape DEF Modes
      <4>4. \/ pc' = "ended"
            \/ UNCHANGED <<calls, step, handled, pc>>
        <5>1. ~CreateParts /\ ~Checkpoint /\ ~Prepare /\ ~StepLimit /\ ~StepCreate /\ ~BuildContext
              /\ ~StreamFails /\ pc # "stream"
          BY <4>1 DEF CreateParts, Checkpoint, Prepare, StepLimit, StepCreate, BuildContext, StreamFails
        <5>2. ~Persist
          <6>1. Len([i \in 1 .. Len(calls[step]) |-> <<step, i>>]) = Len(calls[step])
            BY <1>a, <4>1, CallsShape DEF PhaseInv
          <6>2. QED
            BY <4>2, <4>3, <6>1 DEF Persist
        <5>3. \A i \in 1 .. MaxCalls : ~ConcurrentSave(i) /\ ~AsyncLaunch(i)
          BY <4>2 DEF ConcurrentSave, ConcurrentPhase, AsyncLaunch
        <5>4. \A i \in 1 .. MaxCalls : SyncSave(i) => pc' = "ended"
          BY <4>1 DEF SyncSave, AddResult, Succeeds, Abort
        <5>5. QED
          BY <5>1, <5>2, <5>3, <5>4, LoopSteps DEF loopVars
      <4>5. QED
        BY <4>1, <4>2, <4>4 DEF Of
    <3>2. QED
      BY <3>0, <3>1
  <2>4. \A c, d \in late : Mode(c)' = "sync" /\ Mode(d)' = "sync" => c = d
    BY <1>a, <2>2 DEF LateInv
  <2>5. \A d \in late : Mode(d)' = "sync" => Mode(d) = "sync"
    BY <2>2
  <2>6. QED
    BY <1>3, <2>1, <2>2, <2>3, <2>4, <2>5 DEF LateInv
<1>4. QED
  BY <1>1, <1>2, <1>3, LateSteps, Zenon

(* Permits.                                                                *)

LEMMA CallsFinite ==
  /\ IsFiniteSet(CallIds)
  /\ \A S \in SUBSET CallIds : IsFiniteSet(S) /\ Cardinality(S) \in Nat
<1>1. IsFiniteSet(Steps) /\ IsFiniteSet(1 .. MaxCalls)
  BY ConstantTypes, FS_Interval DEF Steps
<1>2. IsFiniteSet(CallIds)
  BY <1>1, FS_Product DEF CallIds
<1>3. ASSUME NEW S \in SUBSET CallIds PROVE IsFiniteSet(S) /\ Cardinality(S) \in Nat
  BY <1>2, FS_Subset, FS_CardinalityType
<1>4. QED
  BY <1>2, <1>3

Acquires(c) ==
    /\ ~closed /\ HasPermit
    /\ tool' = [tool EXCEPT ![c] = "granted"]
    /\ UNCHANGED <<calls, saving, late, closed>>

(* Only Acquire gives a permit, and after a stop nothing is waiting to be  *)
(* started that was not.                                                   *)
NoneTaken ==
    /\ Holders' \subseteq Holders
    /\ closed => (Waiting \cup LateOthers)' \subseteq Waiting \cup LateOthers

LEMMA PermitSteps ==
  ASSUME Inv, [Next]_vars
  PROVE  NoneTaken \/ \E c \in CallIds : Acquires(c)
<1>a. /\ TypeOK /\ PhaseInv /\ ToolInv /\ LateInv /\ late \subseteq CallIds /\ saving \subseteq CallIds
      /\ tool \in [CallIds -> {"idle", "queued", "granted", "announced", "running",
                              "complete", "error", "denied"}]
  BY Zenon DEF Inv, TypeOK
<1>1. ASSUME \A c \in CallsMade : Mode(c)' = Mode(c),
             UNCHANGED <<tool, saving, late>>
      PROVE  NoneTaken
  <2>1. \A c \in CallIds : tool[c] \in {"granted", "announced", "running"} \/ c \in saving \/ c \in late
                           => Mode(c)' = Mode(c)
    BY <1>a, <1>1 DEF ToolInv, CallInv, LateInv
  <2>2. QED
    BY <1>a, <1>1, <2>1 DEF NoneTaken, Holders, Waiting, LateOthers
<1>2. CASE Aside \/ Persist
  BY <1>1, <1>2 DEF Aside, Persist, Mode, toolVars
<1>3. ASSUME pc = "stream", NEW cs \in BoundedSeq(Modes, CallLimit[step]), StreamEnds(cs)
      PROVE  NoneTaken
  BY <1>a, <1>1, <1>3, ModeStays DEF StreamEnds, toolVars
<1>4. ASSUME UNCHANGED <<calls, saving, late>>, NEW c \in CallIds, NEW s, tool' = [tool EXCEPT ![c] = s],
             \/ s \notin {"granted", "announced", "running"}
             \/ s = "announced" /\ (tool[c] = "granted" \/ Mode(c) = "sync")
      PROVE  NoneTaken
  <2>1. \A d \in CallIds : Mode(d)' = Mode(d)
    BY <1>4 DEF Mode
  <2>2. tool'[c] = s /\ \A d \in CallIds : d # c => tool'[d] = tool[d]
    BY <1>a, <1>4
  <2>3. Holders' \subseteq Holders /\ Waiting' \subseteq Waiting /\ LateOthers' = LateOthers
    BY <1>a, <1>4, <2>1, <2>2 DEF Holders, Waiting, LateOthers
  <2>4. QED
    BY <2>3 DEF NoneTaken
<1>5. ASSUME NEW c \in CallIds, tool' = [tool EXCEPT ![c] = "running"],
             tool[c] \in {"granted", "announced"}, UNCHANGED <<calls, saving, closed>>,
             late' = IF closed THEN late \cup {c} ELSE late
      PROVE  NoneTaken
  <2>1. \A d \in CallIds : Mode(d)' = Mode(d)
    BY <1>5 DEF Mode
  <2>2. tool'[c] = "running" /\ \A d \in CallIds : d # c => tool'[d] = tool[d]
    BY <1>a, <1>5
  <2>3. Holders' \subseteq Holders /\ Waiting' \subseteq Waiting
    BY <1>a, <1>5, <2>1, <2>2 DEF Holders, Waiting
  <2>4. LateOthers' \subseteq Waiting \cup LateOthers
    BY <1>a, <1>5, <2>1 DEF Waiting, LateOthers
  <2>5. QED
    BY <2>3, <2>4 DEF NoneTaken
<1>6. ASSUME NEW k \in 1 .. MaxCalls, ToolCall(k)
      PROVE  NoneTaken \/ \E c \in CallIds : Acquires(c)
  <2>. DEFINE c == <<step, k>>
  <2>0. c \in CallIds /\ (k \in Of("sync") => Mode(c) = "sync")
    <3>1. pc = "tools"
      BY <1>6 DEF ToolCall, SyncAnnounce, ToolStart, ToolReturn, SyncSave, ConcurrentPhase,
                  ConcurrentAcquire, ConcurrentAnnounce, ConcurrentDenied, ConcurrentSave, AsyncLaunch
    <3>2. QED
      BY <1>a, <3>1 DEF PhaseInv, CallIds, Of, Mode
  <2>1. CASE SyncSave(k) \/ ConcurrentSave(k)
    BY <1>1, <2>1 DEF SyncSave, ConcurrentSave, Mode, toolVars
  <2>2. CASE SyncAnnounce(k)
    BY <1>4, <2>0, <2>2 DEF SyncAnnounce
  <2>3. CASE ToolStart(k)
    BY <1>5, <2>0, <2>3 DEF ToolStart
  <2>4. CASE ToolReturn(k)
    <3>1. PICK result \in {"complete", "error"} : tool' = [tool EXCEPT ![c] = result]
      BY <2>4 DEF ToolReturn
    <3>2. UNCHANGED <<calls, saving, late>>
      BY <2>4 DEF ToolReturn
    <3>3. QED
      BY <1>4, <2>0, <3>1, <3>2
  <2>5. CASE ConcurrentAcquire(k)
    BY <2>0, <2>5 DEF ConcurrentAcquire, Acquires
  <2>6. CASE ConcurrentAnnounce(k)
    BY <1>4, <2>0, <2>6 DEF ConcurrentAnnounce
  <2>7. CASE ConcurrentDenied(k) \/ AsyncLaunch(k)
    BY <1>4, <2>0, <2>7 DEF ConcurrentDenied, AsyncLaunch
  <2>. HIDE DEF c
  <2>8. QED
    BY <1>6, <2>1, <2>2, <2>3, <2>4, <2>5, <2>6, <2>7 DEF ToolCall
<1>7. ASSUME NEW c \in CallIds, AsyncTool(c)
      PROVE  NoneTaken \/ \E d \in CallIds : Acquires(d)
  <2>1. CASE AsyncAcquire(c)
    BY <2>1 DEF AsyncAcquire, Acquires
  <2>2. CASE AsyncStart(c)
    BY <1>5, <2>2 DEF AsyncStart
  <2>3. CASE AsyncDenied(c) \/ AsyncPanic(c)
    BY <1>4, <2>3 DEF AsyncDenied, AsyncPanic
  <2>4. CASE AsyncReturn(c)
    <3>1. PICK result \in {"complete", "error"} : tool' = [tool EXCEPT ![c] = result]
      BY <2>4 DEF AsyncReturn
    <3>2. /\ UNCHANGED <<calls, late>> /\ saving' = saving \cup {c} /\ c \in Holders
      BY <2>4 DEF AsyncReturn, Holders
    <3>3. \A d \in CallIds : Mode(d)' = Mode(d) /\ (d # c => tool'[d] = tool[d])
      BY <1>a, <3>1, <3>2 DEF Mode
    <3>4. tool'[c] = result
      BY <1>a, <3>1
    <3>5. Holders' \subseteq Holders
      BY <1>a, <3>2, <3>3, <3>4 DEF Holders
    <3>6. Waiting' \subseteq Waiting /\ LateOthers' = LateOthers
      BY <1>a, <3>2, <3>3, <3>4 DEF Waiting, LateOthers
    <3>7. QED
      BY <3>5, <3>6 DEF NoneTaken
  <2>5. CASE AsyncSave(c)
    <3>1. UNCHANGED <<calls, tool, late>> /\ saving' \subseteq saving
      BY <2>5 DEF AsyncSave
    <3>2. \A d \in CallIds : Mode(d)' = Mode(d)
      BY <3>1 DEF Mode
    <3>3. QED
      BY <1>a, <3>1, <3>2 DEF NoneTaken, Holders, Waiting, LateOthers
  <2>6. QED
    BY <1>7, <2>1, <2>2, <2>3, <2>4, <2>5, Zenon DEF AsyncTool
<1>8. QED
  BY <1>2, <1>3, <1>6, <1>7, ToolSteps, Zenon

LEMMA CloseSteps ==
  ASSUME [Next]_vars, ~closed, closed'
  PROVE  UNCHANGED <<tool, calls, late>>
<1>1. ~Loop
  <2>1. ASSUME Prepare \/ StepLimit \/ StepCreate \/ BuildContext \/ CreateParts \/ Checkpoint
               \/ Persist \/ Streaming
        PROVE  FALSE
    BY <2>1, Zenon DEF Prepare, StepLimit, StepCreate, BuildContext, CreateParts, Checkpoint, Persist,
               Streaming, TextDelta, ReasoningDelta, StreamFails, StreamEnds
  <2>2. ASSUME NEW k \in 1 .. MaxCalls, ToolCall(k)
        PROVE  FALSE
    BY <2>2, Zenon DEF ToolCall, SyncAnnounce, ToolStart, ToolReturn, SyncSave, ConcurrentAcquire,
               ConcurrentAnnounce, ConcurrentDenied, ConcurrentSave, AsyncLaunch
  <2>3. QED
    BY <2>1, <2>2, Zenon DEF Loop
<1>2. ASSUME NEW c \in CallIds, AsyncTool(c)
      PROVE  FALSE
  BY <1>2, Zenon DEF AsyncTool, AsyncAcquire, AsyncStart, AsyncDenied, AsyncReturn, AsyncPanic, AsyncSave
<1>3. ~UNCHANGED vars
  BY Zenon DEF vars
<1>4. Close
  BY <1>1, <1>2, <1>3, Zenon DEF Next
<1>5. QED
  BY <1>4, Zenon DEF Close, toolVars

LEMMA PermitNext ==
  ASSUME Inv, [Next]_vars
  PROVE  PermitInv'
<1>a. /\ TypeOK /\ LateInv /\ PermitInv /\ late \subseteq CallIds /\ saving \subseteq CallIds
      /\ TypeOK' /\ LateInv' /\ Concurrency \in Nat
  BY TypeNext, LateNext, ConstantTypes DEF Inv, TypeOK
<1>b. late' \subseteq CallIds /\ saving' \subseteq CallIds
  BY <1>a DEF TypeOK
<1>1. /\ Holders \in SUBSET CallIds /\ Holders' \in SUBSET CallIds
      /\ Waiting \cup LateOthers \in SUBSET CallIds /\ (Waiting \cup LateOthers)' \in SUBSET CallIds
  BY <1>a, <1>b DEF Holders, Waiting, LateOthers
<1>2. ASSUME NEW S \in SUBSET CallIds, NEW T \in SUBSET S, Cardinality(S) <= Concurrency
      PROVE  Cardinality(T) <= Concurrency
  <2>1. /\ Cardinality(T) <= Cardinality(S) /\ Cardinality(T) \in Nat /\ Cardinality(S) \in Nat
    BY CallsFinite, FS_Subset
  <2>2. QED
    BY <1>a, <1>2, <2>1
<1>3. ASSUME NEW c \in CallIds, Acquires(c)
      PROVE  PermitInv'
  <2>1. Holders' \in SUBSET (Holders \cup {c})
    BY <1>a, <1>3 DEF Acquires, Holders, Mode, TypeOK
  <2>2. Cardinality(Holders \cup {c}) <= Concurrency
    <3>1. IsFiniteSet(Holders) /\ Cardinality(Holders) \in Nat /\ Cardinality(Holders) < Concurrency
      BY <1>1, <1>3, CallsFinite DEF Acquires, HasPermit
    <3>2. Cardinality(Holders \cup {c}) \in {Cardinality(Holders), Cardinality(Holders) + 1}
      BY <3>1, FS_AddElement
    <3>3. QED
      BY <1>a, <3>1, <3>2
  <2>3. Holders \cup {c} \in SUBSET CallIds
    BY <1>1
  <2>4. Cardinality(Holders') <= Concurrency
    BY <1>2, <2>1, <2>2, <2>3
  <2>5. ~closed'
    BY <1>3 DEF Acquires
  <2>6. QED
    BY <2>4, <2>5 DEF PermitInv
<1>4. ASSUME NoneTaken
      PROVE  PermitInv'
  <2>1. Cardinality(Holders') <= Concurrency
    BY <1>1, <1>2, <1>4, <1>a DEF NoneTaken, PermitInv
  <2>2. CASE closed
    <3>1. (Waiting \cup LateOthers)' \in SUBSET (Waiting \cup LateOthers)
      BY <1>4, <2>2 DEF NoneTaken
    <3>2. Cardinality((Waiting \cup LateOthers)') <= Concurrency
      BY <1>1, <1>2, <1>a, <2>2, <3>1 DEF PermitInv
    <3>3. QED
      BY <2>1, <3>2 DEF PermitInv
  <2>3. CASE ~closed /\ closed'
    <3>1. UNCHANGED <<tool, calls, late>> /\ late = {}
      BY <1>a, <2>3, CloseSteps DEF LateInv
    <3>2. (Waiting \cup LateOthers)' \in SUBSET Holders
      BY <3>1 DEF Waiting, LateOthers, Holders, Mode
    <3>3. Cardinality((Waiting \cup LateOthers)') <= Concurrency
      BY <1>1, <1>2, <1>a, <3>2 DEF PermitInv
    <3>4. QED
      BY <2>1, <3>3 DEF PermitInv
  <2>4. CASE ~closed'
    BY <2>1, <2>4 DEF PermitInv
  <2>5. QED
    BY <2>2, <2>3, <2>4
<1>5. QED
  BY <1>3, <1>4, PermitSteps

-----------------------------------------------------------------------------
(* What the client has on its screen.                                      *)

InTools == {"tools", "checkpoint"}

(* A step after which no more calls are on the screen than before.         *)
ScreenStays ==
    /\ UNCHANGED <<calls, partIndex>>
    /\ pc' \in InTools => pc \in InTools /\ UNCHANGED <<reply, step>>
    /\ step' = step \/ (step' = step + 1 /\ pc = "tools")
    /\ outcome' # "error" => outcome # "error"

LEMMA ScreenSteps ==
  ASSUME [Next]_vars, PhaseInv
  PROVE  \/ ScreenStays
         \/ pc = "stream" /\ \E cs \in BoundedSeq(Modes, CallLimit[step]) : StreamEnds(cs)
         \/ CreateParts
<1>1. CASE Prepare \/ StepLimit \/ StepCreate \/ BuildContext \/ StreamFails
  BY <1>1, PhaseInv DEF ScreenStays, InTools, PhaseInv, Prepare, StepLimit, StepCreate, BuildContext,
                        StreamFails, Abort
<1>2. CASE TextDelta \/ ReasoningDelta
  BY <1>2 DEF ScreenStays, InTools, TextDelta, ReasoningDelta, loopVars
<1>3. CASE Checkpoint
  BY <1>3 DEF ScreenStays, InTools, Checkpoint, replyVars
<1>4. CASE Persist
  BY <1>4 DEF ScreenStays, InTools, Persist, Abort, PhaseInv
<1>5. ASSUME NEW k \in 1 .. MaxCalls, ToolCall(k)
      PROVE  ScreenStays
  BY <1>5 DEF ScreenStays, InTools, ToolCall, SyncAnnounce, ToolStart, ToolReturn, SyncSave, ConcurrentAcquire, ConcurrentAnnounce,
              ConcurrentDenied, ConcurrentSave, ConcurrentPhase, AsyncLaunch, loopVars, replyVars,
              Abort, PhaseInv
<1>6. ASSUME NEW c \in CallIds, AsyncTool(c)
      PROVE  ScreenStays
  BY <1>6 DEF ScreenStays, InTools, AsyncTool, AsyncAcquire, AsyncStart, AsyncDenied, AsyncReturn, AsyncPanic,
              AsyncSave, loopVars, replyVars
<1>7. CASE Close
  BY <1>7 DEF ScreenStays, InTools, Close, loopVars, replyVars
<1>8. CASE UNCHANGED vars
  BY <1>8 DEF ScreenStays, InTools, vars, loopVars, replyVars
<1>9. QED
  BY <1>1, <1>2, <1>3, <1>4, <1>5, <1>6, <1>7, <1>8, Zenon DEF Next, Loop, Streaming

LEMMA ScreenShrinks ==
  ASSUME TypeOK, ScreenStays
  PROVE  /\ OnScreen' \subseteq OnScreen
         /\ \A c \in OnScreen : Mode(c)' = Mode(c)
<1>1. step \in Int
  BY DEF TypeOK
<1>2. CallsMade' = CallsMade
  BY DEF ScreenStays, CallsMade
<1>3. ASSUME NEW c \in OnScreen'
      PROVE  c \in OnScreen
  <2>1. c \in CallsMade /\ c[1] \in Int /\ (c[1] < step' \/ pc' \in InTools)
    BY <1>2, <1>3 DEF OnScreen, InTools, CallsMade, CallIds, Steps
  <2>2. QED
    BY <1>1, <2>1 DEF ScreenStays, OnScreen, InTools
<1>4. QED
  BY <1>3 DEF ScreenStays, Mode

(* The calls made so far are those of the steps so far.                    *)
LEMMA CallsMadeSoFar ==
  ASSUME TypeOK, PhaseInv, NEW c \in CallsMade
  PROVE  /\ c \in CallIds /\ c = <<c[1], c[2]>> /\ c[1] \in Steps /\ c[2] \in 1 .. Len(calls[c[1]])
         /\ c[1] <= step
         /\ pc \in {"prepare", "top", "context", "stream"} => c[1] < step
         /\ outcome = "done" => c[1] < step
<1>1. c \in CallIds /\ c = <<c[1], c[2]>> /\ c[1] \in Steps /\ c[2] \in 1 .. Len(calls[c[1]])
  <2>1. c \in CallIds /\ c[1] \in Steps /\ c[2] \in 1 .. MaxCalls /\ c[2] <= Len(calls[c[1]])
        /\ c = <<c[1], c[2]>>
    BY DEF CallsMade, CallIds
  <2>2. QED
    BY <2>1, ConstantTypes, CallsShape
<1>2. calls[c[1]] # <<>>
  <2>1. Len(calls[c[1]]) # 0
    BY <1>1, CallsShape
  <2>2. QED
    BY <2>1
<1>3. c[1] \in Int /\ step \in Int
  BY <1>1, ConstantTypes DEF Steps, TypeOK
<1>4. QED
  BY <1>1, <1>2, <1>3 DEF PhaseInv

(* The calls of a reply are not on the screen when its stream ends.        *)
LEMMA StreamEndsScreen ==
  ASSUME TypeOK, PhaseInv, pc = "stream", NEW cs, StreamEnds(cs)
  PROVE  /\ OnScreen' \subseteq OnScreen
         /\ \A c \in OnScreen' : c[1] < step
<1>1. /\ step \in Steps /\ calls' = [calls EXCEPT ![step] = cs]
      /\ UNCHANGED <<step, partIndex>> /\ pc' = IF cs = <<>> THEN "tools" ELSE "calls"
      /\ calls \in [Steps -> BoundedSeq(Modes, MaxCalls)]
  BY DEF StreamEnds, PhaseInv, TypeOK
<1>2. pc' \in InTools => calls'[step'] = <<>>
  BY <1>1 DEF InTools
<1>3. ASSUME NEW c \in OnScreen'
      PROVE  c \in OnScreen /\ c[1] < step
  <2>1. c \in CallIds /\ c[2] <= Len(calls'[c[1]]) /\ (c[1] < step \/ pc' \in InTools)
    BY <1>1, <1>3 DEF OnScreen, CallsMade, InTools
  <2>2. c[1] # step
    <3>1. SUFFICES ASSUME c[1] = step PROVE FALSE
      OBVIOUS
    <3>2. ~(c[1] < step) /\ c[2] > 0
      BY <2>1, <3>1, ConstantTypes DEF CallIds, Steps
    <3>3. calls'[c[1]] = <<>>
      BY <1>1, <1>2, <2>1, <3>1, <3>2
    <3>4. Len(<<>>) = 0
      OBVIOUS
    <3>5. c[2] <= 0 /\ c[2] \in Int
      BY <2>1, <3>3, <3>4, ConstantTypes DEF CallIds
    <3>6. QED
      BY <3>2, <3>5
  <2>3. c \in CallsMade
    BY <1>1, <2>1, <2>2 DEF CallsMade, CallIds
  <2>4. c[1] < step
    BY <2>3, CallsMadeSoFar
  <2>5. QED
    BY <2>3, <2>4 DEF OnScreen
<1>4. QED
  BY <1>3

LEMMA IndexNext ==
  ASSUME Inv, [Next]_vars
  PROVE  IndexInv'
<1>a. TypeOK /\ PhaseInv /\ IndexInv
  BY Zenon DEF Inv
<1>1. CASE ScreenStays
  <2>1. partIndex' = partIndex /\ calls' = calls
    BY <1>1 DEF ScreenStays
  <2>2. \A c, d \in OnScreen' : c[1] = d[1] /\ c # d => partIndex'[c] # partIndex'[d]
    BY <1>a, <1>1, <2>1, ScreenShrinks DEF IndexInv
  <2>3. CASE pc' \in InTools
    <3>1. pc \in InTools /\ step' = step /\ reply' = reply
      BY <1>1, <2>3 DEF ScreenStays
    <3>2. \A k : CallIndex(k)' = CallIndex(k)
      BY <3>1 DEF CallIndex
    <3>3. QED
      BY <1>a, <2>1, <2>2, <3>1, <3>2 DEF IndexInv, InTools
  <2>4. CASE pc' \notin InTools
    BY <2>2, <2>4 DEF IndexInv, InTools
  <2>5. QED
    BY <2>3, <2>4
<1>2. ASSUME pc = "stream", NEW cs \in BoundedSeq(Modes, CallLimit[step]), StreamEnds(cs)
      PROVE  IndexInv'
  <2>1. /\ step \in Steps /\ calls' = [calls EXCEPT ![step] = cs]
        /\ UNCHANGED <<step, partIndex>> /\ pc' = IF cs = <<>> THEN "tools" ELSE "calls"
        /\ calls \in [Steps -> BoundedSeq(Modes, MaxCalls)]
    BY <1>a, <1>2 DEF StreamEnds, PhaseInv, TypeOK
  <2>2. pc' \in InTools => calls'[step'] = <<>>
    BY <2>1 DEF InTools
  <2>3. OnScreen' \subseteq OnScreen
    BY <1>a, <1>2, StreamEndsScreen
  <2>4. QED
    BY <1>a, <2>1, <2>2, <2>3 DEF IndexInv, InTools
<1>3. CASE CreateParts
  <2>1. /\ step \in Steps /\ UNCHANGED <<step, calls, reply>> /\ pc = "calls"
        /\ partIndex' = [c \in CallIds |->
                             IF c[1] = step /\ c[2] \in 1 .. Len(calls[step])
                             THEN CallIndex(c[2]) ELSE partIndex[c]]
    BY <1>a, <1>3 DEF CreateParts, PhaseInv, replyVars
  <2>2. \A k \in 1 .. Len(calls[step]) : partIndex'[<<step, k>>] = CallIndex(k)
    BY <1>a, <2>1, CallsShape
  <2>3. \A k : CallIndex(k)' = CallIndex(k)
    BY <2>1 DEF CallIndex
  <2>4. CallsMade' = CallsMade
    BY <2>1 DEF CallsMade
  <2>5. ASSUME NEW c \in CallsMade, NEW d \in CallsMade, c[1] = d[1], c # d
        PROVE  partIndex'[c] # partIndex'[d]
    <3>1. /\ c = <<c[1], c[2]>> /\ c[2] \in 1 .. Len(calls[c[1]]) /\ c \in CallIds
          /\ d = <<d[1], d[2]>> /\ d[2] \in 1 .. Len(calls[d[1]]) /\ d \in CallIds
          /\ c[1] \in Steps /\ c[1] <= step
      BY <1>a, CallsMadeSoFar
    <3>2. c[2] # d[2]
      BY <2>5, <3>1
    <3>3. CASE c[1] = step
      <4>1. partIndex'[c] = CallIndex(c[2]) /\ partIndex'[d] = CallIndex(d[2])
        BY <2>1, <2>5, <3>1, <3>3
      <4>2. /\ CallIndex(c[2]) = Texts(calls[step]) + c[2] - 1
            /\ CallIndex(d[2]) = Texts(calls[step]) + d[2] - 1
            /\ Texts(calls[step]) \in Nat
        BY <1>a, <2>1, <2>5, <3>1, <3>3, CallIndexShape, CurrentPartsShape
      <4>3. c[2] \in Int /\ d[2] \in Int
        BY <3>1, ConstantTypes DEF CallIds
      <4>. DEFINE T == Texts(calls[step])
      <4>. HIDE DEF T
      <4>4. T + c[2] - 1 # T + d[2] - 1
        <5>1. T \in Int
          BY <4>2 DEF T
        <5>2. QED
          BY <3>2, <4>3, <5>1
      <4>5. QED
        BY <4>1, <4>2, <4>4, Zenon DEF T
    <3>4. CASE c[1] # step
      <4>1. partIndex'[c] = partIndex[c] /\ partIndex'[d] = partIndex[d]
        BY <2>1, <2>5, <3>1, <3>4
      <4>2. c[1] < step
        <5>1. c[1] \in Int /\ step \in Int
          BY <1>a, <3>1, ConstantTypes DEF Steps, TypeOK
        <5>2. QED
          BY <3>1, <3>4, <5>1
      <4>3. c \in OnScreen /\ d \in OnScreen
        <5>1. d[1] < step
          BY <2>5, <4>2
        <5>2. QED
          BY <4>2, <5>1 DEF OnScreen
      <4>4. partIndex[c] # partIndex[d]
        BY <1>a, <2>5, <4>3, Zenon DEF IndexInv
      <4>5. QED
        BY <4>1, <4>4
    <3>5. QED
      BY <3>3, <3>4
  <2>6. QED
    BY <2>1, <2>2, <2>3, <2>4, <2>5 DEF IndexInv, OnScreen
<1>4. QED
  BY <1>a, <1>1, <1>2, <1>3, ScreenSteps

(* Any call whose tool is not idle is on the screen, unless the run failed. *)
LEMMA ActiveOnScreen ==
  ASSUME TypeOK, PhaseInv, NEW c \in CallIds, CallInv(c), tool[c] # "idle", outcome # "error"
  PROVE  c \in OnScreen
<1>1. c \in CallsMade
  BY DEF CallInv
<1>2. c[1] <= step /\ c[1] \in Int /\ step \in Int
  BY <1>1, CallsMadeSoFar, ConstantTypes DEF Steps, TypeOK
<1>3. CASE c[1] < step
  BY <1>1, <1>3 DEF OnScreen
<1>4. CASE c[1] = step
  <2>1. pc \notin {"prepare", "top", "context", "stream"} /\ outcome # "done"
    BY <1>1, <1>2, <1>4, CallsMadeSoFar
  <2>2. pc # "calls"
    BY <1>4, Zenon DEF CallInv
  <2>3. pc # "ended"
    <3>1. outcome \in {"none", "done", "limit", "error"}
      BY Zenon DEF TypeOK
    <3>2. step \in Steps
      BY <1>1, <1>4, CallsMadeSoFar
    <3>3. QED
      BY <2>1, <3>1, <3>2 DEF PhaseInv
  <2>4. pc \in InTools
    BY <2>1, <2>2, <2>3 DEF TypeOK, InTools
  <2>5. QED
    BY <1>1, <2>4 DEF OnScreen, InTools
<1>5. QED
  BY <1>2, <1>3, <1>4

(* An event about a call changes that call on the screen and no other.     *)
LEMMA ShowCallShown ==
  ASSUME TypeOK, PhaseInv, IndexInv, ~closed, NEW c \in OnScreen, NEW d \in OnScreen, NEW state,
         ShowCall(c, state)
  PROVE  shown'[d[1]][partIndex[d]] = IF d = c THEN [kind |-> "call", state |-> state]
                                      ELSE shown[d[1]][partIndex[d]]
<1>1. c \in CallIds /\ d \in CallIds
  BY DEF OnScreen, CallsMade
<1>2. /\ c[1] \in Steps /\ d[1] \in Steps /\ partIndex[c] \in Indexes /\ partIndex[d] \in Indexes
  BY <1>1 DEF CallIds, TypeOK
<1>. DEFINE new == [kind |-> "call", state |-> state]
<1>3. shown' = [shown EXCEPT ![c[1]][partIndex[c]] = new]
  BY DEF ShowCall, Sent
<1>4. shown \in [Steps -> [Indexes -> {Absent} \cup [kind : Kinds, state : PartStates]]]
  BY Zenon DEF TypeOK
<1>5. c # d /\ c[1] = d[1] => partIndex[c] # partIndex[d]
  BY Zenon DEF IndexInv
<1>. HIDE DEF new
<1>6. shown'[d[1]][partIndex[d]] =
         IF d[1] = c[1] /\ partIndex[d] = partIndex[c] THEN new ELSE shown[d[1]][partIndex[d]]
  BY <1>2, <1>3, <1>4
<1>7. QED
  BY <1>5, <1>6 DEF new

(* The screen stays right when an event tells what the tool has become.    *)
LEMMA ShownFrame ==
  ASSUME TypeOK, PhaseInv, IndexInv, ~closed, ScreenStays, NEW c \in OnScreen, NEW d \in OnScreen,
         SeenRight(d), NEW state, ShowCall(c, state),
         NEW new, tool' = [tool EXCEPT ![c] = new],
         Displayed(new) = state \/ Mode(c) = "async"
  PROVE  SeenRight(d)'
<1>1. c \in CallIds /\ d \in CallIds
  BY DEF OnScreen, CallsMade
<1>2. partIndex'[d] = partIndex[d] /\ Mode(d)' = Mode(d)
  BY ScreenShrinks DEF ScreenStays
<1>3. shown'[d[1]][partIndex'[d]] = IF d = c THEN [kind |-> "call", state |-> state]
                                    ELSE shown[d[1]][partIndex[d]]
  BY <1>2, ShowCallShown
<1>4. CASE d = c
  <2>1. Display(d)' = Displayed(new)
    BY <1>1, <1>4 DEF Display, TypeOK
  <2>2. QED
    BY <1>2, <1>3, <1>4, <2>1 DEF SeenRight
<1>5. CASE d # c
  <2>1. Display(d)' = Display(d)
    BY <1>1, <1>5 DEF Display, TypeOK
  <2>2. QED
    BY <1>2, <1>3, <1>5, <2>1 DEF SeenRight
<1>6. QED
  BY <1>4, <1>5

(* Steps without an event about a call.                                    *)
LEMMA ShownUnmoved ==
  ASSUME TypeOK, ScreenStays, NEW d \in OnScreen, SeenRight(d),
         shown'[d[1]] = shown[d[1]], Display(d)' = Display(d) \/ Mode(d) = "async"
  PROVE  SeenRight(d)'
<1>1. partIndex'[d] = partIndex[d] /\ Mode(d)' = Mode(d)
  BY ScreenShrinks DEF ScreenStays
<1>2. QED
  BY <1>1 DEF SeenRight, Display

LEMMA ShownNext ==
  ASSUME Inv, [Next]_vars
  PROVE  ShownInv'
<1>a. TypeOK /\ PhaseInv /\ IndexInv /\ ShownInv /\ \A c \in CallIds : CallInv(c)
  BY Zenon DEF Inv, ToolInv
<1>. SUFFICES ASSUME ~closed', outcome' # "error", NEW d \in OnScreen'
              PROVE  SeenRight(d)'
  BY Zenon DEF ShownInv
<1>b. ~closed
  BY ClosedStays
<1>1. ASSUME NEW cs, StreamEnds(cs), pc = "stream"
      PROVE  SeenRight(d)'
  <2>1. step \in Steps /\ tool' = tool /\ \E new : shown' = [shown EXCEPT ![step] = new]
    BY <1>a, <1>b, <1>1 DEF StreamEnds, Sent, PhaseInv, toolVars
  <2>2. d \in OnScreen /\ d[1] < step
    BY <1>a, <1>1, StreamEndsScreen
  <2>3. d[1] \in Int /\ d[1] \in Steps /\ d[1] # step
    BY <2>1, <2>2, ConstantTypes DEF OnScreen, CallsMade, CallIds, Steps
  <2>4. shown'[d[1]] = shown[d[1]] /\ calls'[d[1]] = calls[d[1]] /\ partIndex' = partIndex
    BY <1>a, <1>1, <2>1, <2>3 DEF TypeOK, StreamEnds
  <2>5. SeenRight(d)
    BY <1>a, <1>b, <1>1, <2>2 DEF ShownInv, StreamEnds
  <2>6. QED
    BY <2>1, <2>4, <2>5 DEF SeenRight, Display, Displayed, Mode
<1>2. CASE ScreenStays
  <2>1. /\ outcome # "error" /\ d \in OnScreen /\ d \in CallsMade /\ SeenRight(d)
        /\ d \in CallIds
    BY <1>a, <1>b, <1>2, ScreenShrinks DEF ScreenStays, ShownInv, OnScreen, CallsMade
  <2>0. tool'[d] = tool[d] => Display(d)' = Display(d)
    BY DEF Display
  <2>2. UNCHANGED <<shown, tool>> => SeenRight(d)'
    BY <1>a, <1>2, <2>0, <2>1, ShownUnmoved
  <2>3. Prepare \/ StepLimit \/ StepCreate \/ BuildContext \/ StreamFails \/ Checkpoint \/ Persist
        \/ Close \/ UNCHANGED vars => UNCHANGED <<shown, tool>>
    BY Zenon DEF Prepare, StepLimit, StepCreate, BuildContext, StreamFails, Checkpoint, Persist,
                 Close, vars, toolVars
  <2>4. ASSUME TextDelta \/ ReasoningDelta
        PROVE  SeenRight(d)'
    <3>1. pc = "stream" /\ tool' = tool
      BY <2>4 DEF TextDelta, ReasoningDelta, toolVars
    <3>2. shown' = shown \/ \E i, part : shown' = [shown EXCEPT ![step][i] = part]
      BY <1>b, <2>4, Zenon DEF TextDelta, ReasoningDelta, ShowPart, Sent
    <3>3. d[1] < step /\ d[1] \in Int /\ d[1] \in Steps
      BY <1>a, <2>1, <3>1, CallsMadeSoFar, ConstantTypes DEF Steps
    <3>4. shown'[d[1]] = shown[d[1]]
      BY <1>a, <3>2, <3>3 DEF TypeOK
    <3>5. QED
      BY <1>a, <1>2, <2>0, <2>1, <3>1, <3>4, ShownUnmoved
  <2>5. ASSUME NEW k \in 1 .. MaxCalls, ToolCall(k)
        PROVE  SeenRight(d)'
    <3>. DEFINE c == <<step, k>>
    <3>1. SyncSave(k) \/ ConcurrentSave(k) => UNCHANGED <<shown, tool>>
      BY Zenon DEF SyncSave, ConcurrentSave, toolVars
    <3>2. ~ConcurrentDenied(k)
      BY <1>b DEF ConcurrentDenied
    <3>3. CASE SyncAnnounce(k) \/ ToolReturn(k) \/ ConcurrentAnnounce(k) \/ AsyncLaunch(k)
      <4>1. c \in CallsMade /\ (AsyncLaunch(k) => Mode(c) = "async") /\ pc = "tools"
        BY <1>a, <3>3, OfShape DEF SyncAnnounce, ToolReturn, ConcurrentAnnounce, ConcurrentPhase,
                                   AsyncLaunch, Modes
      <4>2. c \in OnScreen
        BY <4>1 DEF OnScreen
      <4>3. \E state, new : /\ ShowCall(c, state) /\ tool' = [tool EXCEPT ![c] = new]
                            /\ (Displayed(new) = state \/ Mode(c) = "async")
        BY <3>3, <4>1 DEF SyncAnnounce, ToolReturn, ConcurrentAnnounce, AsyncLaunch, Displayed
      <4>4. QED
        BY <1>a, <1>b, <1>2, <2>1, <4>2, <4>3, ShownFrame
    <3>4. CASE ToolStart(k) \/ ConcurrentAcquire(k)
      <4>1. /\ shown' = shown
            /\ \E new : tool' = [tool EXCEPT ![c] = new] /\ Displayed(new) = Displayed(tool[c])
        BY <3>4 DEF ToolStart, ConcurrentAcquire, Displayed
      <4>2. Display(d)' = Display(d)
        BY <1>a, <2>1, <4>1 DEF Display, TypeOK
      <4>3. QED
        BY <1>a, <1>2, <2>1, <4>1, <4>2, ShownUnmoved
    <3>5. QED
      BY <2>2, <2>5, <3>1, <3>2, <3>3, <3>4 DEF ToolCall
  <2>6. ASSUME NEW c \in CallIds, AsyncTool(c)
        PROVE  SeenRight(d)'
    <3>1. tool[c] # "idle" /\ Mode(c) = "async" /\ CallInv(c)
      BY <1>a, <2>6 DEF AsyncTool, AsyncAcquire, AsyncStart, AsyncDenied, AsyncReturn, AsyncPanic, AsyncSave,
                        CallInv, Returned
    <3>2. c \in OnScreen
      BY <1>a, <2>1, <3>1, ActiveOnScreen
    <3>3. AsyncSave(c) => UNCHANGED <<shown, tool>>
      BY Zenon DEF AsyncSave
    <3>4. CASE AsyncAcquire(c) \/ AsyncStart(c)
      <4>1. shown' = shown /\ (tool'[d] = tool[d] \/ d = c)
        BY <1>a, <2>1, <3>4 DEF AsyncAcquire, AsyncStart, TypeOK
      <4>2. QED
        BY <1>a, <1>2, <2>0, <2>1, <3>1, <4>1, ShownUnmoved
    <3>5. CASE AsyncDenied(c) \/ AsyncReturn(c) \/ AsyncPanic(c)
      <4>1. \E state, new : ShowCall(c, state) /\ tool' = [tool EXCEPT ![c] = new]
        BY <3>5 DEF AsyncDenied, AsyncReturn, AsyncPanic
      <4>2. QED
        BY <1>a, <1>b, <1>2, <2>1, <3>1, <3>2, <4>1, ShownFrame
    <3>6. QED
      BY <2>2, <2>6, <3>3, <3>4, <3>5 DEF AsyncTool
  <2>7. CASE CreateParts
    BY <1>2, <2>7 DEF CreateParts, ScreenStays, InTools
  <2>8. QED
    BY <1>1, <2>2, <2>3, <2>4, <2>5, <2>6, <2>7, Zenon DEF Next, Loop, Streaming
<1>3. CASE CreateParts
  <2>. DEFINE ks == 1 .. Len(calls[step])
              At == [k \in ks |-> CallIndex(k)]
  <2>1. /\ step \in Steps /\ pc = "calls" /\ UNCHANGED <<step, calls, tool>>
        /\ partIndex' = [c \in CallIds |-> IF c[1] = step /\ c[2] \in ks THEN At[c[2]]
                                           ELSE partIndex[c]]
        /\ shown' = [shown EXCEPT ![step] =
                        [i \in Indexes |-> IF \E k \in ks : At[k] = i
                                           THEN [kind |-> "call", state |-> "pending"]
                                           ELSE shown[step][i]]]
    BY <1>a, <1>b, <1>3 DEF CreateParts, Sent, PhaseInv, toolVars, TypeOK
  <2>2. d \in CallsMade
    BY <2>1 DEF OnScreen, CallsMade
  <2>3. /\ d \in CallIds /\ d = <<d[1], d[2]>> /\ d[1] \in Steps /\ d[2] \in 1 .. Len(calls[d[1]])
        /\ d[1] <= step /\ d[1] \in Int /\ step \in Int
    BY <1>a, <2>2, CallsMadeSoFar, ConstantTypes DEF Steps, TypeOK
  <2>4. CASE d[1] = step
    <3>1. partIndex'[d] = At[d[2]] /\ d[2] \in ks /\ At[d[2]] = CallIndex(d[2])
      BY <2>1, <2>3, <2>4
    <3>2. CallIndex(d[2]) \in Indexes
      BY <1>a, <2>1, <2>3, <2>4, CallIndexShape
    <3>3. shown'[d[1]][partIndex'[d]] = [kind |-> "call", state |-> "pending"]
      BY <1>a, <2>1, <2>3, <2>4, <3>1, <3>2 DEF TypeOK
    <3>4. tool[d] = "idle"
      BY <1>a, <2>1, <2>3, <2>4 DEF CallInv
    <3>5. Display(d)' = "pending"
      BY <2>1, <3>4 DEF Display, Displayed
    <3>6. /\ shown'[d[1]][partIndex'[d]].kind = "call"
          /\ shown'[d[1]][partIndex'[d]].state = "pending"
      BY <3>3
    <3>7. QED
      BY <3>5, <3>6 DEF SeenRight
  <2>5. CASE d[1] # step
    <3>1. partIndex'[d] = partIndex[d] /\ shown'[d[1]] = shown[d[1]]
      BY <1>a, <2>1, <2>3, <2>5 DEF TypeOK
    <3>2. d[1] < step
      BY <2>3, <2>5
    <3>3. SeenRight(d)
      BY <1>a, <1>b, <1>3, <2>2, <3>2 DEF ShownInv, OnScreen, CreateParts
    <3>4. QED
      BY <2>1, <3>1, <3>3 DEF SeenRight, Display, Displayed, Mode
  <2>6. QED
    BY <2>4, <2>5
<1>4. QED
  BY <1>a, <1>1, <1>2, <1>3, ScreenSteps, Zenon

-----------------------------------------------------------------------------
(* What the loop accumulates.                                              *)

(* A tool row is never changed, nor the tool whose result it is.           *)
LEMMA ResultsStay ==
  ASSUME Inv, [Next]_vars, NEW c \in CallIds, results[c] # <<>>
  PROVE  results'[c] = results[c] /\ tool'[c] = tool[c]
<1>a. TypeOK /\ PhaseInv /\ \A d \in CallIds : CallInv(d)
  BY Zenon DEF Inv, ToolInv
<1>b. tool[c] \in {"complete", "error"} /\ CallInv(c)
  BY <1>a DEF CallInv, Returned
<1>1. UNCHANGED <<tool, results>> => results'[c] = results[c] /\ tool'[c] = tool[c]
  OBVIOUS
<1>2. ASSUME NEW k \in 1 .. MaxCalls, ToolCall(k)
      PROVE  results'[c] = results[c] /\ tool'[c] = tool[c]
  <2>1. CASE SyncAnnounce(k) \/ ToolStart(k) \/ ToolReturn(k) \/ ConcurrentAcquire(k) \/ ConcurrentAnnounce(k) \/ ConcurrentDenied(k)
    BY <1>a, <1>b, <2>1 DEF TypeOK, SyncAnnounce, ToolStart, ToolReturn, ConcurrentAcquire, ConcurrentAnnounce, ConcurrentDenied, storeVars
  <2>2. CASE AsyncLaunch(k)
    <3>1. tool[<<step, k>>] = "idle"
      BY <1>a, <2>2, OfShape DEF AsyncLaunch, CallInv, Modes
    <3>2. QED
      BY <1>a, <1>b, <2>2, <3>1 DEF TypeOK, AsyncLaunch, storeVars
  <2>3. CASE SyncSave(k) \/ ConcurrentSave(k)
    <3>1. results[<<step, k>>] = <<>>
      BY <1>a, <2>3, OfShape DEF SyncSave, ConcurrentSave, ConcurrentPhase, CallInv, Modes
    <3>2. results' = results \/ \E content : results' = [results EXCEPT ![<<step, k>>] = content]
      BY <2>3 DEF SyncSave, ConcurrentSave, AddResult
    <3>3. tool' = tool
      BY <2>3 DEF SyncSave, ConcurrentSave, toolVars
    <3>4. QED
      BY <1>a, <3>1, <3>2, <3>3 DEF TypeOK
  <2>4. QED
    BY <1>2, <2>1, <2>2, <2>3 DEF ToolCall
<1>3. ASSUME NEW d \in CallIds, AsyncTool(d)
      PROVE  results'[c] = results[c] /\ tool'[c] = tool[c]
  <2>1. CASE AsyncAcquire(d) \/ AsyncStart(d) \/ AsyncDenied(d) \/ AsyncReturn(d) \/ AsyncPanic(d)
    BY <1>a, <1>b, <2>1 DEF TypeOK, AsyncAcquire, AsyncStart, AsyncDenied, AsyncReturn, AsyncPanic, storeVars
  <2>2. CASE AsyncSave(d)
    <3>1. results[d] = <<>>
      BY <1>a, <2>2 DEF AsyncSave, CallInv
    <3>2. results' = results \/ \E content : results' = [results EXCEPT ![d] = content]
      BY <2>2 DEF AsyncSave, AddResult
    <3>3. tool' = tool
      BY <2>2 DEF AsyncSave
    <3>4. QED
      BY <1>a, <3>1, <3>2, <3>3 DEF TypeOK
  <2>3. QED
    BY <1>3, <2>1, <2>2 DEF AsyncTool
<1>4. Aside => UNCHANGED <<tool, results>>
  BY DEF Aside
<1>5. (\E cs : StreamEnds(cs)) \/ Persist => UNCHANGED <<tool, results>>
  BY Zenon DEF StreamEnds, Persist, toolVars
<1>6. QED
  BY ToolSteps, <1>1, <1>2, <1>3, <1>4, <1>5

(* Nothing changes the calls of the steps before, nor where they are shown. *)
LEMMA PastStays ==
  ASSUME TypeOK, PhaseInv, [Next]_vars, NEW c \in CallIds, c[1] < step
  PROVE  /\ calls'[c[1]] = calls[c[1]] /\ Mode(c)' = Mode(c)
         /\ partIndex'[c] = partIndex[c]
<1>1. c[1] \in Steps /\ c[1] # step
  BY ConstantTypes DEF CallIds, Steps
<1>2. calls'[c[1]] = calls[c[1]]
  <2>1. CASE ScreenStays
    BY <2>1 DEF ScreenStays
  <2>2. ASSUME NEW cs, StreamEnds(cs)
        PROVE  calls'[c[1]] = calls[c[1]]
    BY <1>1, <2>2 DEF StreamEnds, TypeOK
  <2>3. CASE CreateParts
    BY <2>3 DEF CreateParts
  <2>4. QED
    BY <2>1, <2>2, <2>3, ScreenSteps
<1>3. partIndex'[c] = partIndex[c]
  <2>1. CASE ScreenStays
    BY <2>1 DEF ScreenStays
  <2>2. ASSUME NEW cs, StreamEnds(cs)
        PROVE  partIndex'[c] = partIndex[c]
    BY <2>2 DEF StreamEnds
  <2>3. CASE CreateParts
    BY <1>1, <2>3 DEF CreateParts
  <2>4. QED
    BY <2>1, <2>2, <2>3, ScreenSteps
<1>4. QED
  BY <1>2, <1>3 DEF Mode

(* Only Persist adds to the accumulated parts and calls.                   *)
LEMMA AccumulatedSteps ==
  ASSUME [Next]_vars
  PROVE  \/ UNCHANGED <<step, partVars>> \/ Persist
<1>1. CASE Prepare \/ StepLimit \/ StepCreate \/ BuildContext \/ CreateParts \/ Checkpoint \/ Close
  BY <1>1, Zenon DEF Prepare, StepLimit, StepCreate, BuildContext, CreateParts, Checkpoint, Close,
                     loopVars
<1>2. CASE Streaming
  BY <1>2, Zenon DEF Streaming, TextDelta, ReasoningDelta, StreamFails, StreamEnds, loopVars
<1>3. ASSUME NEW k \in 1 .. MaxCalls, ToolCall(k)
      PROVE  UNCHANGED <<step, partVars>>
  BY <1>3, Zenon DEF ToolCall, SyncAnnounce, ToolStart, ToolReturn, SyncSave, ConcurrentAcquire, ConcurrentAnnounce, ConcurrentDenied,
              ConcurrentSave, AsyncLaunch, loopVars
<1>4. ASSUME NEW c \in CallIds, AsyncTool(c)
      PROVE  UNCHANGED <<step, partVars>>
  BY <1>4, Zenon DEF AsyncTool, AsyncAcquire, AsyncStart, AsyncDenied, AsyncReturn, AsyncPanic, AsyncSave, loopVars
<1>5. CASE UNCHANGED vars
  BY <1>5, Zenon DEF vars, loopVars
<1>6. QED
  BY <1>1, <1>2, <1>3, <1>4, <1>5, Zenon DEF Next, Loop

LEMMA CallsBeforeStays ==
  ASSUME TypeOK, PhaseInv, [Next]_vars, step' = step
  PROVE  CallsBefore(step)' = CallsBefore(step)
<1>1. \A c \in CallIds : c[1] < step => calls'[c[1]] = calls[c[1]]
  BY PastStays
<1>2. QED
  BY <1>1 DEF CallsBefore, CallsMade

(* The run has not failed so far if it has not failed after the step.      *)
LEMMA ErrorStays ==
  ASSUME TypeOK, PhaseInv, [Next]_vars, outcome' # "error"
  PROVE  outcome # "error" /\ (pc' # "ended" => pc # "ended")
<1>1. outcome # "error"
  <2>1. CASE ScreenStays
    BY <2>1 DEF ScreenStays
  <2>2. ASSUME NEW cs, StreamEnds(cs)
        PROVE  outcome # "error"
    BY <2>2 DEF StreamEnds
  <2>3. CASE CreateParts
    BY <2>3 DEF CreateParts
  <2>4. QED
    BY <2>1, <2>2, <2>3, ScreenSteps
<1>2. QED
  BY <1>1, ClosedStays DEF loopVars

(* What Persist does, when it does not fail.                               *)
LEMMA PersistEffect ==
  ASSUME Inv, Persist, outcome' # "error"
  PROVE  /\ step \in Steps /\ step \in Int /\ pc = "tools" /\ outcome = "none"
         /\ handled = 1 .. Len(calls[step])
         /\ UNCHANGED <<calls, tool, results, partIndex>>
         /\ \/ step' = step + 1 /\ pc' = "top"
            \/ step' = step /\ pc' = "ended" /\ Len(calls[step]) = 0
         /\ CallsBefore(step)' = CallsBefore(step) \cup {<<step, k>> : k \in 1 .. Len(calls[step])}
         /\ row' = [exists |-> TRUE, parts |-> accumulated', calls |-> madeCalls']
<1>a. TypeOK /\ PhaseInv
  BY Zenon DEF Inv
<1>1. /\ step \in Steps /\ step \in Int /\ pc = "tools" /\ outcome = "none"
      /\ Len(calls[step]) \in Nat
  BY <1>a, CallsShape, ConstantTypes DEF Persist, PhaseInv, Steps
<1>2. Len([k \in 1 .. Len(calls[step]) |-> <<step, k>>]) = Len(calls[step])
  BY <1>1
<1>3. handled = 1 .. Len(calls[step]) /\ UNCHANGED <<calls, tool, results, partIndex>>
  BY <1>2 DEF Persist, toolVars
<1>4. Len(<<>>) = 0
  OBVIOUS
<1>5. /\ \/ step' = step + 1 /\ pc' = "top"
         \/ step' = step /\ pc' = "ended" /\ Len(calls[step]) = 0
      /\ row' = [exists |-> TRUE, parts |-> accumulated', calls |-> madeCalls']
  <2>1. ~Abort
    BY DEF Abort
  <2>2. QED
    BY <1>2, <1>4, <2>1, Zenon DEF Persist, UpdateOk
<1>6. CallsBefore(step)' = CallsBefore(step) \cup {<<step, k>> : k \in 1 .. Len(calls[step])}
  <2>1. CallsMade' = CallsMade
    BY <1>3 DEF CallsMade
  <2>2. ASSUME NEW c \in CallsMade
        PROVE  (c[1] < step') <=> (c[1] < step \/ c \in {<<step, k>> : k \in 1 .. Len(calls[step])})
    <3>1. c = <<c[1], c[2]>> /\ c[1] \in Int /\ c[2] \in 1 .. Len(calls[c[1]]) /\ c[1] <= step
      BY <1>a, CallsMadeSoFar, ConstantTypes DEF Steps
    <3>2. c \in {<<step, k>> : k \in 1 .. Len(calls[step])} <=> c[1] = step
      BY <3>1
    <3>3. CASE step' = step + 1
      BY <1>1, <3>1, <3>2, <3>3
    <3>4. CASE step' = step /\ Len(calls[step]) = 0
      BY <1>1, <3>1, <3>2, <3>4
    <3>5. QED
      BY <1>5, <3>3, <3>4
  <2>3. \A k \in 1 .. Len(calls[step]) : <<step, k>> \in CallsMade
    BY <1>a, <1>1, CallsShape
  <2>4. CallsBefore(step)' = {c \in CallsMade : c[1] < step'}
    BY <2>1 DEF CallsBefore
  <2>5. QED
    BY <2>2, <2>3, <2>4 DEF CallsBefore
<1>7. QED
  BY <1>1, <1>3, <1>5, <1>6

LEMMA ThreeParts ==
  ASSUME NEW n \in Nat, NEW T \in Nat, NEW L \in Nat, NEW j \in 1 .. n + T + L
  PROVE  \/ j \in 1 .. n
         \/ \E m \in 1 .. T : j = n + m
         \/ \E k \in 1 .. L : j = n + T + k
<1>1. CASE j <= n
  BY <1>1
<1>2. CASE j > n /\ j <= n + T
  <2>1. j - n \in 1 .. T /\ j = n + (j - n)
    BY <1>2
  <2>2. QED
    BY <2>1
<1>3. CASE j > n + T
  <2>1. j - (n + T) \in 1 .. L /\ j = n + T + (j - (n + T))
    BY <1>3
  <2>2. QED
    BY <2>1
<1>4. QED
  BY <1>1, <1>2, <1>3

(* B has the n accumulated parts, then those of a finished step: T texts   *)
(* and L calls.                                                            *)
Extended(B, n, T, L) ==
    /\ n \in Nat /\ T \in Nat /\ L \in Nat
    /\ B \in Seq(Parts) /\ DOMAIN B = 1 .. n + T + L
    /\ \A j \in 1 .. n : B[j] = accumulated[j]
    /\ \A m \in 1 .. T : /\ B[n + m].kind # "call"
                         /\ B[n + m].step = step /\ B[n + m].state = "done"
    /\ \A k \in 1 .. L : B[n + T + k] = Part(step, "call", k, CallState(k))
    /\ \A j \in 1 .. n + T + L : \/ j \in 1 .. n
                                 \/ \E m \in 1 .. T : j = n + m
                                 \/ \E k \in 1 .. L : j = n + T + k

LEMMA ExtendedShape ==
  ASSUME TypeOK, step \in Steps
  PROVE  \E B, n, T, L :
            /\ B = accumulated \o CurrentParts /\ n = Len(accumulated)
            /\ T = Texts(calls[step]) /\ L = Len(calls[step])
            /\ Extended(B, n, T, L)
<1>0. PICK B, n, T, L : /\ B = accumulated \o CurrentParts /\ n = Len(accumulated)
                        /\ T = Texts(calls[step]) /\ L = Len(calls[step])
  OBVIOUS
<1>. DEFINE C == CurrentParts
<1>1. accumulated \in Seq(Parts)
  BY Zenon DEF TypeOK
<1>2. /\ C \in Seq(Parts) /\ T \in Nat /\ L \in Nat /\ Len(C) = T + L
      /\ \A m \in 1 .. T : C[m].kind # "call" /\ C[m].step = step /\ C[m].state = "done"
      /\ \A k \in 1 .. L : C[T + k] = Part(step, "call", k, CallState(k))
  BY <1>0, CurrentPartsShape
<1>. HIDE DEF C
<1>3. B = accumulated \o C
  BY <1>0 DEF C
<1>4. /\ B \in Seq(Parts) /\ n \in Nat
      /\ DOMAIN B = 1 .. n + Len(C)
      /\ \A j \in 1 .. n : B[j] = accumulated[j]
      /\ \A j \in 1 .. Len(C) : B[n + j] = C[j]
  BY <1>0, <1>1, <1>2, <1>3, ConcatShape
<1>5. n + Len(C) = n + T + L
  BY <1>2, <1>4
<1>6. \A m \in 1 .. T : B[n + m] = C[m]
  BY <1>2, <1>4
<1>7. \A k \in 1 .. L : B[n + T + k] = C[T + k]
  <2>1. TAKE k \in 1 .. L
  <2>2. T + k \in 1 .. Len(C) /\ n + T + k = n + (T + k)
    BY <1>2, <1>4
  <2>3. QED
    BY <1>4, <2>2
<1>8. n \in Nat /\ T \in Nat /\ L \in Nat
  BY <1>2, <1>4
<1>9. \A j \in 1 .. n + T + L : \/ j \in 1 .. n
                                \/ \E m \in 1 .. T : j = n + m
                                \/ \E k \in 1 .. L : j = n + T + k
  BY <1>8, ThreeParts, Zenon
<1>10. Extended(B, n, T, L)
  BY <1>2, <1>4, <1>5, <1>6, <1>7, <1>9 DEF Extended
<1>11. QED
  BY <1>0, <1>10

(* What a call of a finished step is left with.                            *)
LEMMA FinishedCall ==
  ASSUME Inv, pc = "tools", step \in Steps, handled = 1 .. Len(calls[step]),
         NEW k \in 1 .. Len(calls[step])
  PROVE  IF Mode(<<step, k>>) = "async" THEN CallState(k) = "pending"
         ELSE results[<<step, k>>] # <<>> /\ CallState(k) = tool[<<step, k>>]
<1>. DEFINE c == <<step, k>>
<1>a. TypeOK /\ \A d \in CallIds : CallInv(d)
  BY Zenon DEF Inv, ToolInv
<1>1. /\ c \in CallIds /\ c \in CallsMade /\ CallInv(c) /\ Mode(c) = calls[step][k]
      /\ Handled(c)
  BY <1>a, CallsShape DEF Handled
<1>2. CASE Mode(c) = "async"
  <2>1. k \in Of("async")
    BY <1>1, <1>2 DEF Of
  <2>2. QED
    BY <1>2, <2>1 DEF CallState
<1>3. CASE Mode(c) # "async"
  <2>1. k \notin Of("async")
    BY <1>1, <1>3 DEF Of
  <2>2. results[c] # <<>>
    BY <1>1, <1>3 DEF CallInv
  <2>3. Returned(c)
    BY <1>1, <2>2 DEF CallInv
  <2>4. QED
    BY <1>3, <2>1, <2>2, <2>3 DEF CallState
<1>4. QED
  BY <1>2, <1>3

LEMMA AccumulatedNext ==
  ASSUME Inv, [Next]_vars
  PROVE  AccumulatedInv'
<1>a. TypeOK /\ PhaseInv /\ AccumulatedInv /\ IndexInv
  BY Zenon DEF Inv
<1>. SUFFICES ASSUME outcome' # "error" PROVE AccumulatedInv'
  BY DEF AccumulatedInv
<1>b. /\ outcome # "error" /\ (pc' # "ended" => pc # "ended")
      /\ pc # "ended" => \A j \in DOMAIN accumulated : accumulated[j].step < step
      /\ IdsIn(accumulated) = CallsBefore(step)
      /\ \A i, j \in CallsIn(accumulated) :
            i < j => Precedes(IdOf(accumulated[i]), IdOf(accumulated[j]))
      /\ \A j \in DOMAIN accumulated : Settled(accumulated[j])
      /\ \A j \in CallsIn(accumulated) :
            Place(accumulated, j) = partIndex[IdOf(accumulated[j])]
  BY <1>a, ErrorStays DEF AccumulatedInv
<1>c. \A j \in CallsIn(accumulated) :
         IdOf(accumulated[j]) \in CallIds /\ IdOf(accumulated[j])[1] < step
  BY <1>b DEF IdsIn, CallsBefore, CallsMade
<1>1. CASE UNCHANGED <<step, partVars>>
  <2>1. accumulated' = accumulated /\ step' = step
    BY <1>1 DEF partVars
  <2>2. \A j \in DOMAIN accumulated : Settled(accumulated[j])'
    <3>1. TAKE j \in DOMAIN accumulated
    <3>. DEFINE c == IdOf(accumulated[j])
    <3>2. CASE accumulated[j].kind = "call"
      <4>1. c \in CallIds /\ c[1] < step /\ Settled(accumulated[j])
        BY <1>b, <1>c, <3>2 DEF CallsIn
      <4>2. Mode(c)' = Mode(c)
        BY <1>a, <4>1, PastStays, <2>1 DEF IdOf, Mode
      <4>3. results[c] # <<>> => results'[c] # <<>> /\ tool'[c] = tool[c]
        BY <4>1, ResultsStay
      <4>4. QED
        BY <2>1, <3>2, <4>1, <4>2, <4>3 DEF Settled, IdOf, Mode
    <3>3. CASE accumulated[j].kind # "call"
      BY <1>b, <2>1, <3>3 DEF Settled
    <3>4. QED
      BY <3>2, <3>3
  <2>3. \A j \in CallsIn(accumulated) :
           Place(accumulated, j) = partIndex'[IdOf(accumulated[j])]
    BY <1>a, <1>b, <1>c, PastStays
  <2>4. CallsBefore(step)' = CallsBefore(step)
    BY <1>a, <2>1, CallsBeforeStays
  <2>5. QED
    BY <1>b, <2>1, <2>2, <2>3, <2>4 DEF AccumulatedInv, IdsIn, CallsIn, IdOf, Place
<1>2. CASE Persist
  <2>0. PICK B, n, T, L :
           /\ B = accumulated \o CurrentParts /\ n = Len(accumulated)
           /\ T = Texts(calls[step]) /\ L = Len(calls[step])
           /\ Extended(B, n, T, L)
    <3>1. TypeOK /\ step \in Steps
      BY <1>a, <1>2, PersistEffect
    <3>2. QED
      BY <3>1, ExtendedShape
  <2>1. /\ step \in Steps /\ step \in Int /\ pc = "tools" /\ outcome = "none"
        /\ handled = 1 .. L /\ UNCHANGED <<calls, tool, results, partIndex>>
        /\ \/ step' = step + 1 /\ pc' = "top"
           \/ step' = step /\ pc' = "ended" /\ L = 0
        /\ CallsBefore(step)' = CallsBefore(step) \cup {<<step, k>> : k \in 1 .. L}
    BY <1>2, <2>0, PersistEffect
  <2>2. accumulated' = B
    BY <1>2, <2>0 DEF Persist
  <2>3. /\ n \in Nat /\ T \in Nat /\ L \in Nat
        /\ B \in Seq(Parts) /\ DOMAIN B = 1 .. n + T + L
        /\ \A j \in 1 .. n : B[j] = accumulated[j]
        /\ \A m \in 1 .. T : /\ B[n + m].kind # "call"
                             /\ B[n + m].step = step /\ B[n + m].state = "done"
        /\ \A k \in 1 .. L : B[n + T + k] = Part(step, "call", k, CallState(k))
        /\ \A j \in 1 .. n + T + L : \/ j \in 1 .. n
                                     \/ \E m \in 1 .. T : j = n + m
                                     \/ \E k \in 1 .. L : j = n + T + k
    BY <2>0 DEF Extended
  <2>4. DOMAIN accumulated = 1 .. n
    BY <1>a, <2>0 DEF TypeOK
  <2>5. \A k \in 1 .. L :
           /\ n + T + k \in 1 .. n + T + L
           /\ B[n + T + k].kind = "call" /\ B[n + T + k].step = step
           /\ IdOf(B[n + T + k]) = <<step, k>> /\ B[n + T + k].state = CallState(k)
    <3>1. TAKE k \in 1 .. L
    <3>2. n + T + k \in 1 .. n + T + L
      BY <2>3
    <3>3. B[n + T + k] = Part(step, "call", k, CallState(k))
      BY <2>3
    <3>4. QED
      BY <3>2, <3>3 DEF Part, IdOf
  <2>6. \A j \in CallsIn(B) : j \in CallsIn(accumulated) \/ \E k \in 1 .. L : j = n + T + k
    BY <2>3, <2>4 DEF CallsIn
  <2>7. CallsIn(accumulated) \subseteq CallsIn(B)
    BY <2>3, <2>4 DEF CallsIn
  <2>8. \A j \in CallsIn(accumulated) : B[j] = accumulated[j] /\ j \in 1 .. n
    BY <2>3, <2>4 DEF CallsIn
  <2>9. pc' # "ended" => \A j \in DOMAIN B : B[j].step < step'
    <3>1. SUFFICES ASSUME pc' # "ended", NEW j \in DOMAIN B PROVE B[j].step < step'
      OBVIOUS
    <3>2. step' = step + 1
      BY <2>1, <3>1
    <3>3. CASE j \in 1 .. n
      <4>1. B[j] = accumulated[j] /\ accumulated[j] \in Parts /\ accumulated[j].step < step
        <5>1. accumulated \in Seq(Parts)
          BY <1>a, Zenon DEF TypeOK
        <5>2. accumulated[j] \in Parts
          BY <2>0, <3>3, <5>1
        <5>3. pc # "ended"
          BY <2>1
        <5>4. QED
          BY <1>b, <2>3, <2>4, <3>3, <5>2, <5>3
      <4>2. B[j].step \in Int
        BY <4>1, ConstantTypes DEF Parts, Steps
      <4>3. QED
        BY <2>1, <3>2, <4>1, <4>2
    <3>4. CASE j \notin 1 .. n
      <4>1. B[j].step = step
        <5>1. (\E m \in 1 .. T : j = n + m) \/ \E k \in 1 .. L : j = n + T + k
          BY <2>3, <3>4
        <5>2. QED
          BY <2>3, <2>5, <5>1
      <4>2. QED
        BY <2>1, <3>2, <4>1
    <3>5. QED
      BY <3>3, <3>4
  <2>10. IdsIn(B) = CallsBefore(step)'
    <3>1. IdsIn(B) \subseteq CallsBefore(step)'
      BY <1>b, <2>1, <2>5, <2>6, <2>8 DEF IdsIn
    <3>2. CallsBefore(step) \subseteq IdsIn(B)
      BY <1>b, <2>7, <2>8 DEF IdsIn
    <3>3. \A k \in 1 .. L : <<step, k>> \in IdsIn(B)
      BY <2>3, <2>5 DEF IdsIn, CallsIn
    <3>4. QED
      BY <2>1, <3>1, <3>2, <3>3
  <2>11. \A i, j \in CallsIn(B) : i < j => Precedes(IdOf(B[i]), IdOf(B[j]))
    <3>1. SUFFICES ASSUME NEW i \in CallsIn(B), NEW j \in CallsIn(B), i < j
                   PROVE  Precedes(IdOf(B[i]), IdOf(B[j]))
      OBVIOUS
    <3>2. CASE i \in CallsIn(accumulated) /\ j \in CallsIn(accumulated)
      BY <1>b, <2>8, <3>1, <3>2
    <3>3. CASE i \in CallsIn(accumulated) /\ \E k \in 1 .. L : j = n + T + k
      <4>1. IdOf(B[i])[1] < step /\ IdOf(B[j])[1] = step
        <5>1. PICK k \in 1 .. L : j = n + T + k
          BY <3>3
        <5>2. IdOf(B[j]) = <<step, k>>
          BY <2>5, <5>1
        <5>3. B[i] = accumulated[i] /\ IdOf(accumulated[i])[1] < step
          BY <1>c, <2>8, <3>3
        <5>4. QED
          BY <5>2, <5>3
      <4>2. QED
        BY <4>1 DEF Precedes
    <3>4. CASE (\E k \in 1 .. L : i = n + T + k) /\ j \in CallsIn(accumulated)
      BY <2>3, <2>8, <3>1, <3>4
    <3>5. CASE (\E k \in 1 .. L : i = n + T + k) /\ \E k \in 1 .. L : j = n + T + k
      <4>1. PICK k \in 1 .. L, m \in 1 .. L : i = n + T + k /\ j = n + T + m
        BY <3>5
      <4>2. k < m
        BY <2>3, <3>1, <4>1
      <4>3. IdOf(B[i]) = <<step, k>> /\ IdOf(B[j]) = <<step, m>>
        BY <2>5, <4>1
      <4>4. QED
        BY <4>2, <4>3 DEF Precedes
    <3>6. QED
      BY <2>6, <3>2, <3>3, <3>4, <3>5
  <2>12. \A j \in DOMAIN B : Settled(B[j])'
    <3>1. TAKE j \in DOMAIN B
    <3>2. Settled(B[j])' <=> Settled(B[j])
      BY <2>1 DEF Settled, Mode, IdOf
    <3>3. CASE j \in 1 .. n
      BY <1>b, <2>3, <2>4, <3>2, <3>3
    <3>4. CASE \E m \in 1 .. T : j = n + m
      BY <2>3, <3>2, <3>4 DEF Settled
    <3>5. ASSUME NEW k \in 1 .. L, j = n + T + k
          PROVE  Settled(B[j])
      BY <2>0, <2>1, <2>5, <3>5, FinishedCall DEF Settled
    <3>6. QED
      BY <2>3, <3>2, <3>3, <3>4, <3>5
  <2>13. \A j \in CallsIn(B) : Place(B, j) = partIndex[IdOf(B[j])]
    <3>1. ASSUME NEW j \in CallsIn(accumulated)
          PROVE  Place(B, j) = partIndex[IdOf(B[j])]
      <4>1. \A i \in 1 .. j - 1 : i \in 1 .. n
        BY <2>3, <2>8
      <4>2. {i \in 1 .. j - 1 : B[i].step = B[j].step}
               = {i \in 1 .. j - 1 : accumulated[i].step = accumulated[j].step}
        BY <2>3, <2>8, <4>1
      <4>3. QED
        BY <1>b, <2>8, <4>2 DEF Place
    <3>2. ASSUME NEW k \in 1 .. L
          PROVE  Place(B, n + T + k) = partIndex[IdOf(B[n + T + k])]
      <4>. DEFINE j == n + T + k
      <4>1. \A i \in 1 .. n : B[i].step # step
        <5>1. TAKE i \in 1 .. n
        <5>2. B[i] = accumulated[i] /\ accumulated[i].step < step
          BY <1>b, <2>1, <2>3, <2>4
        <5>3. QED
          BY <2>1, <5>2
      <4>2. \A i \in 1 .. j - 1 : B[i].step = step <=> i \in n + 1 .. j - 1
        <5>1. TAKE i \in 1 .. j - 1
        <5>2. CASE i \in 1 .. n
          BY <2>3, <4>1, <5>2
        <5>3. CASE \E m \in 1 .. T : i = n + m
          BY <2>3, <5>3
        <5>4. ASSUME NEW m \in 1 .. L, i = n + T + m
              PROVE  B[i].step = step /\ i \in n + 1 .. j - 1
          <6>1. B[n + T + m].step = step
            BY <2>5
          <6>2. QED
            BY <2>3, <5>4, <6>1
        <5>5. i \in 1 .. n + T + L
          BY <2>3
        <5>6. i \in 1 .. n \/ (\E m \in 1 .. T : i = n + m) \/ \E m \in 1 .. L : i = n + T + m
          BY <2>3, <5>5
        <5>7. QED
          BY <5>2, <5>3, <5>4, <5>6
      <4>3. {i \in 1 .. j - 1 : B[i].step = B[j].step} = n + 1 .. j - 1
        <5>1. B[j].step = step
          BY <2>5
        <5>2. n + 1 .. j - 1 \subseteq 1 .. j - 1
          BY <2>3
        <5>3. QED
          BY <4>2, <5>1, <5>2
      <4>4. Cardinality(n + 1 .. j - 1) = T + k - 1
        <5>1. n + 1 \in Int /\ j - 1 \in Int
          BY <2>3
        <5>2. Cardinality(n + 1 .. j - 1) = IF n + 1 <= j - 1 THEN (j - 1) - (n + 1) + 1 ELSE 0
          BY <5>1, FS_Interval
        <5>3. QED
          BY <2>3, <5>2
      <4>5. partIndex[<<step, k>>] = T + k - 1
        BY <1>a, <2>0, <2>1, CallIndexShape DEF IndexInv
      <4>6. QED
        BY <2>5, <4>3, <4>4, <4>5 DEF Place
    <3>3. QED
      BY <2>6, <3>1, <3>2
  <2>14. /\ CallsIn(accumulated)' = CallsIn(B) /\ IdsIn(accumulated)' = IdsIn(B)
         /\ \A j : Place(accumulated, j)' = Place(B, j)
         /\ \A j : IdOf(accumulated[j])' = IdOf(B[j])
    BY <2>2 DEF CallsIn, IdsIn, IdOf, Place
  <2>15. \A j \in DOMAIN B : Settled(accumulated[j])'
    BY <2>2, <2>12 DEF Settled, IdOf, Mode
  <2>16. QED
    BY <2>1, <2>2, <2>9, <2>10, <2>11, <2>13, <2>14, <2>15 DEF AccumulatedInv
<1>3. QED
  BY <1>1, <1>2, AccumulatedSteps

LEMMA MadeCallsNext ==
  ASSUME Inv, [Next]_vars
  PROVE  MadeCallsInv'
<1>a. TypeOK /\ PhaseInv /\ MadeCallsInv
  BY Zenon DEF Inv
<1>. SUFFICES ASSUME outcome' # "error" PROVE MadeCallsInv'
  BY DEF MadeCallsInv
<1>b. /\ ToSet(madeCalls) = CallsBefore(step)
      /\ \A i, j \in DOMAIN madeCalls : i < j => Precedes(madeCalls[i], madeCalls[j])
  BY <1>a, ErrorStays DEF MadeCallsInv
<1>1. CASE UNCHANGED <<step, partVars>>
  BY <1>a, <1>b, <1>1, CallsBeforeStays DEF MadeCallsInv, partVars
<1>2. CASE Persist
  <2>0. PICK ids, n, L :
           /\ ids = [k \in 1 .. Len(calls[step]) |-> <<step, k>>]
           /\ n = Len(madeCalls) /\ L = Len(calls[step])
    OBVIOUS
  <2>1. /\ step \in Steps /\ step \in Int
        /\ CallsBefore(step)' = CallsBefore(step) \cup {<<step, k>> : k \in 1 .. L}
    BY <1>2, <2>0, PersistEffect
  <2>2. madeCalls' = madeCalls \o ids
    BY <1>2, <2>0 DEF Persist
  <2>3. /\ madeCalls \in Seq(CallIds) /\ ids \in Seq(CallIds) /\ Len(ids) = L /\ L \in Nat
        /\ \A k \in 1 .. L : ids[k] = <<step, k>>
    BY <1>a, <2>0, <2>1, CallsShape DEF TypeOK
  <2>4. /\ DOMAIN madeCalls' = 1 .. n + L /\ n \in Nat
        /\ \A j \in 1 .. n : madeCalls'[j] = madeCalls[j]
        /\ \A k \in 1 .. L : madeCalls'[n + k] = <<step, k>>
        /\ DOMAIN madeCalls = 1 .. n
    BY <2>0, <2>2, <2>3, ConcatShape
  <2>5. \A j \in 1 .. n + L : j \in 1 .. n \/ \E k \in 1 .. L : j = n + k
    <3>1. TAKE j \in 1 .. n + L
    <3>2. CASE j > n
      <4>1. j - n \in 1 .. L /\ j = n + (j - n)
        BY <2>3, <2>4, <3>2
      <4>2. QED
        BY <4>1
    <3>3. QED
      BY <2>3, <2>4, <3>2
  <2>6. \A j \in 1 .. n : madeCalls[j] \in CallsBefore(step)
    BY <1>b, <2>4 DEF ToSet
  <2>7. ToSet(madeCalls)' = CallsBefore(step)'
    <3>1. \A j \in 1 .. n + L : madeCalls'[j] \in CallsBefore(step)'
      BY <2>1, <2>4, <2>5, <2>6
    <3>2. ASSUME NEW c \in CallsBefore(step)'
          PROVE  \E j \in 1 .. n + L : madeCalls'[j] = c
      <4>1. CASE c \in CallsBefore(step)
        <5>1. PICK j \in 1 .. n : madeCalls[j] = c
          BY <1>b, <2>4, <4>1 DEF ToSet
        <5>2. j \in 1 .. n + L
          BY <2>3, <2>4
        <5>3. QED
          BY <2>4, <5>1, <5>2
      <4>2. ASSUME NEW k \in 1 .. L, c = <<step, k>>
            PROVE  \E j \in 1 .. n + L : madeCalls'[j] = c
        <5>1. n + k \in 1 .. n + L
          BY <2>3, <2>4
        <5>2. QED
          BY <2>4, <4>2, <5>1
      <4>3. QED
        BY <2>1, <3>2, <4>1, <4>2
    <3>3. QED
      BY <2>4, <3>1, <3>2 DEF ToSet
  <2>8. ASSUME NEW i \in 1 .. n + L, NEW j \in 1 .. n + L, i < j
        PROVE  Precedes(madeCalls'[i], madeCalls'[j])
    <3>1. CASE i \in 1 .. n /\ j \in 1 .. n
      BY <1>b, <2>4, <2>8, <3>1
    <3>2. ASSUME i \in 1 .. n, NEW k \in 1 .. L, j = n + k
          PROVE  Precedes(madeCalls'[i], madeCalls'[j])
      <4>1. madeCalls'[i][1] < step /\ madeCalls'[j][1] = step
        BY <2>4, <2>6, <3>2 DEF CallsBefore
      <4>2. QED
        BY <4>1 DEF Precedes
    <3>3. ASSUME NEW k \in 1 .. L, i = n + k, NEW m \in 1 .. L, j = n + m
          PROVE  Precedes(madeCalls'[i], madeCalls'[j])
      <4>1. k < m
        BY <2>4, <2>8, <3>3
      <4>2. QED
        BY <2>4, <3>3, <4>1 DEF Precedes
    <3>4. ASSUME NEW k \in 1 .. L, i = n + k
          PROVE  j \notin 1 .. n
      BY <2>4, <2>8, <3>4
    <3>5. QED
      BY <2>5, <2>8, <3>1, <3>2, <3>3, <3>4
  <2>9. QED
    BY <2>4, <2>7, <2>8 DEF MadeCallsInv
<1>3. QED
  BY <1>1, <1>2, AccumulatedSteps

-----------------------------------------------------------------------------
(* The order in which the tools of a step run.                             *)

LEMMA TurnNext ==
  ASSUME Inv, [Next]_vars
  PROVE  TurnInv'
<1>a. TypeOK /\ PhaseInv /\ TurnInv /\ \A c \in CallIds : CallInv(c)
  BY Zenon DEF Inv, ToolInv
<1>b. ASSUME NEW mode \in Modes, NEW k \in Of(mode), pc \in InTools
      PROVE  /\ <<step, k>> \in CallIds /\ <<step, k>> \in CallsMade /\ Mode(<<step, k>>) = mode
             /\ k \in 1 .. MaxCalls /\ step \in Steps
  BY <1>a, <1>b, OfShape DEF InTools
<1>. SUFFICES ASSUME pc' \in InTools PROVE TurnInv'
  BY DEF TurnInv, InTools
<1>1. CASE Prepare \/ StepLimit \/ StepCreate \/ BuildContext \/ StreamFails \/ Persist
           \/ TextDelta \/ ReasoningDelta
  BY <1>1 DEF Prepare, StepLimit, StepCreate, BuildContext, StreamFails, Persist, TextDelta,
              ReasoningDelta, Abort, InTools, loopVars
<1>2. ASSUME NEW cs, StreamEnds(cs), pc = "stream"
      PROVE  TurnInv'
  <2>1. calls'[step'] = <<>>
    BY <1>a, <1>2 DEF StreamEnds, InTools, PhaseInv, TypeOK
  <2>2. \A mode : Of(mode)' = {}
    <3>1. Len(<<>>) = 0
      OBVIOUS
    <3>2. QED
      BY <2>1, <3>1 DEF Of
  <2>3. QED
    BY <2>2 DEF TurnInv
<1>3. CASE CreateParts
  <2>1. /\ pc = "calls" /\ pc' = "tools" /\ UNCHANGED <<step, calls, tool, handled>>
    BY <1>3 DEF CreateParts, toolVars
  <2>2. \A mode : Of(mode)' = Of(mode)
    BY <2>1 DEF Of
  <2>3. \A mode \in Modes : \A k \in Of(mode) : tool[<<step, k>>] = "idle"
    <3>1. TAKE mode \in Modes
    <3>2. TAKE k \in Of(mode)
    <3>3. <<step, k>> \in CallIds
      BY <1>a, <2>1, OfShape
    <3>4. QED
      BY <1>a, <2>1, <3>3 DEF CallInv
  <2>4. QED
    BY <2>1, <2>2, <2>3 DEF TurnInv, Modes
<1>4. CASE Checkpoint \/ Close \/ UNCHANGED vars
  <2>1. /\ UNCHANGED <<step, calls, tool, handled>> /\ (pc' = pc \/ (pc = "checkpoint" /\ pc' = "tools"))
    BY <1>4, Zenon DEF Checkpoint, Close, vars, toolVars, loopVars
  <2>2. \A mode : Of(mode)' = Of(mode)
    BY <2>1 DEF Of
  <2>3. QED
    BY <1>a, <2>1, <2>2 DEF TurnInv, InTools
<1>5. ASSUME NEW k \in 1 .. MaxCalls, ToolCall(k)
      PROVE  TurnInv'
  <2>0. pc = "tools" /\ UNCHANGED <<step, calls>>
    BY <1>5 DEF ToolCall, SyncAnnounce, ToolStart, ToolReturn, SyncSave, ConcurrentAcquire, ConcurrentAnnounce, ConcurrentDenied,
                ConcurrentSave, ConcurrentPhase, AsyncLaunch, loopVars
  <2>1. \A mode : Of(mode)' = Of(mode)
    BY <2>0 DEF Of
  <2>2. \A j \in Of("sync") \cup Of("concurrent") : <<step, j>> \in CallIds /\ j \in Int
    BY <1>b, <2>0, ConstantTypes DEF InTools, Modes
  <2>3. \A mode \in Modes : \A other \in Modes : mode # other => Of(mode) \cap Of(other) = {}
    BY DEF Of
  <2>4. CASE SyncAnnounce(k)
    <3>1. /\ k \in Of("sync") \ handled /\ \A j \in Of("sync") : j < k => j \in handled
          /\ tool' = [tool EXCEPT ![<<step, k>>] = "announced"] /\ UNCHANGED <<pc, handled>>
      BY <2>4 DEF SyncAnnounce, loopVars
    <3>2. \A j \in Of("sync") \cup Of("concurrent") :
             j # k => tool'[<<step, j>>] = tool[<<step, j>>]
      BY <1>a, <2>2, <3>1 DEF TypeOK
    <3>3. k \notin Of("concurrent")
      BY <2>3, <3>1 DEF Modes
    <3>4. QED
      BY <1>a, <2>0, <2>1, <3>1, <3>2, <3>3 DEF TurnInv, InTools
  <2>5. CASE ToolStart(k) \/ ToolReturn(k)
    <3>1. /\ tool[<<step, k>>] # "idle" /\ UNCHANGED <<pc, handled>>
          /\ \E new : tool' = [tool EXCEPT ![<<step, k>>] = new]
      BY <2>5 DEF ToolStart, ToolReturn, loopVars
    <3>2. \A j \in Of("sync") \cup Of("concurrent") :
             tool'[<<step, j>>] # "idle" => tool[<<step, j>>] # "idle"
      BY <1>a, <2>2, <3>1 DEF TypeOK
    <3>3. QED
      BY <1>a, <2>0, <2>1, <3>1, <3>2 DEF TurnInv, InTools
  <2>6. CASE SyncSave(k)
    <3>1. /\ k \in Of("sync") \ handled /\ tool[<<step, k>>] # "idle" /\ tool' = tool
          /\ handled' = handled \cup {k}
      BY <2>6 DEF SyncSave, Returned, toolVars, InTools, Abort
    <3>2. \A j \in Of("sync") \ handled : tool[<<step, j>>] # "idle" => j = k
      BY <1>a, <2>0, <2>2, <3>1 DEF TurnInv
    <3>3. \A j \in Of("concurrent") : tool[<<step, j>>] = "idle"
      BY <1>a, <2>0, <3>1 DEF TurnInv
    <3>4. QED
      BY <2>0, <2>1, <3>1, <3>2, <3>3 DEF TurnInv
  <2>7. CASE ConcurrentAcquire(k) \/ ConcurrentAnnounce(k) \/ ConcurrentDenied(k)
    <3>1. /\ k \in Of("concurrent") /\ Of("sync") \subseteq handled /\ UNCHANGED <<pc, handled>>
      BY <2>7 DEF ConcurrentAcquire, ConcurrentAnnounce, ConcurrentDenied, ConcurrentPhase, loopVars
    <3>2. QED
      BY <2>0, <2>1, <3>1 DEF TurnInv
  <2>8. CASE ConcurrentSave(k)
    <3>1. /\ k \in Of("concurrent") /\ Of("sync") \subseteq handled /\ UNCHANGED tool
          /\ handled' = handled \cup {k} /\ (pc' = "checkpoint" => Of("concurrent") \subseteq handled')
      BY <2>8 DEF ConcurrentSave, ConcurrentPhase, toolVars, InTools, Abort
    <3>2. QED
      BY <2>0, <2>1, <3>1 DEF TurnInv
  <2>9. CASE AsyncLaunch(k)
    <3>1. /\ Of("sync") \cup Of("concurrent") \subseteq handled
          /\ handled' = handled \cup {k} /\ pc' = "tools"
      BY <2>0, <2>9 DEF AsyncLaunch
    <3>2. QED
      BY <2>0, <2>1, <3>1 DEF TurnInv
  <2>10. QED
    BY <1>5, <2>4, <2>5, <2>6, <2>7, <2>8, <2>9 DEF ToolCall
<1>6. ASSUME NEW c \in CallIds, AsyncTool(c)
      PROVE  TurnInv'
  <2>1. UNCHANGED <<pc, step, calls, handled>>
    BY <1>6 DEF AsyncTool, AsyncAcquire, AsyncStart, AsyncDenied, AsyncReturn, AsyncPanic, AsyncSave, loopVars
  <2>2. \A mode : Of(mode)' = Of(mode)
    BY <2>1 DEF Of
  <2>3. Mode(c) = "async"
    BY <1>a, <1>6 DEF AsyncTool, AsyncAcquire, AsyncStart, AsyncDenied, AsyncReturn, AsyncPanic, AsyncSave,
                      CallInv, Returned
  <2>4. tool' = tool \/ \E new : tool' = [tool EXCEPT ![c] = new]
    BY <1>6 DEF AsyncTool, AsyncAcquire, AsyncStart, AsyncDenied, AsyncReturn, AsyncPanic, AsyncSave
  <2>5. \A j \in Of("sync") \cup Of("concurrent") : tool'[<<step, j>>] = tool[<<step, j>>]
    <3>1. TAKE j \in Of("sync") \cup Of("concurrent")
    <3>2. <<step, j>> \in CallIds /\ <<step, j>> # c
      BY <1>b, <2>1, <2>3 DEF Modes
    <3>3. QED
      BY <1>a, <2>4, <3>2 DEF TypeOK
  <2>6. QED
    BY <1>a, <2>1, <2>2, <2>5 DEF TurnInv, InTools
<1>7. QED
  BY <1>1, <1>2, <1>3, <1>4, <1>5, <1>6, Zenon DEF Next, Loop, Streaming

(* At a checkpoint, what has returned is stored.                           *)
LEMMA CheckpointStored ==
  ASSUME Inv, pc = "checkpoint", NEW k \in 1 .. Len(calls[step]),
         k \notin Of("async"), Returned(<<step, k>>)
  PROVE  results[<<step, k>>] # <<>> /\ <<step, k>> \in CallIds
<1>a. TypeOK /\ PhaseInv /\ TurnInv /\ \A c \in CallIds : CallInv(c)
  BY Zenon DEF Inv, ToolInv
<1>1. step \in Steps
  BY <1>a DEF PhaseInv
<1>2. /\ <<step, k>> \in CallIds /\ <<step, k>> \in CallsMade
      /\ Mode(<<step, k>>) = calls[step][k] /\ calls[step][k] \in Modes
  BY <1>a, <1>1, CallsShape
<1>3. k \in Of("sync") \cup Of("concurrent") /\ Mode(<<step, k>>) # "async"
  BY <1>2 DEF Of, Modes
<1>4. k \in handled
  BY <1>a, <1>3 DEF TurnInv, Returned
<1>5. QED
  BY <1>a, <1>2, <1>3, <1>4 DEF CallInv, Handled

-----------------------------------------------------------------------------
(* What the store is given.                                                *)

(* A list that starts with the accumulated parts and goes on with parts of *)
(* the current step, and says nothing untrue of a tool.                    *)
Extends(P) ==
    /\ P \in Seq(Parts) /\ Len(P) \in Nat /\ Len(accumulated) \in Nat
    /\ Len(accumulated) <= Len(P)
    /\ \A j \in 1 .. Len(P) : IF j <= Len(accumulated) THEN P[j] = accumulated[j]
                              ELSE P[j].step = step
    /\ \A j \in 1 .. Len(P) : Truthful(P[j])

LEMMA SettledTruthful ==
  ASSUME Inv, outcome # "error"
  PROVE  /\ \A j \in 1 .. Len(accumulated) : Truthful(accumulated[j])
         /\ accumulated \in Seq(Parts) /\ Len(accumulated) \in Nat
<1>a. TypeOK /\ AccumulatedInv
  BY Zenon DEF Inv
<1>1. accumulated \in Seq(Parts)
  BY <1>a, Zenon DEF TypeOK
<1>2. \A j \in DOMAIN accumulated : Truthful(accumulated[j])
  <2>1. TAKE j \in DOMAIN accumulated
  <2>2. Settled(accumulated[j])
    BY <1>a DEF AccumulatedInv
  <2>3. CASE accumulated[j].kind = "call"
    <3>1. IdOf(accumulated[j]) \in CallIds
      BY <1>a, <2>3 DEF AccumulatedInv, IdsIn, CallsIn, CallsBefore, CallsMade
    <3>2. QED
      BY <2>2, <2>3, <3>1 DEF Settled, Truthful
  <2>4. CASE accumulated[j].kind # "call"
    BY <2>2, <2>4 DEF Settled, Truthful
  <2>5. QED
    BY <2>3, <2>4
<1>3. DOMAIN accumulated = 1 .. Len(accumulated) /\ Len(accumulated) \in Nat
  BY <1>1
<1>4. QED
  BY <1>1, <1>2, <1>3

LEMMA ExtendsAccumulated ==
  ASSUME Inv, outcome # "error", NEW Q \in Seq(Parts),
         \A j \in 1 .. Len(Q) : Q[j].step = step /\ Truthful(Q[j])
  PROVE  /\ Extends(accumulated \o Q)
         /\ IdsIn(Q) \subseteq IdsIn(accumulated \o Q)
<1>0. PICK P, n : P = accumulated \o Q /\ n = Len(accumulated)
  OBVIOUS
<1>1. /\ P \in Seq(Parts) /\ n \in Nat /\ Len(Q) \in Nat /\ Len(P) = n + Len(Q)
      /\ DOMAIN P = 1 .. n + Len(Q) /\ DOMAIN Q = 1 .. Len(Q)
      /\ \A j \in 1 .. n : P[j] = accumulated[j] /\ Truthful(P[j])
      /\ \A j \in 1 .. Len(Q) : P[n + j] = Q[j]
  BY <1>0, SettledTruthful, ConcatShape
<1>2. ASSUME NEW j \in 1 .. n + Len(Q), j > n
      PROVE  P[j].step = step /\ Truthful(P[j])
  <2>1. j - n \in 1 .. Len(Q) /\ j = n + (j - n)
    BY <1>1, <1>2
  <2>2. P[j] = Q[j - n]
    BY <1>1, <2>1
  <2>3. QED
    BY <2>1, <2>2
<1>3. \A j \in 1 .. Len(P) : IF j <= n THEN P[j] = accumulated[j] ELSE P[j].step = step
  BY <1>1, <1>2
<1>4. \A j \in 1 .. Len(P) : Truthful(P[j])
  BY <1>1, <1>2
<1>5. Extends(P)
  BY <1>0, <1>1, <1>3, <1>4 DEF Extends
<1>6. IdsIn(Q) \subseteq IdsIn(P)
  <2>1. SUFFICES ASSUME NEW j \in CallsIn(Q) PROVE IdOf(Q[j]) \in IdsIn(P)
    BY DEF IdsIn
  <2>2. j \in 1 .. Len(Q) /\ Q[j].kind = "call"
    BY <1>1 DEF CallsIn
  <2>3. P[n + j] = Q[j] /\ n + j \in 1 .. n + Len(Q)
    BY <1>1, <2>2
  <2>4. n + j \in CallsIn(P)
    BY <1>1, <2>2, <2>3 DEF CallsIn
  <2>5. QED
    BY <2>3, <2>4 DEF IdsIn
<1>7. QED
  BY <1>0, <1>5, <1>6

LEMMA ExtendsIds ==
  ASSUME TypeOK, NEW P, Extends(P)
  PROVE  IdsIn(accumulated) \subseteq IdsIn(P)
<1>1. DOMAIN P = 1 .. Len(P) /\ DOMAIN accumulated = 1 .. Len(accumulated)
  BY DEF Extends, TypeOK
<1>2. SUFFICES ASSUME NEW j \in CallsIn(accumulated) PROVE IdOf(accumulated[j]) \in IdsIn(P)
  BY DEF IdsIn
<1>3. j \in 1 .. Len(accumulated) /\ j \in 1 .. Len(P)
  BY <1>1 DEF CallsIn, Extends
<1>4. P[j] = accumulated[j]
  BY <1>3 DEF Extends
<1>5. j \in CallsIn(P)
  BY <1>1, <1>3, <1>4 DEF CallsIn
<1>6. QED
  BY <1>4, <1>5 DEF IdsIn

(* The parts of a step, whenever the loop stores them with the results.    *)
LEMMA CurrentTruthful ==
  ASSUME Inv, step \in Steps,
         pc = "checkpoint" \/ (pc = "tools" /\ handled = 1 .. Len(calls[step]))
  PROVE  /\ CurrentParts \in Seq(Parts)
         /\ \A j \in 1 .. Len(CurrentParts) :
               CurrentParts[j].step = step /\ Truthful(CurrentParts[j])
         /\ \A k \in 1 .. Len(calls[step]) : <<step, k>> \in IdsIn(CurrentParts)
<1>a. TypeOK
  BY Zenon DEF Inv
<1>0. PICK Q, T, L : Q = CurrentParts /\ T = Texts(calls[step]) /\ L = Len(calls[step])
  OBVIOUS
<1>1. /\ Q \in Seq(Parts) /\ T \in Nat /\ L \in Nat /\ Len(Q) = T + L
      /\ DOMAIN Q = 1 .. Len(Q)
      /\ \A m \in 1 .. T : Q[m].kind # "call" /\ Q[m].step = step /\ Q[m].state = "done"
      /\ \A k \in 1 .. L : Q[T + k] = Part(step, "call", k, CallState(k))
  BY <1>0, <1>a, CurrentPartsShape
<1>2. ASSUME NEW k \in 1 .. L
      PROVE  /\ T + k \in 1 .. Len(Q)
             /\ Q[T + k].kind = "call" /\ Q[T + k].step = step
             /\ IdOf(Q[T + k]) = <<step, k>> /\ Q[T + k].state = CallState(k)
  <2>1. T + k \in 1 .. Len(Q)
    BY <1>1
  <2>2. Q[T + k] = Part(step, "call", k, CallState(k))
    BY <1>1
  <2>3. QED
    BY <2>1, <2>2 DEF Part, IdOf
<1>3. ASSUME NEW k \in 1 .. L
      PROVE  Truthful(Q[T + k])
  <2>1. CASE CallState(k) = "pending"
    BY <1>2, <2>1 DEF Truthful
  <2>2. CASE CallState(k) # "pending"
    <3>1. k \notin Of("async") /\ Returned(<<step, k>>) /\ CallState(k) = tool[<<step, k>>]
      BY <2>2 DEF CallState
    <3>2. <<step, k>> \in CallIds /\ Mode(<<step, k>>) = calls[step][k]
      BY <1>0, <1>a, CallsShape
    <3>3. Mode(<<step, k>>) # "async"
      BY <1>0, <3>1, <3>2 DEF Of
    <3>4. results[<<step, k>>] # <<>>
      BY <1>0, <3>1, <3>3, CheckpointStored, FinishedCall
    <3>5. QED
      BY <1>2, <3>1, <3>2, <3>4 DEF Truthful
  <2>3. QED
    BY <2>1, <2>2
<1>4. ASSUME NEW j \in 1 .. Len(Q)
      PROVE  Q[j].step = step /\ Truthful(Q[j])
  <2>1. CASE j <= T
    BY <1>1, <2>1 DEF Truthful
  <2>2. CASE j > T
    <3>1. j - T \in 1 .. L /\ j = T + (j - T)
      BY <1>1, <2>2
    <3>2. QED
      BY <1>2, <1>3, <3>1
  <2>3. QED
    BY <1>1, <2>1, <2>2
<1>5. \A k \in 1 .. L : <<step, k>> \in IdsIn(Q)
  BY <1>1, <1>2 DEF IdsIn, CallsIn
<1>6. QED
  BY <1>0, <1>1, <1>4, <1>5

(* The parts of a reply, before its tools run.                             *)
LEMMA PendingTruthful ==
  ASSUME TypeOK, step \in Steps, NEW cs, cs \in Seq(Modes), Len(cs) \in 0 .. MaxCalls,
         NEW Q, Q = PartsOf(cs, [k \in 1 .. Len(cs) |-> "pending"])
  PROVE  /\ Q \in Seq(Parts)
         /\ \A j \in 1 .. Len(Q) : Q[j].step = step /\ Truthful(Q[j])
         /\ \A k \in 1 .. Len(cs) : <<step, k>> \in IdsIn(Q)
<1>0. PICK states, T, L : /\ states = [k \in 1 .. Len(cs) |-> "pending"]
                          /\ T = Texts(cs) /\ L = Len(cs)
  OBVIOUS
<1>1. /\ Q \in Seq(Parts) /\ T \in Nat /\ L \in Nat /\ Len(Q) = T + L
      /\ DOMAIN Q = 1 .. Len(Q)
      /\ \A m \in 1 .. T : Q[m].kind # "call" /\ Q[m].step = step /\ Q[m].state = "done"
      /\ \A k \in 1 .. L : Q[T + k] = Part(step, "call", k, "pending")
  <2>1. \A k \in 1 .. Len(cs) : states[k] = "pending" /\ states[k] \in PartStates
    BY <1>0 DEF PartStates
  <2>2. Q = PartsOf(cs, states) /\ Len(cs) <= MaxCalls
    <3>1. Len(cs) <= MaxCalls
      BY ConstantTypes
    <3>2. QED
      BY <1>0, <3>1, Zenon
  <2>3. /\ PartsOf(cs, states) \in Seq(Parts)
        /\ Texts(cs) \in Nat /\ Len(cs) \in Nat
        /\ Len(PartsOf(cs, states)) = Texts(cs) + Len(cs)
        /\ \A m \in 1 .. Texts(cs) :
              /\ PartsOf(cs, states)[m].kind # "call"
              /\ PartsOf(cs, states)[m].step = step
              /\ PartsOf(cs, states)[m].state = "done"
        /\ \A k \in 1 .. Len(cs) :
              PartsOf(cs, states)[Texts(cs) + k] = Part(step, "call", k, states[k])
    <3>1. \A k \in 1 .. Len(cs) : states[k] \in PartStates
      BY <2>1, Zenon
    <3>2. QED
      BY <2>2, <3>1, PartsOfShape, Zenon
  <2>4. /\ Q \in Seq(Parts) /\ T \in Nat /\ L \in Nat /\ Len(Q) = T + L
        /\ \A m \in 1 .. T : Q[m].kind # "call" /\ Q[m].step = step /\ Q[m].state = "done"
        /\ \A k \in 1 .. L : Q[T + k] = Part(step, "call", k, states[k])
    BY <1>0, <2>2, <2>3, Zenon
  <2>5. QED
    <3>1. DOMAIN Q = 1 .. Len(Q)
      BY <2>4
    <3>2. \A k \in 1 .. L : states[k] = "pending"
      BY <1>0, <2>1, Zenon
    <3>3. \A k \in 1 .. L : Q[T + k] = Part(step, "call", k, "pending")
      BY <2>4, <3>2, Zenon
    <3>4. QED
      BY <2>4, <3>1, <3>3, Zenon
<1>2. ASSUME NEW k \in 1 .. L
      PROVE  /\ T + k \in 1 .. Len(Q)
             /\ Q[T + k].kind = "call" /\ Q[T + k].step = step
             /\ IdOf(Q[T + k]) = <<step, k>> /\ Q[T + k].state = "pending"
  <2>1. T + k \in 1 .. Len(Q)
    BY <1>1
  <2>2. Q[T + k] = Part(step, "call", k, "pending")
    BY <1>1
  <2>3. QED
    BY <2>1, <2>2 DEF Part, IdOf
<1>4. ASSUME NEW j \in 1 .. Len(Q)
      PROVE  Q[j].step = step /\ Truthful(Q[j])
  <2>1. CASE j <= T
    BY <1>1, <2>1 DEF Truthful
  <2>2. CASE j > T
    <3>1. j - T \in 1 .. L /\ j = T + (j - T)
      BY <1>1, <2>2
    <3>2. QED
      BY <1>2, <3>1 DEF Truthful
  <2>3. QED
    BY <1>1, <2>1, <2>2
<1>5. \A k \in 1 .. L : <<step, k>> \in IdsIn(Q)
  BY <1>1, <1>2 DEF IdsIn, CallsIn
<1>6. QED
  BY <1>0, <1>1, <1>4, <1>5

(* A list that extends what is accumulated has every call, if it has those *)
(* of the step.                                                            *)
LEMMA Covered ==
  ASSUME Inv, pc # "ended", NEW P, Extends(P),
         \A c \in CallsMade : c[1] = step => c \in IdsIn(P)
  PROVE  CallsMade \subseteq IdsIn(P)
<1>a. TypeOK /\ PhaseInv /\ AccumulatedInv /\ outcome # "error"
  BY Zenon DEF Inv, PhaseInv
<1>1. SUFFICES ASSUME NEW c \in CallsMade PROVE c \in IdsIn(P)
  OBVIOUS
<1>2. c \in CallIds /\ c[1] \in Steps /\ c[1] <= step
  BY <1>a, CallsMadeSoFar
<1>3. c[1] = step \/ c[1] < step
  BY <1>2, <1>a, ConstantTypes DEF Steps, TypeOK
<1>4. c[1] < step => c \in IdsIn(accumulated)
  BY <1>a DEF AccumulatedInv, CallsBefore
<1>5. QED
  BY <1>a, <1>3, <1>4, ExtendsIds

(* What a write of the row has to do, and when it may fail to.             *)
Covers(P) == Extends(P) /\ CallsMade' \subseteq IdsIn(P)

LEMMA StepCreateWrites ==
  ASSUME Inv, StepCreate
  PROVE  UNCHANGED <<row, calls>> \/ (faults' = faults /\ Covers(row'.parts))
<1>a. TypeOK /\ PhaseInv /\ AccumulatedInv /\ outcome # "error" /\ pc # "ended"
  BY Zenon DEF Inv, PhaseInv, StepCreate
<1>1. calls' = calls /\ step \in Steps /\ pc = "top"
  BY <1>a, ConstantTypes DEF StepCreate, Steps, TypeOK
<1>2. Extends(accumulated)
  BY SettledTruthful, <1>a, ConstantTypes DEF Extends
<1>3. CallsMade \subseteq IdsIn(accumulated)
  <2>1. \A c \in CallsMade : c[1] # step
    BY <1>a, <1>1, CallsMadeSoFar, ConstantTypes DEF Steps
  <2>2. QED
    BY <1>a, <1>2, <2>1, Covered
<1>4. CallsMade' = CallsMade
  BY <1>1 DEF CallsMade
<1>5. CASE Upsert(accumulated)
  BY <1>a, <1>1, <1>2, <1>3, <1>4, <1>5, UpsertEffect DEF Covers
<1>6. CASE UNCHANGED row
  BY <1>1, <1>6
<1>7. QED
  BY <1>5, <1>6 DEF StepCreate

LEMMA TextDeltaWrites ==
  ASSUME Inv, TextDelta
  PROVE  UNCHANGED <<row, calls>> \/ (faults' = faults /\ Covers(row'.parts))
<1>a. TypeOK /\ PhaseInv /\ AccumulatedInv /\ outcome # "error" /\ pc # "ended"
  BY Zenon DEF Inv, PhaseInv, TextDelta
<1>1. calls' = calls /\ step \in Steps /\ pc = "stream"
  BY <1>a DEF TextDelta, PhaseInv
<1>0. PICK r : r = [reply EXCEPT !.text = TRUE]
  OBVIOUS
<1>2. r \in [reasoning : BOOLEAN, text : BOOLEAN]
  BY <1>0, <1>a DEF TypeOK
<1>3. PICK P : P = StreamingParts(r)
  OBVIOUS
<1>4. Extends(P)
  BY <1>a, <1>1, <1>2, <1>3, StreamingPartsShape, SettledTruthful DEF Extends, Truthful
<1>5. CallsMade \subseteq IdsIn(P)
  <2>1. \A c \in CallsMade : c[1] # step
    BY <1>a, <1>1, CallsMadeSoFar, ConstantTypes DEF Steps
  <2>2. QED
    BY <1>a, <1>4, <2>1, Covered
<1>6. CallsMade' = CallsMade
  BY <1>1 DEF CallsMade
<1>7. CASE Upsert(P)
  BY <1>a, <1>1, <1>4, <1>5, <1>6, <1>7, UpsertEffect DEF Covers
<1>8. CASE UNCHANGED row
  BY <1>1, <1>8
<1>9. QED
  BY <1>0, <1>3, <1>7, <1>8 DEF TextDelta

LEMMA StreamEndsWrites ==
  ASSUME Inv, NEW cs \in BoundedSeq(Modes, CallLimit[step]), StreamEnds(cs)
  PROVE  \/ UNCHANGED row /\ (faults' > faults \/ closed)
         \/ faults' = faults /\ Covers(row'.parts)
<1>a. TypeOK /\ PhaseInv /\ AccumulatedInv /\ outcome # "error" /\ pc # "ended" /\ pc = "stream"
  BY Zenon DEF Inv, PhaseInv, StreamEnds
<1>1. step \in Steps /\ cs \in Seq(Modes) /\ Len(cs) \in 0 .. MaxCalls
      /\ calls' = [calls EXCEPT ![step] = cs]
  BY <1>a, ReplyShape DEF StreamEnds
<1>2. PICK Q : Q = PartsOf(cs, [k \in 1 .. Len(cs) |-> "pending"])
  OBVIOUS
<1>3. /\ Q \in Seq(Parts)
      /\ \A j \in 1 .. Len(Q) : Q[j].step = step /\ Truthful(Q[j])
      /\ \A k \in 1 .. Len(cs) : <<step, k>> \in IdsIn(Q)
  BY <1>a, <1>1, <1>2, PendingTruthful
<1>4. Extends(accumulated \o Q) /\ IdsIn(Q) \subseteq IdsIn(accumulated \o Q)
  BY <1>a, <1>3, ExtendsAccumulated
<1>5. \A c \in CallsMade : c[1] # step
  BY <1>a, <1>1, CallsMadeSoFar, ConstantTypes DEF Steps
<1>6. CallsMade \subseteq IdsIn(accumulated \o Q)
  BY <1>a, <1>4, <1>5, Covered
<1>7. CallsMade' \subseteq IdsIn(accumulated \o Q)
  <2>1. SUFFICES ASSUME NEW c \in CallsMade' PROVE c \in IdsIn(accumulated \o Q)
    OBVIOUS
  <2>2. /\ c \in CallIds /\ c[2] <= Len(calls'[c[1]])
        /\ c = <<c[1], c[2]>> /\ c[1] \in Steps /\ c[2] \in 1 .. MaxCalls
    BY <2>1 DEF CallsMade, CallIds
  <2>3. CASE c[1] = step
    <3>1. c[2] \in 1 .. Len(cs)
      BY <1>a, <1>1, <2>2, <2>3, ConstantTypes DEF TypeOK
    <3>2. QED
      BY <1>3, <1>4, <2>2, <2>3, <3>1
  <2>4. CASE c[1] # step
    <3>1. c \in CallsMade
      BY <1>a, <1>1, <2>2, <2>4 DEF TypeOK, CallsMade
    <3>2. QED
      BY <1>6, <3>1
  <2>5. QED
    BY <2>3, <2>4
<1>8. Upsert(accumulated \o Q)
  BY <1>2 DEF StreamEnds
<1>9. QED
  BY <1>a, <1>4, <1>7, <1>8, UpsertEffect DEF Covers

LEMMA CurrentCovers ==
  ASSUME Inv, step \in Steps, calls' = calls,
         pc = "checkpoint" \/ (pc = "tools" /\ handled = 1 .. Len(calls[step]))
  PROVE  Covers(accumulated \o CurrentParts)
<1>a. TypeOK /\ PhaseInv /\ AccumulatedInv /\ outcome # "error" /\ pc # "ended"
  BY Zenon DEF Inv, PhaseInv
<1>1. PICK Q : Q = CurrentParts
  OBVIOUS
<1>2. /\ Q \in Seq(Parts)
      /\ \A j \in 1 .. Len(Q) : Q[j].step = step /\ Truthful(Q[j])
      /\ \A k \in 1 .. Len(calls[step]) : <<step, k>> \in IdsIn(Q)
  BY <1>1, CurrentTruthful
<1>3. Extends(accumulated \o Q) /\ IdsIn(Q) \subseteq IdsIn(accumulated \o Q)
  BY <1>a, <1>2, ExtendsAccumulated
<1>4. ASSUME NEW c \in CallsMade, c[1] = step
      PROVE  c \in IdsIn(accumulated \o Q)
  <2>1. c = <<c[1], c[2]>> /\ c[2] \in 1 .. Len(calls[c[1]])
    BY <1>a, CallsMadeSoFar
  <2>2. QED
    BY <1>2, <1>3, <1>4, <2>1
<1>5. CallsMade \subseteq IdsIn(accumulated \o Q)
  BY <1>a, <1>3, <1>4, Covered
<1>6. CallsMade' = CallsMade
  BY DEF CallsMade
<1>7. QED
  BY <1>1, <1>3, <1>5, <1>6 DEF Covers

LEMMA CheckpointWrites ==
  ASSUME Inv, Checkpoint
  PROVE  UNCHANGED <<row, calls>> \/ (faults' = faults /\ Covers(row'.parts))
<1>a. TypeOK /\ PhaseInv
  BY Zenon DEF Inv
<1>1. calls' = calls /\ pc = "checkpoint" /\ step \in Steps /\ Upsert(accumulated \o CurrentParts)
  BY <1>a DEF Checkpoint, PhaseInv
<1>2. Covers(accumulated \o CurrentParts)
  BY <1>1, CurrentCovers
<1>3. QED
  BY <1>a, <1>1, <1>2, UpsertEffect

LEMMA PersistWrites ==
  ASSUME Inv, Persist
  PROVE  UNCHANGED <<row, calls>> \/ (faults' = faults /\ Covers(row'.parts))
<1>a. TypeOK /\ PhaseInv
  BY Zenon DEF Inv
<1>1. calls' = calls /\ pc = "tools" /\ step \in Steps
  BY <1>a DEF Persist, PhaseInv
<1>2. PICK ids : ids = [k \in 1 .. Len(calls[step]) |-> <<step, k>>]
  OBVIOUS
<1>3. Len(ids) = Len(calls[step])
  BY <1>a, <1>1, <1>2, CallsShape
<1>4. handled = 1 .. Len(calls[step])
  BY <1>2, <1>3 DEF Persist
<1>5. Covers(accumulated \o CurrentParts)
  BY <1>1, <1>4, CurrentCovers
<1>6. accumulated' = accumulated \o CurrentParts
  BY DEF Persist
<1>7. CASE UpdateOk(accumulated', madeCalls')
  BY <1>5, <1>6, <1>7 DEF UpdateOk, Succeeds
<1>8. CASE UpdateFails
  BY <1>1, <1>8 DEF UpdateFails
<1>9. QED
  BY <1>7, <1>8 DEF Persist


(* A step leaves the row alone, fails to write it, or writes what extends  *)
(* the accumulated parts by those of the step.                             *)
LEMMA RowSteps ==
  ASSUME Inv, [Next]_vars
  PROVE  \/ UNCHANGED <<row, calls>>
         \/ UNCHANGED row /\ (faults' > faults \/ closed)
         \/ pc # "ended" /\ faults' = faults /\ Covers(row'.parts)
<1>1. CASE Prepare \/ StepLimit \/ BuildContext \/ CreateParts \/ Close \/ UNCHANGED vars
  BY <1>1, Zenon DEF Prepare, StepLimit, BuildContext, CreateParts, Close, storeVars, vars
<1>2. CASE StepCreate
  BY <1>2, StepCreateWrites, ClosedStays DEF StepCreate
<1>3. CASE Streaming
  <2>1. CASE TextDelta
    BY <2>1, TextDeltaWrites DEF TextDelta
  <2>2. CASE ReasoningDelta \/ StreamFails
    BY <2>2, Zenon DEF ReasoningDelta, StreamFails, storeVars
  <2>3. ASSUME NEW cs \in BoundedSeq(Modes, CallLimit[step]), StreamEnds(cs)
        PROVE  \/ UNCHANGED row /\ (faults' > faults \/ closed)
               \/ pc # "ended" /\ faults' = faults /\ Covers(row'.parts)
    BY <2>3, StreamEndsWrites DEF StreamEnds
  <2>4. QED
    BY <1>3, <2>1, <2>2, <2>3 DEF Streaming
<1>4. ASSUME NEW k \in 1 .. MaxCalls, ToolCall(k)
      PROVE  UNCHANGED <<row, calls>>
  BY <1>4, Zenon DEF ToolCall, SyncAnnounce, ToolStart, ToolReturn, SyncSave, ConcurrentAcquire, ConcurrentAnnounce, ConcurrentDenied,
                     ConcurrentSave, AsyncLaunch, storeVars
<1>5. CASE Checkpoint
  BY <1>5, CheckpointWrites DEF Checkpoint
<1>6. CASE Persist
  BY <1>6, PersistWrites DEF Persist
<1>7. ASSUME NEW c \in CallIds, AsyncTool(c)
      PROVE  UNCHANGED <<row, calls>>
  BY <1>7, Zenon DEF AsyncTool, AsyncAcquire, AsyncStart, AsyncDenied, AsyncReturn, AsyncPanic, AsyncSave, storeVars
<1>8. QED
  BY <1>1, <1>2, <1>3, <1>4, <1>5, <1>6, <1>7, Zenon DEF Next, Loop

(* The tool rows change only in a live session, and faults are counted.    *)
LEMMA StoreSteps ==
  ASSUME TypeOK, [Next]_vars
  PROVE  /\ closed => results' = results
         /\ faults <= faults'
<1>1. faults \in Nat
  BY ConstantTypes DEF TypeOK
<1>2. UNCHANGED <<results, faults>> => (closed => results' = results) /\ faults <= faults'
  BY <1>1
<1>3. CASE StepLimit \/ CreateParts \/ Close \/ UNCHANGED vars
  BY <1>2, <1>3 DEF StepLimit, CreateParts, Close, storeVars, vars
<1>4. CASE Prepare \/ BuildContext
  BY <1>1, <1>4 DEF Prepare, BuildContext, Succeeds, Fails
<1>5. ASSUME NEW parts, Upsert(parts)
      PROVE  faults <= faults'
  BY <1>1, <1>5 DEF Upsert, Succeeds, Fails
<1>6. CASE StepCreate \/ Checkpoint
  BY <1>1, <1>5, <1>6 DEF StepCreate, Checkpoint
<1>7. CASE Streaming
  <2>1. CASE TextDelta
    BY <1>1, <1>5, <2>1 DEF TextDelta
  <2>2. CASE ReasoningDelta \/ StreamFails
    BY <1>2, <2>2 DEF ReasoningDelta, StreamFails, storeVars
  <2>3. ASSUME NEW cs, StreamEnds(cs)
        PROVE  (closed => results' = results) /\ faults <= faults'
    BY <1>5, <2>3 DEF StreamEnds
  <2>4. QED
    BY <1>7, <2>1, <2>2, <2>3 DEF Streaming
<1>8. ASSUME NEW k \in 1 .. MaxCalls, ToolCall(k)
      PROVE  (closed => results' = results) /\ faults <= faults'
  <2>1. CASE SyncAnnounce(k) \/ ToolStart(k) \/ ToolReturn(k) \/ ConcurrentAcquire(k) \/ ConcurrentAnnounce(k) \/ ConcurrentDenied(k)
             \/ AsyncLaunch(k)
    BY <1>2, <2>1 DEF SyncAnnounce, ToolStart, ToolReturn, ConcurrentAcquire, ConcurrentAnnounce, ConcurrentDenied, AsyncLaunch, storeVars
  <2>2. CASE SyncSave(k) \/ ConcurrentSave(k)
    BY <1>1, <2>2 DEF SyncSave, ConcurrentSave, AddResult, Succeeds, Fails
  <2>3. QED
    BY <1>8, <2>1, <2>2 DEF ToolCall
<1>9. CASE Persist
  BY <1>1, <1>9 DEF Persist, UpdateOk, UpdateFails, Succeeds, Fails
<1>10. ASSUME NEW c \in CallIds, AsyncTool(c)
       PROVE  (closed => results' = results) /\ faults <= faults'
  <2>1. CASE AsyncAcquire(c) \/ AsyncStart(c) \/ AsyncDenied(c) \/ AsyncReturn(c) \/ AsyncPanic(c)
    BY <1>2, <2>1 DEF AsyncAcquire, AsyncStart, AsyncDenied, AsyncReturn, AsyncPanic, storeVars
  <2>2. CASE AsyncSave(c)
    BY <1>1, <2>2 DEF AsyncSave, AddResult, Succeeds, Fails
  <2>3. QED
    BY <1>10, <2>1, <2>2 DEF AsyncTool
<1>11. QED
  BY <1>3, <1>4, <1>6, <1>7, <1>8, <1>9, <1>10 DEF Next, Loop

LEMMA RowHasCallsNext ==
  ASSUME Inv, [Next]_vars
  PROVE  RowHasCallsInv'
<1>. SUFFICES ASSUME faults' = 0, NEW c \in CallsMade',
                     c \notin IdsIn(row'.parts)
              PROVE  closed' /\ results'[c] = <<>>
  BY DEF RowHasCallsInv
<1>a. TypeOK /\ ToolInv /\ RowHasCallsInv
  BY Zenon DEF Inv
<1>1. faults = 0
  BY <1>a, StoreSteps, ConstantTypes DEF TypeOK
<1>2. ASSUME closed, results[c] = <<>>
      PROVE  closed' /\ results'[c] = <<>>
  BY <1>a, <1>2, StoreSteps, ClosedStays
<1>3. CASE UNCHANGED <<row, calls>>
  <2>1. c \in CallsMade
    BY <1>3 DEF CallsMade
  <2>2. QED
    BY <1>a, <1>1, <1>2, <1>3, <2>1 DEF RowHasCallsInv
<1>4. CASE UNCHANGED row /\ closed
  <2>1. c \in CallIds
    BY DEF CallsMade
  <2>2. CASE c \in CallsMade
    BY <1>a, <1>1, <1>2, <1>4, <2>2 DEF RowHasCallsInv
  <2>3. CASE c \notin CallsMade
    BY <1>a, <1>2, <1>4, <2>1, <2>3 DEF ToolInv, CallInv
  <2>4. QED
    BY <2>2, <2>3
<1>5. CASE Covers(row'.parts)
  BY <1>5 DEF Covers
<1>6. QED
  BY <1>1, <1>3, <1>4, <1>5, RowSteps

(* Between two steps only a persist or the rewrite at the top of the next  *)
(* step touches the row.                                                   *)
LEMMA BetweenSteps ==
  ASSUME [Next]_vars, pc' \in {"prepare", "top", "context"}
  PROVE  \/ Persist \/ StepCreate
         \/ pc \in {"prepare", "top", "context"} /\ UNCHANGED <<row, accumulated>>
<1>1. CASE Close \/ UNCHANGED vars
  BY <1>1 DEF Close, vars, loopVars, storeVars, partVars
<1>2. CASE Prepare \/ StepLimit \/ BuildContext \/ CreateParts \/ Checkpoint
  BY <1>2 DEF Prepare, StepLimit, BuildContext, CreateParts, Checkpoint, partVars, Abort
<1>3. CASE Streaming
  <2>1. CASE TextDelta \/ ReasoningDelta \/ StreamFails
    BY <2>1 DEF TextDelta, ReasoningDelta, StreamFails, loopVars, Abort
  <2>2. ASSUME NEW cs, StreamEnds(cs)
        PROVE  FALSE
    BY <2>2 DEF StreamEnds
  <2>3. QED
    BY <1>3, <2>1, <2>2 DEF Streaming
<1>4. ASSUME NEW k \in 1 .. MaxCalls, ToolCall(k)
      PROVE  FALSE
  BY <1>4 DEF ToolCall, SyncAnnounce, ToolStart, ToolReturn, SyncSave, ConcurrentAcquire, ConcurrentAnnounce, ConcurrentDenied,
              ConcurrentSave, ConcurrentPhase, AsyncLaunch, loopVars, Abort
<1>5. ASSUME NEW c \in CallIds, AsyncTool(c)
      PROVE  pc \in {"prepare", "top", "context"} /\ UNCHANGED <<row, accumulated>>
  BY <1>5 DEF AsyncTool, AsyncAcquire, AsyncStart, AsyncDenied, AsyncReturn, AsyncPanic, AsyncSave,
              loopVars, partVars, storeVars
<1>6. QED
  BY <1>1, <1>2, <1>3, <1>4, <1>5 DEF Next, Loop

LEMMA DoneByPersist ==
  ASSUME [Next]_vars, outcome' = "done"
  PROVE  Persist \/ outcome = "done"
<1>1. ASSUME NEW cs, StreamEnds(cs)
      PROVE  outcome = "done"
  BY <1>1 DEF StreamEnds
<1>2. ASSUME NEW k \in 1 .. MaxCalls, SyncSave(k) \/ ConcurrentSave(k) \/ AsyncLaunch(k)
      PROVE  outcome = "done"
  BY <1>2 DEF SyncSave, ConcurrentSave, AsyncLaunch, Abort
<1>3. CASE Prepare \/ StepLimit \/ StepCreate \/ BuildContext \/ StreamFails \/ CreateParts
           \/ Checkpoint \/ UNCHANGED loopVars
  BY <1>3 DEF Prepare, StepLimit, StepCreate, BuildContext, StreamFails, CreateParts, Checkpoint,
              Abort, loopVars
<1>4. QED
  BY <1>1, <1>2, <1>3, LoopSteps

LEMMA RowNext ==
  ASSUME Inv, [Next]_vars
  PROVE  RowInv'
<1>a. TypeOK /\ PhaseInv /\ RowInv
  BY Zenon DEF Inv
<1>b. TypeOK' /\ (pc' # "ended" => outcome' # "error")
  <2>1. TypeOK' /\ PhaseInv'
    BY TypeNext, PhaseNext DEF Inv
  <2>2. QED
    BY <2>1 DEF PhaseInv
<1>c. \/ UNCHANGED row
      \/ pc # "ended" /\ Extends(row'.parts)
  BY RowSteps DEF Covers
<1>1. ASSUME NEW j \in DOMAIN row'.parts
      PROVE  Truthful(row.parts[j])'
  <2>1. Truthful(row'.parts[j])
    <3>1. CASE UNCHANGED row
      BY <1>a, <1>1, <3>1 DEF RowInv
    <3>2. CASE Extends(row'.parts)
      BY <1>1, <3>2 DEF Extends
    <3>3. QED
      BY <1>c, <3>1, <3>2
  <2>2. PICK p : p = row'.parts[j]
    OBVIOUS
  <2>3. ASSUME p.state \in {"complete", "error"}
        PROVE  /\ IdOf(p) \in CallIds
               /\ results'[IdOf(p)] # <<>> /\ p.state = tool'[IdOf(p)]
    <3>1. IdOf(p) \in CallIds /\ results[IdOf(p)] # <<>> /\ p.state = tool[IdOf(p)]
      BY <2>1, <2>2, <2>3 DEF Truthful
    <3>2. results'[IdOf(p)] = results[IdOf(p)] /\ tool'[IdOf(p)] = tool[IdOf(p)]
      BY <3>1, ResultsStay
    <3>3. QED
      BY <3>1, <3>2
  <2>4. QED
    BY <2>2, <2>3 DEF Truthful, IdOf
<1>2. ASSUME Persist, outcome' # "error"
      PROVE  row'.parts = accumulated' /\ row'.calls = madeCalls'
  BY <1>2, PersistEffect
<1>3. ASSUME pc' # "ended"
      PROVE  /\ Len(accumulated') <= Len(row'.parts)
             /\ \A j \in DOMAIN row'.parts :
                   IF j <= Len(accumulated') THEN row'.parts[j] = accumulated'[j]
                   ELSE row'.parts[j].step = step'
  <2>1. CASE Persist
    <3>1. outcome' # "error"
      BY <1>b, <1>3
    <3>2. row'.parts = accumulated'
      BY <1>2, <2>1, <3>1
    <3>3. accumulated' \in Seq(Parts)
      BY <1>b DEF TypeOK
    <3>4. QED
      BY <3>2, <3>3
  <2>2. CASE UNCHANGED <<step, partVars>>
    <3>1. pc # "ended" /\ UNCHANGED <<step, accumulated>>
      BY <1>3, <2>2, ClosedStays DEF loopVars, partVars
    <3>2. CASE UNCHANGED row
      BY <1>a, <3>1, <3>2 DEF RowInv
    <3>3. CASE Extends(row'.parts)
      BY <3>1, <3>3 DEF Extends
    <3>4. QED
      BY <1>c, <3>2, <3>3
  <2>3. QED
    BY <2>1, <2>2, AccumulatedSteps
<1>4. ASSUME pc' \in {"prepare", "top", "context"}
      PROVE  row'.parts = accumulated'
  <2>1. CASE Persist
    BY <1>2, <1>4, <1>b, <2>1
  <2>2. CASE StepCreate
    <3>1. accumulated' = accumulated /\ row.parts = accumulated
      BY <1>a, <2>2 DEF StepCreate, partVars, RowInv
    <3>2. row' = row \/ row' = [exists |-> TRUE, parts |-> accumulated, calls |-> <<>>]
      BY <2>2 DEF StepCreate, Upsert
    <3>3. QED
      BY <3>1, <3>2
  <2>3. CASE pc \in {"prepare", "top", "context"} /\ UNCHANGED <<row, accumulated>>
    BY <1>a, <2>3 DEF RowInv
  <2>4. QED
    BY <1>4, <2>1, <2>2, <2>3, BetweenSteps
<1>5. ASSUME outcome' = "done"
      PROVE  row'.parts = accumulated' /\ row'.calls = madeCalls'
  <2>1. CASE Persist
    BY <1>2, <1>5, <2>1
  <2>2. CASE outcome = "done"
    <3>1. pc = "ended"
      BY <1>a, <2>2 DEF PhaseInv
    <3>2. UNCHANGED <<row, partVars>>
      BY <3>1, ClosedStays
    <3>3. QED
      BY <1>a, <2>2, <3>2 DEF RowInv, partVars
  <2>3. QED
    BY <1>5, <2>1, <2>2, DoneByPersist
<1>6. QED
  BY <1>1, <1>3, <1>4, <1>5 DEF RowInv


LEMMA InitInv == Init => Inv
<1>. SUFFICES ASSUME Init PROVE Inv
  OBVIOUS
<1>0. TypeOK
  BY InitType
<1>1. Len(<<>>) = 0
  OBVIOUS
<1>2. CallsMade = {}
  <2>1. SUFFICES ASSUME NEW c \in CallIds PROVE ~(c[2] <= Len(calls[c[1]]))
    BY DEF CallsMade
  <2>2. c[1] \in Steps /\ c[2] \in 1 .. MaxCalls
    BY DEF CallIds
  <2>3. calls[c[1]] = <<>>
    BY <2>2 DEF Init
  <2>4. QED
    BY <1>1, <2>2, <2>3, ConstantTypes
<1>3. PhaseInv
  BY DEF Init, PhaseInv
<1>4. ToolInv
  BY <1>2 DEF Init, ToolInv, CallInv
<1>5. TurnInv /\ LateInv
  BY DEF Init, TurnInv, LateInv
<1>14. PermitInv
  <2>1. Holders = {} /\ ~closed
    BY DEF Init, Holders
  <2>2. Cardinality(Holders) = 0
    BY <2>1, FS_EmptySet
  <2>3. QED
    BY <2>1, <2>2, ConstantTypes DEF PermitInv
<1>6. IndexInv /\ ShownInv
  BY <1>2 DEF Init, IndexInv, ShownInv, OnScreen
<1>7. accumulated = <<>> /\ madeCalls = <<>> /\ row.parts = <<>> /\ outcome = "none"
  BY DEF Init
<1>8. DOMAIN accumulated = {} /\ DOMAIN madeCalls = {} /\ CallsIn(accumulated) = {}
      /\ IdsIn(accumulated) = {} /\ ToSet(madeCalls) = {}
  BY <1>7 DEF CallsIn, IdsIn, ToSet
<1>9. CallsBefore(step) = {}
  BY <1>2 DEF CallsBefore
<1>10. AccumulatedInv /\ MadeCallsInv
  BY <1>8, <1>9 DEF AccumulatedInv, MadeCallsInv
<1>11. RowInv
  BY <1>7, <1>8 DEF RowInv
<1>12. RowHasCallsInv
  BY <1>2 DEF RowHasCallsInv
<1>13. QED
  BY <1>0, <1>3, <1>4, <1>5, <1>6, <1>10, <1>11, <1>12, <1>14 DEF Inv

LEMMA InvNext == Inv /\ [Next]_vars => Inv'
<1>. SUFFICES ASSUME Inv, [Next]_vars PROVE Inv'
  OBVIOUS
<1>1. TypeOK' /\ PhaseInv' /\ ToolInv' /\ TurnInv' /\ LateInv' /\ PermitInv'
  BY TypeNext, PhaseNext, ToolNext, TurnNext, LateNext, PermitNext
<1>2. IndexInv' /\ ShownInv' /\ AccumulatedInv' /\ MadeCallsInv'
  BY IndexNext, ShownNext, AccumulatedNext, MadeCallsNext
<1>3. RowInv' /\ RowHasCallsInv'
  BY RowNext, RowHasCallsNext
<1>4. QED
  BY <1>1, <1>2, <1>3 DEF Inv

-----------------------------------------------------------------------------
(* The theorems.                                                           *)

(* What the loop keeps at every instant of every run, whichever store      *)
(* operations fail and whenever the session is stopped.                    *)
THEOREM Invariance == Spec => []Inv
<1>1. Init => Inv
  BY InitInv
<1>2. Inv /\ [Next]_vars => Inv'
  BY InvNext
<1>3. QED
  BY <1>1, <1>2, PTL DEF Spec

(* Every variable keeps its type: no index leaves a reply, no call has two *)
(* tool rows, and what is stored is a list of parts and one of calls.      *)
THEOREM TypeCorrect == Spec => []TypeOK
<1>1. Inv => TypeOK
  BY DEF Inv
<1>2. QED
  BY <1>1, Invariance, PTL

(* A tool row has the outcome of its call, which is final.                 *)
LEMMA ResultOutcome ==
  ASSUME Inv, NEW c \in CallIds, results[c] # <<>>
  PROVE  Returned(c) /\ results[c] = <<tool[c]>> /\ c \in CallsMade
  BY DEF Inv, ToolInv, CallInv

(* When the run has ended well, every call belongs to a finished step.     *)
LEMMA AllBefore ==
  ASSUME Inv, outcome = "done"
  PROVE  CallsBefore(step) = CallsMade
<1>a. TypeOK /\ PhaseInv
  BY Zenon DEF Inv
<1>1. \A c \in CallsMade : c[1] < step
  BY <1>a, CallsMadeSoFar
<1>2. QED
  BY <1>1 DEF CallsBefore

(* A part of a call among the accumulated ones, and what it says.          *)
LEMMA AccumulatedCall ==
  ASSUME Inv, outcome # "error", NEW j \in CallsIn(accumulated)
  PROVE  LET c == IdOf(accumulated[j]) IN
         /\ c \in CallIds /\ c \in CallsMade /\ c \in CallsBefore(step)
         /\ Place(accumulated, j) = partIndex[c]
         /\ Mode(c) = "async" => accumulated[j].state = "pending"
         /\ Mode(c) # "async" => /\ Returned(c) /\ results[c] = <<tool[c]>>
                                 /\ accumulated[j].state = tool[c]
<1>a. AccumulatedInv
  BY Zenon DEF Inv
<1>0. PICK c : c = IdOf(accumulated[j])
  OBVIOUS
<1>1. c \in CallsBefore(step)
  BY <1>a, <1>0 DEF AccumulatedInv, IdsIn
<1>2. c \in CallIds /\ c \in CallsMade
  BY <1>1 DEF CallsBefore, CallsMade
<1>3. j \in DOMAIN accumulated /\ accumulated[j].kind = "call"
  BY DEF CallsIn
<1>4. Settled(accumulated[j]) /\ Place(accumulated, j) = partIndex[c]
  BY <1>a, <1>0, <1>3 DEF AccumulatedInv
<1>5. IF Mode(c) = "async" THEN accumulated[j].state = "pending"
      ELSE results[c] # <<>> /\ accumulated[j].state = tool[c]
  BY <1>0, <1>3, <1>4 DEF Settled
<1>6. results[c] # <<>> => Returned(c) /\ results[c] = <<tool[c]>>
  BY <1>2, ResultOutcome
<1>7. QED
  BY <1>0, <1>1, <1>2, <1>4, <1>5, <1>6

(* A run that ends well leaves a faithful history, whatever was rewritten  *)
(* or lost on the way: persistMessage stores what has accumulated, and     *)
(* that has every call of every step once, in order, as its tool ended.    *)
THEOREM FaithfulHistoryHolds == Spec => []FaithfulHistory
<1>1. ASSUME Inv PROVE FaithfulHistory
  <2>1. SUFFICES ASSUME outcome = "done"
                 PROVE  /\ ToSet(row.calls) = CallsMade
                        /\ \A i, j \in DOMAIN row.calls :
                              i < j => Precedes(row.calls[i], row.calls[j])
                        /\ IdsIn(row.parts) = CallsMade
                        /\ \A i, j \in CallsIn(row.parts) :
                              i < j => Precedes(IdOf(row.parts[i]), IdOf(row.parts[j]))
                        /\ \A j \in CallsIn(row.parts) :
                              LET c == IdOf(row.parts[j]) IN
                              Mode(c) # "async" => /\ Returned(c)
                                                   /\ row.parts[j].state = tool[c]
                                                   /\ results[c] = <<tool[c]>>
    BY DEF FaithfulHistory
  <2>2. row.parts = accumulated /\ row.calls = madeCalls
    BY <1>1, <2>1 DEF Inv, RowInv
  <2>3. AccumulatedInv /\ MadeCallsInv /\ CallsBefore(step) = CallsMade
    BY <1>1, <2>1, AllBefore DEF Inv
  <2>4. ToSet(madeCalls) = CallsMade
        /\ \A i, j \in DOMAIN madeCalls : i < j => Precedes(madeCalls[i], madeCalls[j])
    BY <2>1, <2>3 DEF MadeCallsInv
  <2>5. IdsIn(accumulated) = CallsMade
        /\ \A i, j \in CallsIn(accumulated) :
              i < j => Precedes(IdOf(accumulated[i]), IdOf(accumulated[j]))
    BY <2>1, <2>3 DEF AccumulatedInv
  <2>6. \A j \in CallsIn(accumulated) :
           LET c == IdOf(accumulated[j]) IN
           Mode(c) # "async" => /\ Returned(c)
                                /\ accumulated[j].state = tool[c]
                                /\ results[c] = <<tool[c]>>
    BY <1>1, <2>1, AccumulatedCall
  <2>7. QED
    BY <2>2, <2>4, <2>5, <2>6
<1>2. QED
  BY <1>1, Invariance, PTL

(* The client has been shown each call where the stored parts have it, and *)
(* with the state they have: the index handleToolCalls counts up is the    *)
(* number of parts buildUIParts puts before the call.                      *)
THEOREM ClientAgrees == Spec => []ClientAgreesOnCalls
<1>1. ASSUME Inv PROVE ClientAgreesOnCalls
  <2>1. SUFFICES ASSUME outcome = "done", ~closed, NEW j \in CallsIn(row.parts)
                 PROVE  LET part == row.parts[j]
                            seen == shown[part.step][Place(row.parts, j)] IN
                        /\ seen.kind = "call"
                        /\ Mode(IdOf(part)) # "async" => seen.state = part.state
    BY DEF ClientAgreesOnCalls
  <2>2. row.parts = accumulated
    BY <1>1, <2>1 DEF Inv, RowInv
  <2>3. PICK c : c = IdOf(accumulated[j])
    OBVIOUS
  <2>4. /\ c \in CallsMade /\ c \in CallsBefore(step)
        /\ Place(accumulated, j) = partIndex[c]
        /\ Mode(c) # "async" => Returned(c) /\ accumulated[j].state = tool[c]
    BY <1>1, <2>1, <2>2, <2>3, AccumulatedCall
  <2>5. c \in OnScreen
    BY <2>4 DEF OnScreen, CallsBefore
  <2>6. SeenRight(c)
    BY <1>1, <2>1, <2>5 DEF Inv, ShownInv
  <2>7. accumulated[j].step = c[1]
    BY <2>3 DEF IdOf
  <2>8. Mode(c) # "async" => Display(c) = accumulated[j].state
    BY <2>4 DEF Display, Displayed, Returned
  <2>9. QED
    BY <2>2, <2>3, <2>4, <2>6, <2>7, <2>8 DEF SeenRight
<1>2. QED
  BY <1>1, Invariance, PTL

(* At no instant is a part stored as finished whose tool row is missing or *)
(* says something else: executeSync stores the tool row first.             *)
THEOREM ResultsBeforeParts == Spec => []StoredResultHasRow
<1>1. ASSUME Inv PROVE StoredResultHasRow
  <2>1. SUFFICES ASSUME NEW j \in DOMAIN row.parts,
                        row.parts[j].state \in {"complete", "error"}
                 PROVE  results[IdOf(row.parts[j])] = <<row.parts[j].state>>
    BY DEF StoredResultHasRow
  <2>2. Truthful(row.parts[j])
    BY <1>1 DEF Inv, RowInv
  <2>3. QED
    BY <1>1, <2>1, <2>2, ResultOutcome DEF Truthful
<1>2. QED
  BY <1>1, Invariance, PTL

(* As long as no store operation has failed by itself, every tool row has  *)
(* its call in the assistant row: the reply is checkpointed first.         *)
THEOREM CallsBeforeResults == Spec => []ResultRowHasPart
<1>1. ASSUME Inv PROVE ResultRowHasPart
  <2>1. SUFFICES ASSUME faults = 0, NEW c \in CallIds, results[c] # <<>>
                 PROVE  c \in IdsIn(row.parts)
    BY DEF ResultRowHasPart
  <2>2. c \in CallsMade
    BY <1>1, <2>1, ResultOutcome
  <2>3. QED
    BY <1>1, <2>1, <2>2 DEF Inv, RowHasCallsInv
<1>2. QED
  BY <1>1, Invariance, PTL

(* After a stop what is started is at most one synchronous tool, and of    *)
(* the others those that hold a permit: whatever the number of steps,      *)
(* calls and permits.  A permit held is one of Concurrency (PermitInv).    *)
THEOREM StopHalts == Spec => []StopHaltsTools
<1>1. ASSUME Inv PROVE StopHaltsTools
  <2>1. LateInv /\ PermitInv /\ late \subseteq CallIds
    BY <1>1 DEF Inv, TypeOK
  <2>2. Cardinality({c \in late : Mode(c) = "sync"}) <= 1
    <3>. DEFINE S == {c \in late : Mode(c) = "sync"}
    <3>1. CASE S = {}
      BY <3>1, FS_EmptySet
    <3>2. CASE S # {}
      <4>1. PICK e \in S : TRUE
        BY <3>2
      <4>2. S = {e}
        BY <2>1, <4>1 DEF LateInv
      <4>3. Cardinality({e}) = 1
        BY FS_Singleton
      <4>4. Cardinality(S) = 1
        BY <4>2, <4>3, Zenon
      <4>5. QED
        BY <4>4
    <3>3. QED
      BY <3>1, <3>2
  <2>3. Cardinality(LateOthers) <= Concurrency
    <3>1. CASE closed
      <4>1. Waiting \cup LateOthers \in SUBSET CallIds /\ LateOthers \in SUBSET (Waiting \cup LateOthers)
        BY <2>1 DEF Waiting, LateOthers
      <4>2. Cardinality(LateOthers) <= Cardinality(Waiting \cup LateOthers)
        BY <4>1, CallsFinite, FS_Subset
      <4>3. QED
        BY <2>1, <3>1, <4>1, <4>2, CallsFinite, ConstantTypes DEF PermitInv
    <3>2. CASE ~closed
      <4>1. LateOthers = {}
        BY <2>1, <3>2 DEF LateInv, LateOthers
      <4>2. QED
        BY <4>1, FS_EmptySet, ConstantTypes
    <3>3. QED
      BY <3>1, <3>2
  <2>4. QED
    BY <2>2, <2>3 DEF StopHaltsTools, LateOthers
<1>2. QED
  BY <1>1, Invariance, PTL

(* The history the model is called with has the outcome of every tool call *)
(* of the steps before, from the part or from the tool row.                *)
THEOREM ModelSees == Spec => []ModelSeesOutcomes
<1>1. ASSUME Inv PROVE ModelSeesOutcomes
  <2>1. SUFFICES ASSUME pc = "context"
                 PROVE  /\ IdsIn(row.parts) = CallsBefore(step)
                        /\ \A j \in CallsIn(row.parts) :
                              LET c == IdOf(row.parts[j]) IN
                              \/ ContextOutput(row.parts[j]) = <<tool[c]>>
                              \/ Mode(c) = "async" /\ ContextOutput(row.parts[j]) = <<>>
    BY DEF ModelSeesOutcomes
  <2>2. row.parts = accumulated /\ outcome # "error"
    BY <1>1, <2>1 DEF Inv, RowInv, PhaseInv
  <2>3. IdsIn(accumulated) = CallsBefore(step)
    BY <1>1, <2>2 DEF Inv, AccumulatedInv
  <2>4. ASSUME NEW j \in CallsIn(accumulated), NEW c, c = IdOf(accumulated[j])
        PROVE  \/ ContextOutput(accumulated[j]) = <<tool[c]>>
               \/ Mode(c) = "async" /\ ContextOutput(accumulated[j]) = <<>>
    <3>1. /\ c \in CallIds
          /\ Mode(c) = "async" => accumulated[j].state = "pending"
          /\ Mode(c) # "async" => results[c] = <<tool[c]>> /\ accumulated[j].state = tool[c]
      BY <1>1, <2>2, <2>4, AccumulatedCall
    <3>2. results[c] = <<>> \/ results[c] = <<tool[c]>>
      BY <1>1, <3>1, ResultOutcome
    <3>3. QED
      BY <2>4, <3>1, <3>2 DEF ContextOutput
  <2>5. QED
    BY <2>2, <2>3, <2>4
<1>2. QED
  BY <1>1, Invariance, PTL

(* No step loses or changes what is stored of the steps before it: every   *)
(* write extends what has accumulated, and so does the row it replaces.    *)
THEOREM FinishedStepsStay == Spec => FinishedStepsKept
<1>1. ASSUME Inv, [Next]_vars
      PROVE  SameBefore(row.parts, row'.parts, step)
  <2>a. TypeOK /\ RowInv
    BY <1>1, Zenon DEF Inv
  <2>1. CASE UNCHANGED row
    BY <2>1 DEF SameBefore
  <2>2. CASE pc # "ended" /\ Extends(row'.parts)
    <3>1. PICK old, new, n : old = row.parts /\ new = row'.parts /\ n = Len(accumulated)
      OBVIOUS
    <3>2. /\ n \in Nat /\ DOMAIN new = 1 .. Len(new) /\ Len(new) \in Nat /\ n <= Len(new)
          /\ \A j \in DOMAIN new : IF j <= n THEN new[j] = accumulated[j] ELSE new[j].step = step
      BY <2>2, <3>1 DEF Extends
    <3>3. /\ DOMAIN old = 1 .. Len(old) /\ Len(old) \in Nat /\ n <= Len(old)
          /\ \A j \in DOMAIN old : IF j <= n THEN old[j] = accumulated[j] ELSE old[j].step = step
      <4>1. row.parts \in Seq(Parts)
        BY <2>a DEF TypeOK
      <4>2. QED
        BY <2>a, <2>2, <3>1, <4>1 DEF RowInv
    <3>4. ~(step < step)
      BY <2>a, ConstantTypes DEF TypeOK
    <3>5. \A j \in DOMAIN old : old[j].step < step => j \in DOMAIN new /\ new[j] = old[j]
      BY <3>2, <3>3, <3>4
    <3>6. \A j \in DOMAIN new : new[j].step < step => j \in DOMAIN old
      BY <3>2, <3>3, <3>4
    <3>7. QED
      BY <3>1, <3>5, <3>6 DEF SameBefore
  <2>3. QED
    BY <1>1, <2>1, <2>2, RowSteps DEF Covers
<1>2. QED
  BY <1>1, Invariance, PTL DEF Spec, FinishedStepsKept

(* After a stop the loop does not call the model again: the history is     *)
(* read with the chat's context, and only then is the model called.        *)
THEOREM NoModelCallAfterStopHolds == Spec => NoModelCallAfterStop
<1>1. ASSUME [Next]_vars, closed, pc # "stream"
      PROVE  pc' # "stream"
  <2>1. ASSUME NEW cs, StreamEnds(cs)
        PROVE  pc' # "stream"
    BY <1>1, <2>1 DEF StreamEnds
  <2>2. ASSUME NEW k \in 1 .. MaxCalls, SyncSave(k) \/ ConcurrentSave(k) \/ AsyncLaunch(k)
        PROVE  pc' # "stream"
    BY <1>1, <2>2 DEF SyncSave, ConcurrentSave, AsyncLaunch, Abort
  <2>3. CASE Prepare \/ StepLimit \/ StepCreate \/ BuildContext \/ StreamFails \/ CreateParts
             \/ Checkpoint \/ Persist \/ UNCHANGED loopVars
    BY <1>1, <2>3 DEF Prepare, StepLimit, StepCreate, BuildContext, StreamFails, CreateParts,
                      Checkpoint, Persist, Succeeds, Abort, loopVars
  <2>4. QED
    BY <1>1, <2>1, <2>2, <2>3, LoopSteps
<1>2. [Next]_vars => [closed /\ pc # "stream" => pc' # "stream"]_vars
  BY <1>1
<1>3. QED
  BY <1>2, PTL DEF Spec, NoModelCallAfterStop


=============================================================================
