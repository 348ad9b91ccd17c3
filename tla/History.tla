------------------------------ MODULE History ------------------------------
(***************************************************************************)
(* From the message rows of a session to what the model is sent and to     *)
(* what a client is shown.  A turn leaves a user row, one assistant row    *)
(* that collects the parts of all its steps, and one tool row per result   *)
(* that was saved; the result may also be in the part of its call, or not  *)
(* (an asynchronous tool writes its row only).  Rows of older versions     *)
(* have columns and no parts.  The engine converts the first HistoryLimit  *)
(* rows for every model call (core/agent/context.go), GET messages the     *)
(* first PageLimit rows (api/render.go).                                   *)
(*                                                                         *)
(* A text is the number of its row, 0 the empty text.  Rows of other roles *)
(* would take the raw fallback of BuildContext; nothing writes one.        *)
(***************************************************************************)
EXTENDS Integers, Sequences, SequencesExt, Lists

CONSTANTS
  MaxRows,       \* bound: rows of the session
  MaxCalls,      \* bound: tool calls of the session
  MaxSteps,      \* bound: steps of a turn
  HistoryLimit,  \* rows the engine reads (1024)
  PageLimit      \* rows a client asks for (50 unless it says otherwise)

VARIABLES rows, called   \* called: tool calls made so far

historyVars == <<rows, called>>

CallIds == 1 .. MaxCalls
Outputs == {"", "result"}

Blank == [role |-> "", text |-> 0, calls |-> <<>>, parts |-> <<>>, call |-> 0, output |-> ""]
Text(step, text) == [kind |-> "text", step |-> step, text |-> text, call |-> 0, output |-> ""]
Call(step, c, output) == [kind |-> "call", step |-> step, text |-> 0, call |-> c, output |-> output]

HistoryTypeOK ==
  /\ Len(rows) \in 0 .. MaxRows /\ called \in 0 .. MaxCalls
  /\ \A i \in DOMAIN rows : rows[i].role \in {"user", "assistant", "tool"}

Init == rows = <<>> /\ called = 0

Room == Len(rows) < MaxRows
LastAssistant ==
  SelectLastInSeq(rows, LAMBDA r : r.role = "assistant" /\ r.parts # <<>>)

\* prepareAgentLoop saves the input, without parts.
UserMessage ==
  /\ Room
  /\ rows' = Append(rows, [Blank EXCEPT !.role = "user", !.text = Len(rows) + 1])
  /\ UNCHANGED called

StepOf(row) == IF row.parts = <<>> THEN 0 ELSE Last(row.parts).step + 1

\* The row of a turn, the at-th, after a step: the reply's text and its calls join the
\* parts; persistMessage leaves the last text and all calls in the columns.
Stepped(row, at, hasText, calls) ==
  LET ids == [k \in 1 .. calls |-> called + k]
  IN [row EXCEPT !.text = IF hasText THEN at ELSE 0, !.calls = @ \o ids,
        !.parts = @ \o (IF hasText THEN <<Text(StepOf(row), at)>> ELSE <<>>)
                    \o [k \in 1 .. calls |-> Call(StepOf(row), ids[k], "")]]

\* A step of a turn: its first makes the row, the others change it.
Step(hasText, calls) ==
  LET new == Len(rows) > 0 /\ Last(rows).role = "user"
      at  == IF new THEN Len(rows) + 1 ELSE LastAssistant
      old == IF new THEN [Blank EXCEPT !.role = "assistant"] ELSE rows[at]
      row == Stepped(old, at, hasText, calls)
  IN /\ Room /\ at > 0 /\ StepOf(old) < MaxSteps
     /\ called + calls <= MaxCalls
     /\ new \/ \A i \in DOMAIN rows : rows[i].role = "user" => i < at
     /\ rows' = IF new THEN Append(rows, row) ELSE [rows EXCEPT ![at] = row]
     /\ called' = called + calls

\* An assistant row of an older version.
OldReply(hasText, calls) ==
  /\ Room
  /\ Len(rows) > 0 /\ Last(rows).role = "user"
  /\ called + calls <= MaxCalls
  /\ rows' = Append(rows, [Blank EXCEPT !.role = "assistant", !.calls = [k \in 1 .. calls |-> called + k],
                             !.text = IF hasText THEN Len(rows) + 1 ELSE 0])
  /\ called' = called + calls

HasResult(c) == \E i \in DOMAIN rows : rows[i].role = "tool" /\ rows[i].call = c

\* A result is saved in a row of its own; that of a synchronous or concurrent tool
\* (inPart) also reaches the part when the turn's parts are next saved.
Result(c, output, inPart) ==
  /\ Room
  /\ c <= called /\ ~HasResult(c)
  /\ rows' = Append([i \in DOMAIN rows |->
       [rows[i] EXCEPT !.parts = [j \in DOMAIN @ |->
          IF inPart /\ @[j].call = c THEN [@[j] EXCEPT !.output = output] ELSE @[j]]]],
       [Blank EXCEPT !.role = "tool", !.call = c, !.output = output])
  /\ UNCHANGED called

Next ==
  \/ UserMessage
  \/ \E hasText \in BOOLEAN, calls \in 0 .. 2 : Step(hasText, calls) \/ OldReply(hasText, calls)
  \/ \E c \in CallIds, output \in Outputs, inPart \in BOOLEAN : Result(c, output, inPart)

Spec == Init /\ [][Next]_historyVars

-----------------------------------------------------------------------------
(* The conversions. *)

FirstRows(limit) == SubSeq(rows, 1, IF Len(rows) < limit THEN Len(rows) ELSE limit)
NotTool(history) == Filter(history, LAMBDA r : r.role # "tool")

\* The tool rows of what was read, by call; a later row of a call replaces an earlier one.
ToolResult(history, c) ==
  LET hits == Filter(history, LAMBDA r : r.role = "tool" /\ r.call = c)
  IN IF hits = <<>> THEN "" ELSE Last(hits).output

ByStep(parts) ==
  FlattenSeq([s \in 1 .. MaxSteps |-> Filter(parts, LAMBDA p : p.step = s - 1)])

\* The parts of a row without parts: SynthesizeUIMessage and BackfillParts alike.
FromColumns(row, history) ==
  (IF row.text # 0 \/ (row.role = "assistant" /\ row.calls = <<>>) THEN <<Text(0, row.text)>> ELSE <<>>)
    \o [k \in DOMAIN row.calls |-> Call(0, row.calls[k], ToolResult(history, row.calls[k]))]

\* convertPartsToUI fills the output a part lacks from the tool rows.
Filled(parts, history) ==
  [j \in DOMAIN parts |->
     IF parts[j].kind = "call" /\ parts[j].output = ""
     THEN [parts[j] EXCEPT !.output = ToolResult(history, parts[j].call)] ELSE parts[j]]

\* Variant: calls that have no output yet get no tool message.
ConvertSkipsEmpty(role, parts) ==
  LET calls == Filter(parts, LAMBDA p : p.kind = "call")
      texts == Filter(parts, LAMBDA p : p.kind = "text")
  IN <<[role |-> role, texts |-> [k \in DOMAIN texts |-> texts[k].text],
        calls |-> [k \in DOMAIN calls |-> calls[k].call], call |-> 0, output |-> ""]>>
     \o [k \in DOMAIN Filter(calls, LAMBDA p : p.output # "") |->
           LET p == Filter(calls, LAMBDA q : q.output # "")[k]
           IN [role |-> "tool", texts |-> <<>>, calls |-> <<>>, call |-> p.call, output |-> p.output]]

\* A message becomes one model message with all its texts and calls, followed by one
\* tool message per call.
Convert(role, parts) ==
  LET calls == Filter(parts, LAMBDA p : p.kind = "call")
      texts == Filter(parts, LAMBDA p : p.kind = "text")
  IN <<[role |-> role, texts |-> [k \in DOMAIN texts |-> texts[k].text],
        calls |-> [k \in DOMAIN calls |-> calls[k].call], call |-> 0, output |-> ""]>>
     \o [k \in DOMAIN calls |->
           [role |-> "tool", texts |-> <<>>, calls |-> <<>>, call |-> calls[k].call,
            output |-> calls[k].output]]

ModelParts(row, history) ==
  IF row.parts # <<>> THEN Filled(row.parts, history) ELSE FromColumns(row, history)
\* A client gets the parts as they are stored.
ShownParts(row, history) ==
  IF row.parts # <<>> THEN row.parts ELSE FromColumns(row, history)

\* What a model call is sent after the system prompt (BuildContext).
ModelMessages ==
  LET history == FirstRows(HistoryLimit)
      kept    == NotTool(history)
  IN FlattenSeq([i \in DOMAIN kept |-> Convert(kept[i].role, ByStep(ModelParts(kept[i], history)))])

\* What GET messages answers.
ShownMessages ==
  LET history == FirstRows(PageLimit)
      kept    == NotTool(history)
  IN [i \in DOMAIN kept |-> ByStep(ShownParts(kept[i], history))]

-----------------------------------------------------------------------------
\* What the providers require: a message with calls is followed at once by the answer
\* of each of its calls, in their order, and by nothing else in between; no answer
\* stands anywhere else.  It holds wherever the limit cuts the history, also between a
\* call and its tool row (convert.go:67, context.go:30).
CallsAnsweredAtOnce ==
  LET m == ModelMessages IN
  \A i \in DOMAIN m :
    /\ \A k \in DOMAIN m[i].calls :
         i + k \in DOMAIN m /\ m[i + k].role = "tool" /\ m[i + k].call = m[i].calls[k]
    /\ m[i].role = "tool" =>
         \E j \in 1 .. i - 1 : i - j \in DOMAIN m[j].calls /\ m[j].calls[i - j] = m[i].call

\* As long as the rows are within the limit, no input of the user is lost or moved, and
\* the model gets the result of every call that has one, from whichever of the part and
\* the row it is in; a longer session is cut at its newest rows.
NothingLost ==
  Len(rows) <= HistoryLimit =>
    LET m == ModelMessages
        said == Filter(rows, LAMBDA r : r.role = "user")
        sent == Filter(m, LAMBDA x : x.role = "user")
    IN /\ [k \in DOMAIN said |-> <<said[k].text>>] = [k \in DOMAIN sent |-> sent[k].texts]
       /\ \A i \in DOMAIN rows : rows[i].role = "tool" =>
            \E j \in DOMAIN m : m[j].role = "tool" /\ m[j].call = rows[i].call
                                /\ m[j].output = rows[i].output

\* A client is shown the calls the model is sent, in the same order, each with the
\* model's result or none (a result that is only in its tool row is not shown).
ClientAgreesWithModel ==
  Len(rows) <= PageLimit /\ Len(rows) <= HistoryLimit =>
    LET shown == Filter(FlattenSeq(ShownMessages), LAMBDA p : p.kind = "call")
        sent  == Filter(ModelMessages, LAMBDA x : x.role = "tool")
    IN /\ Len(shown) = Len(sent)
       /\ \A k \in DOMAIN shown :
            shown[k].call = sent[k].call /\ shown[k].output \in {"", sent[k].output}

\* The history of a session, as the model and the client get it.
HistoryConsistent == CallsAnsweredAtOnce /\ NothingLost /\ ClientAgreesWithModel

=============================================================================
