-------------------------------- MODULE Stream --------------------------------
(***************************************************************************)
(* The verdict on the event stream of one Claude process (protocol.py):    *)
(* what parse_stream makes of the lines one after the other, however few   *)
(* of them came, for the three callers it has.                             *)
(***************************************************************************)
EXTENDS Integers, Sequences

CONSTANT MaxLines   \* bound: lines of a stream

StreamAssumption == MaxLines \in Nat

VARIABLES
  purpose, \* of the call: a run, a run with a JSON schema, or a harness turn with its native tools
  lines,   \* history: the events as they came
  parsed   \* what parse_stream has collected

vars == <<purpose, lines, parsed>>

(* A line: its type and session; an assistant's model and tool; a result's ending
   and which of its two answers it has.  An event has at most one oddity.       *)
Line(type, session, model, tool, ending, answer) ==
  [type |-> type, session |-> session, model |-> model, tool |-> tool,
   ending |-> ending, answer |-> answer]

Odd == {Line("bad", "none", "none", "none", "none", {})}
Others == {Line("system", s, "none", "none", "none", {}) : s \in {"exact", "other", "none", "invalid"}}
Assistants ==
  {Line("assistant", s, "match", "none", "none", {}) : s \in {"exact", "other", "none"}}
    \union {Line("assistant", "exact", m, "none", "none", {}) : m \in {"mismatch", "foreign", "none"}}
    \union {Line("assistant", "exact", "match", t, "none", {}) :
              t \in {"StructuredOutput", "Bash", "mcp", "malformed"}}
Results ==
  {Line("result", s, "none", "none", "success", {"text", "object"}) : s \in {"exact", "other", "none"}}
    \union {Line("result", "exact", "none", "none", "success", a) : a \in {{}, {"text"}, {"object"}}}
    \union {Line("result", "exact", "none", "none", e, {"text", "object"}) : e \in {"error", "subtype"}}
Events == Odd \union Others \union Assistants \union Results

Structured == purpose = "schema"
Allowed == IF purpose = "harness" THEN {"Bash"} ELSE {}

Init ==
  /\ purpose \in {"run", "schema", "harness"}
  /\ lines = <<>>
  /\ parsed = [error |-> FALSE, models |-> {}, bad |-> FALSE, sessions |-> {}, tools |-> 0, results |-> 0]

-----------------------------------------------------------------------------
(* parse_stream, one line.                                                   *)

\* _collect_text: the transport's own tool block is none, in a structured run.
ToolUses(e) ==
  IF e.tool \in {"none", "malformed"} \/ (Structured /\ e.tool = "StructuredOutput") THEN 0 ELSE 1

\* A tool that is not among the allowed ones is an error of its own.
ContentWrong(e) ==
  \/ e.tool = "malformed"
  \/ purpose = "harness" /\ ToolUses(e) = 1 /\ e.tool \notin Allowed

SessionWrong(e) ==
  e.session = "invalid" \/ (e.type \in {"assistant", "result"} /\ e.session # "exact")

\* Mutant: what comes after the result does not matter.
AssistantWrongAnywhere(p, e) == e.model = "none" \/ ContentWrong(e)

AssistantWrong(p, e) == p.results > 0 \/ e.model = "none" \/ ContentWrong(e)

ResultWrong(e) ==
  \/ e.ending # "success"
  \/ IF Structured THEN "object" \notin e.answer ELSE "text" \notin e.answer

Observed(p, e) ==
  [p EXCEPT !.sessions = @ \union ({e.session} \intersect {"exact", "other"}),
            !.error = @ \/ e.type = "bad" \/ SessionWrong(e)]

ParseLine(p, e) ==
  LET o == Observed(p, e)
  IN  CASE e.type = "assistant" ->
             [o EXCEPT !.error = @ \/ AssistantWrong(p, e),
                       !.models = @ \union ({e.model} \intersect {"match", "mismatch"}),
                       !.bad = @ \/ e.model \in {"mismatch", "foreign"},
                       !.tools = @ + ToolUses(e)]
        [] e.type = "result" -> [o EXCEPT !.error = @ \/ ResultWrong(e), !.results = @ + 1]
        [] OTHER -> o

\* The checks after the last line.
ValidatedSuccess(p) ==
  /\ ~p.error /\ p.results = 1
  /\ p.models # {} /\ ~p.bad
  /\ p.tools > 0 => purpose = "harness"
  /\ p.sessions = {"exact"}

Read(e) ==
  /\ Len(lines) < MaxLines
  /\ lines' = Append(lines, e) /\ parsed' = ParseLine(parsed, e)
  /\ UNCHANGED purpose

Next == \E e \in Events : Read(e)
Spec == Init /\ [][Next]_vars

TypeOK ==
  /\ purpose \in {"run", "schema", "harness"} /\ Len(lines) <= MaxLines
  /\ parsed \in [error : BOOLEAN, models : SUBSET {"match", "mismatch"}, bad : BOOLEAN,
                 sessions : SUBSET {"exact", "other"}, tools : 0..MaxLines, results : 0..MaxLines]

-----------------------------------------------------------------------------
(* Safety.                                                                   *)

Indices(type) == {i \in DOMAIN lines : lines[i].type = type}

\* What the caller may rely on: the one result says success, answers in the form that
\* was asked for and is the last word of a model that was asked for; all of it is of
\* this conversation, and no tool was used that the caller does not grant.
Trustworthy ==
  /\ \E last \in Indices("result") :
       /\ Indices("result") = {last} /\ lines[last].ending = "success"
       /\ (IF Structured THEN "object" ELSE "text") \in lines[last].answer
       /\ \E i \in Indices("assistant") : i < last
       /\ \A i \in Indices("assistant") : i < last
  /\ \A i \in DOMAIN lines :
       /\ lines[i].type # "bad"
       /\ lines[i].session = "exact" \/ (lines[i].type = "system" /\ lines[i].session = "none")
  /\ \A i \in Indices("assistant") :
       /\ lines[i].model = "match"
       /\ lines[i].tool \in {"none"} \union Allowed
            \union (IF Structured THEN {"StructuredOutput"} ELSE {})

\* parse_stream validates exactly the streams that can be trusted, wherever the
\* process was stopped and whatever it wrote out of order.
VerdictExact == ValidatedSuccess(parsed) <=> Trustworthy
=============================================================================
