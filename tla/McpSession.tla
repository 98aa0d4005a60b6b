----------------------------- MODULE McpSession -----------------------------
(***************************************************************************)
(* What mcp/server.py answers: StdioMCPServer to the lines of a client,     *)
(* and the HTTP routes that MCPServer sets up beside it.  The loop over the *)
(* lines never yields: readline() blocks, and no handler that it awaits is  *)
(* ever suspended.  While it runs, nothing else of the event loop does.     *)
(***************************************************************************)
EXTENDS Sequences, FiniteSets, Naturals, SequencesExt

CONSTANTS MaxLines,   \* bound: lines that the client sends
          MaxPosts    \* bound: executions over HTTP

VARIABLES counts,     \* there are a tool registry and a telemetry manager
          running,    \* StdioMCPServer.running
          loop,       \* of start: "off", "reading" or "ended"
          cause,      \* what ended the loop
          sent,       \* the lines of the client
          closed,     \* the client has closed its end
          read,       \* how many of the lines have been read
          answers,    \* what was written, one line each
          late,       \* lines answered since stop()
          posts,      \* tools executed over HTTP
          recorded    \* failed executions that telemetry knows of

vars == <<counts, running, loop, cause, sent, closed, read, answers, late, posts, recorded>>

clientVars == <<sent, closed>>
callVars == <<posts, recorded>>

(* What a line is: no JSON, JSON that is no object, or a method.  The list  *)
(* of the tools stands for all that have a result; a "bad_call" has no name *)
(* or its "params" are no object.                                           *)
Methods == {"list", "call", "bad_call", "unknown"}
Kinds == {"no_json", "no_object"} \cup Methods

Init ==
  /\ counts \in BOOLEAN
  /\ running = FALSE /\ loop = "off" /\ cause = "nothing"
  /\ sent = <<>> /\ closed = FALSE
  /\ read = 0 /\ answers = <<>> /\ late = 0
  /\ posts = 0 /\ recorded = 0

(* An id is the place of the line, or 0 where there is none.               *)
ClientSends(kind, id) ==
  /\ ~closed /\ Len(sent) < MaxLines
  /\ id # 0 => kind \in Methods /\ id = Len(sent) + 1
  /\ sent' = Append(sent, [kind |-> kind, id |-> id])
  /\ UNCHANGED <<counts, running, loop, cause, closed, read, answers, late, callVars>>

ClientCloses ==
  /\ ~closed
  /\ closed' = TRUE
  /\ UNCHANGED <<counts, running, loop, cause, sent, read, answers, late, callVars>>

(* A process has one session.                                              *)
Start ==
  /\ loop = "off"
  /\ running' = TRUE /\ loop' = "reading"
  /\ UNCHANGED <<counts, cause, clientVars, read, answers, late, callVars>>

(* _handle_call_tool of MCPServer passes arguments that execute_tool of the *)
(* registry does not have: it raises, and telemetry gets to know.           *)
CallTool == recorded' = IF counts THEN recorded + 1 ELSE recorded

(* list_tools without a user raises too, and gives an empty list for that. *)
Outcome(kind) == IF kind = "list" THEN "result" ELSE "error"

(* mutant: a message without an id is taken for a notification             *)
Reply_quiet(line) ==
  IF line.id = 0 THEN <<>> ELSE <<[id |-> line.id, outcome |-> Outcome(line.kind)]>>

Reply(line) == <<[id |-> line.id, outcome |-> Outcome(line.kind)]>>

(* A line is read, its message processed and the answer written; then      *)
(* "while self.running".                                                   *)
Line ==
  /\ loop = "reading" /\ read < Len(sent)
  /\ sent[read + 1].kind # "no_object"
  /\ read' = read + 1
  /\ answers' = answers \o Reply(sent[read + 1])
  /\ IF sent[read + 1].kind = "call" THEN CallTool ELSE UNCHANGED recorded
  /\ late' = IF running THEN 0 ELSE late + 1
  /\ IF running
       THEN UNCHANGED <<loop, cause>>
       ELSE loop' = "ended" /\ cause' = "stop"
  /\ UNCHANGED <<counts, running, clientVars, posts>>

LoopEnds(why) ==
  /\ loop = "reading"
  /\ running' = FALSE /\ loop' = "ended" /\ cause' = why
  /\ UNCHANGED <<counts, clientVars, answers, late, posts>>

(* message.get raises, and once more where the exception is handled.       *)
LineEndsLoop ==
  /\ read < Len(sent) /\ sent[read + 1].kind = "no_object"
  /\ read' = read + 1
  /\ LoopEnds("line") /\ UNCHANGED recorded

EndOfFile == closed /\ read = Len(sent) /\ LoopEnds("end_of_file") /\ UNCHANGED <<read, recorded>>

Interrupt == LoopEnds("interrupt") /\ UNCHANGED <<read, recorded>>

(* A KeyboardInterrupt between the reading of a line and its answer, before *)
(* or after its call is made.                                              *)
LineCut ==
  /\ read < Len(sent)
  /\ read' = read + 1
  /\ UNCHANGED recorded \/ (sent[read + 1].kind = "call" /\ CallTool)
  /\ LoopEnds("cut")

(* stop(), of a signal's handler while the loop blocks.                    *)
Stop ==
  /\ running
  /\ running' = FALSE
  /\ UNCHANGED <<counts, loop, cause, clientVars, read, answers, late, callVars>>

(* POST /mcp/tools/{tool_name}/execute.  GET /mcp/tools and the websocket  *)
(* change nothing.                                                         *)
ExecuteTool ==
  /\ loop # "reading" /\ posts < MaxPosts
  /\ posts' = posts + 1 /\ CallTool
  /\ UNCHANGED <<counts, running, loop, cause, clientVars, read, answers, late>>

Reads == Line \/ LineEndsLoop \/ EndOfFile

Next ==
  \/ \E kind \in Kinds, id \in 0..MaxLines : ClientSends(kind, id)
  \/ ClientCloses
  \/ Start \/ Reads \/ Interrupt \/ LineCut \/ Stop
  \/ ExecuteTool

(* readline() returns when there is something to read.                     *)
Spec == Init /\ [][Next]_vars /\ WF_vars(Reads)
-----------------------------------------------------------------------------
Answerable ==
  {i \in 1..read : sent[i].kind # "no_object" /\ (cause = "cut" => i # read)}
Turn(i) == Cardinality({j \in Answerable : j <= i})

TypeOK ==
  /\ \A i \in DOMAIN sent : sent[i].kind \in Kinds /\ sent[i].id \in {0, i}
  /\ loop \in {"off", "reading", "ended"}
  /\ read \in 0..Len(sent) /\ recorded \in 0..(MaxLines + MaxPosts)
  /\ running => loop = "reading"

(* Every line that can be answered is, once, in its turn and under its own *)
(* id, notifications and lines that are no JSON included, but for one that *)
(* Ctrl-C cuts off.                                                        *)
AnswersFollowLines ==
  /\ Len(answers) = Cardinality(Answerable)
  /\ \A i \in Answerable : answers[Turn(i)].id = sent[i].id

(* Lines stay unread only behind one that is no object, a stop or Ctrl-C;  *)
(* and after a stop one line is answered at most.                          *)
NothingLeftBehind ==
  /\ loop = "ended" /\ cause = "end_of_file" => read = Len(sent)
  /\ cause = "line" => sent[read].kind = "no_object"
  /\ late <= 1 /\ (late = 1 => cause = "stop")

(* Telemetry has a record of every call, over either way, and none besides; *)
(* of a call that is cut off it may have one or not.                       *)
Calls(n) == Cardinality({i \in 1..n : sent[i].kind = "call"})

CallsAreRecorded ==
  IF counts
    THEN \/ recorded = posts + Calls(read)
         \/ cause = "cut" /\ recorded = posts + Calls(read - 1)
    ELSE recorded = 0

SessionIsSound == AnswersFollowLines /\ NothingLeftBehind /\ CallsAreRecorded

(* In the end a session reads all there is, unless it ends.                *)
AllRead == loop = "reading" => read = Len(sent)
=============================================================================
