--------------------------- MODULE ToolLifecycle ---------------------------
(***************************************************************************)
(* The two stores of tools behind the HTTP interface: the dictionary of    *)
(* ToolService (services/tool_service.py) and the one of api/tools.py.     *)
(* Both keep every tool they ever took in, in the order of registration;   *)
(* deleting a tool only clears its is_active flag.  The stores share       *)
(* nothing, so a behaviour is that of one of them, "store".                *)
(*                                                                         *)
(* An entry of a dictionary is a reference to the tool's own dictionary.    *)
(* The update of ToolService writes any key of it, so that a tool may take  *)
(* the name of another, and, given another id, be stored under two.         *)
(*                                                                         *)
(* A client reads a listing page by page, one request per page, while      *)
(* tools come, go and change.                                              *)
(***************************************************************************)
EXTENDS Naturals, Sequences, FiniteSetsExt

CONSTANTS Names, Categories, MaxTools,
          Limit,      \* tools on a page
          Endpoints,  \* addresses ToolService posts a call to, in turn
          MaxHistory, \* executions that are recorded
          MaxClashes  \* bound: updates to a taken name, or to another id

VARIABLES store,   \* "service" or "http"
          tools,   \* the dictionary, in the order of its ids
          reader,  \* the client that pages through a listing
          clashes, \* observer: the updates that gave a tool another's name, or another id
          call,    \* an execution under way in ToolService
          history  \* ToolService.execution_history

vars == <<store, tools, reader, clashes, call, history>>

All == "any_category"
Ids == DOMAIN tools
NoCall == [on |-> FALSE, tried |-> 0, answered |-> FALSE]
(* object: whose dictionary the entry refers to; id: the entry under its key *)
(* "id", where an update stores it again.                                  *)
Tool == [name : Names, category : Categories, active : BOOLEAN,
         id : 1..MaxTools, object : 1..MaxTools]
Call == [on : BOOLEAN, tried : 0..Endpoints, answered : BOOLEAN]
Reader == [on : BOOLEAN, category : Categories \cup {All}, offset : Nat, seen : SUBSET Nat,
           twice : BOOLEAN, first : SUBSET Nat, joined : BOOLEAN]
NotReading == [on |-> FALSE, category |-> All, offset |-> 0,
               seen |-> {},        \* the tools on the pages so far
               twice |-> FALSE,    \* one was on two pages, though none had joined
               first |-> {},       \* the listing at the start, as long as none has left
               joined |-> FALSE]

(* mutant: deleted entries are passed over *)
GetToolByName_live(name) ==
  LET found == {i \in Ids : tools[i].name = name /\ tools[i].active} IN IF found = {} THEN 0 ELSE Min(found)

(* _get_tool_by_name: the first entry of the name, deleted or not. *)
GetToolByName(name) ==
  LET found == {i \in Ids : tools[i].name = name} IN IF found = {} THEN 0 ELSE Min(found)

Listed(ts, category) == {i \in DOMAIN ts : ts[i].active /\ category \in {All, ts[i].category}}

(* Tools are listed in the order of their ids; a page is a slice of them,  *)
(* which ends where the list ends.                                         *)
Position(i, listed) == Cardinality({j \in listed : j < i})

(* mutant: the end of the page is taken for inclusive *)
Page_inclusive(listed, offset) ==
  {i \in listed : offset <= Position(i, listed) /\ Position(i, listed) <= offset + Limit}

Page(listed, offset) ==
  {i \in listed : offset <= Position(i, listed) /\ Position(i, listed) < offset + Limit}

(* What a change of the store means to the client that is paging: an entry *)
(* of its listing left it, or one from before joined it.  An entry that now *)
(* refers to another tool does both.                                       *)
Change(ts) ==
  LET before == Listed(tools, reader.category)
      after  == Listed(ts, reader.category) \cap Ids
      kept   == {i \in before \cap after : ts[i].object = tools[i].object} IN
  /\ tools' = ts
  /\ reader' = [reader EXCEPT !.first = IF before \subseteq kept THEN @ ELSE {},
                              !.joined = @ \/ (reader.on /\ ~(after \subseteq kept))]

Enter(name, category) ==
  /\ Len(tools) < MaxTools
  /\ GetToolByName(name) = 0
  /\ LET id == Len(tools) + 1 IN
     Change(Append(tools, [name |-> name, category |-> category, active |-> TRUE,
                           id |-> id, object |-> id]))
  /\ UNCHANGED <<store, clashes, call, history>>

Found(name) == tools[GetToolByName(name)]

(* self.tools[tool["id"]] = tool, once its dictionary was written to: every *)
(* entry that refers to it shows the change.                               *)
Stored(tool) ==
  [i \in Ids \cup {tool.id} |-> IF i = tool.id \/ tools[i].object = tool.object THEN tool ELSE tools[i]]

Alter(name, tool) ==
  /\ GetToolByName(name) # 0
  /\ Change(Stored(tool))
  /\ UNCHANGED <<store, call, history>>
-----------------------------------------------------------------------------
(* services/tool_service.py; register_tool refuses a name that is taken.   *)
ServiceRegisterTool(name, category) == store = "service" /\ Enter(name, category)

Clash(name, tool) ==
  \/ tool.name # name /\ GetToolByName(tool.name) # 0
  \/ tool.id # Found(name).id

(* update_tool writes every given value into the tool: its category, its   *)
(* is_active, its name and its id, an id no tool has among them.  Nothing is *)
(* checked against the other tools.                                        *)
ServiceUpdateTool(name) ==
  /\ store = "service" /\ GetToolByName(name) # 0
  /\ \E tool \in Tool :
       /\ tool.object = Found(name).object /\ tool.id <= Len(tools) + 1
       /\ Alter(name, tool)
       /\ Clash(name, tool) => clashes < MaxClashes
       /\ clashes' = IF Clash(name, tool) THEN clashes + 1 ELSE clashes

ServiceDeleteTool(name) ==
  /\ store = "service" /\ GetToolByName(name) # 0
  /\ Alter(name, [Found(name) EXCEPT !.active = FALSE])
  /\ UNCHANGED clashes

(* execute_tool finds the tool by its name and posts to its addresses.     *)
ExecuteTool(name) ==
  /\ store = "service" /\ call = NoCall
  /\ GetToolByName(name) # 0
  /\ call' = [NoCall EXCEPT !.on = TRUE]
  /\ UNCHANGED <<store, tools, reader, clashes, history>>

(* One post of _execute_tool_internal: 200, or anything else, an exception *)
(* among it.                                                               *)
Post ==
  /\ call.on /\ ~call.answered /\ call.tried < Endpoints
  /\ \E ok \in BOOLEAN : call' = [call EXCEPT !.tried = @ + 1, !.answered = ok]
  /\ UNCHANGED <<store, tools, reader, clashes, history>>

(* The answer, or the mock result after the last address; either way the   *)
(* execution goes into the history as a success.                           *)
ExecutionEnds ==
  /\ call.on /\ (call.answered \/ call.tried = Endpoints)
  /\ history' = IF Len(history) = MaxHistory THEN history
                ELSE Append(history, IF call.answered THEN "answered" ELSE "mock")
  /\ call' = NoCall
  /\ UNCHANGED <<store, tools, reader, clashes>>
-----------------------------------------------------------------------------
(* api/tools.py; the update request has no field for the name or the flag. *)
RegisterTool(name, category) == store = "http" /\ Enter(name, category)

UpdateTool(name, category) ==
  /\ store = "http" /\ GetToolByName(name) # 0
  /\ Alter(name, [Found(name) EXCEPT !.category = category])
  /\ UNCHANGED clashes

DeleteTool(name) ==
  /\ store = "http" /\ GetToolByName(name) # 0
  /\ Alter(name, [Found(name) EXCEPT !.active = FALSE])
  /\ UNCHANGED clashes
-----------------------------------------------------------------------------
StartReading(category) ==
  /\ ~reader.on
  /\ reader' = [NotReading EXCEPT !.on = TRUE, !.category = category, !.first = Listed(tools, category)]
  /\ UNCHANGED <<store, tools, clashes, call, history>>

(* list_tools: the filtered tools from offset on, and their total.         *)
ListTools ==
  /\ reader.on
  /\ reader.offset < Cardinality(Listed(tools, reader.category))
  /\ LET page == Page(Listed(tools, reader.category), reader.offset) IN
     reader' = [reader EXCEPT !.offset = @ + Limit,
                              !.seen = @ \cup page,
                              !.twice = @ \/ (~reader.joined /\ page \cap reader.seen # {})]
  /\ UNCHANGED <<store, tools, clashes, call, history>>

(* The offset has reached the total.                                       *)
AllRead == reader.on /\ reader.offset >= Cardinality(Listed(tools, reader.category))

StopReading ==
  /\ AllRead
  /\ reader' = NotReading
  /\ UNCHANGED <<store, tools, clashes, call, history>>
-----------------------------------------------------------------------------
Init ==
  /\ store \in {"service", "http"}
  /\ tools = <<>> /\ reader = NotReading /\ clashes = 0 /\ call = NoCall /\ history = <<>>

Next ==
  \/ \E n \in Names, c \in Categories :
       ServiceRegisterTool(n, c) \/ RegisterTool(n, c) \/ UpdateTool(n, c)
  \/ \E n \in Names : \/ ServiceUpdateTool(n) \/ ServiceDeleteTool(n)
                       \/ DeleteTool(n) \/ ExecuteTool(n)
  \/ Post \/ ExecutionEnds
  \/ \E c \in Categories \cup {All} : StartReading(c)
  \/ ListTools \/ StopReading

Spec == Init /\ [][Next]_vars
-----------------------------------------------------------------------------
TypeOK ==
  /\ store \in {"service", "http"} /\ clashes \in 0..MaxClashes /\ call \in Call
  /\ tools \in Seq(Tool) /\ Len(tools) <= MaxTools
  /\ reader \in Reader /\ reader.seen \subseteq Ids /\ reader.first \subseteq Ids
  /\ history \in Seq({"answered", "mock"}) /\ Len(history) <= MaxHistory

(* Registration, deletion and change let a name stand for one tool, deleted *)
(* tools included, so that what is said of a name is said of one tool: always *)
(* behind api/tools.py, and in ToolService until an update gives a tool the *)
(* name of another one, or another id.                                     *)
NamesAreUnique ==
  /\ clashes = 0 => \A i, j \in Ids : tools[i].name = tools[j].name => i = j
  /\ store = "http" => clashes = 0

(* Paging, whatever updates do to names and ids: no entry is read twice     *)
(* unless one from before joined the listing meanwhile, and no entry of the  *)
(* listing as it was at the start is missed unless one of them left it.      *)
PagesAreSound ==
  /\ ~reader.twice
  /\ AllRead => reader.first \subseteq reader.seen
=============================================================================
