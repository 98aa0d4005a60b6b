------------------------------ MODULE Transports ------------------------------
(***************************************************************************)
(* The transports of mcp/transport_plugins.py.  A plugin has one           *)
(* connection, which all that ask the manager for its type share: a        *)
(* websocket, a session of HTTP, or a process.  A link is any of these;    *)
(* who connects does not look whether there is one.                        *)
(***************************************************************************)
EXTENDS Sequences, FiniteSets, Naturals, FiniteSetsExt

CONSTANTS Users,        \* who connects, disconnects and shuts down
          Builtin,      \* a sequence: types the manager brings, each its own name
          CustomTypes,  \* the types of plugins that are registered later
          Priorities,   \* and their priorities
          MaxPlugins,   \* bound: plugins
          MaxLinks      \* bound: links

VARIABLES initialized,
          plugins,     \* the plugins ever made
          table,       \* TransportPluginManager.plugins, in its order
          call,        \* what each user waits for
          links,       \* how many links have been opened
          open,        \* those that are open, and that nobody has failed to close
          stuck,       \* those that stayed when they were closed, and were given up
          disturbed,   \* a use that the plugins are not made for
          down         \* shutdown has returned, and nothing was connected since

vars == <<initialized, plugins, table, call, links, open, stuck, disturbed, down>>

Builtins == {Builtin[i] : i \in DOMAIN Builtin}
Types == Builtins \cup CustomTypes

(* link: the websocket, session or process, 0 if None.                     *)
Plugin(name, type, priority, link) ==
  [name |-> name, type |-> type, priority |-> priority, enabled |-> TRUE, link |-> link]

Resting == [pc |-> "none", plugin |-> 0, link |-> 0, at |-> 0, size |-> 0]

Init ==
  /\ initialized = FALSE
  /\ plugins = <<>> /\ table = <<>>
  /\ call = [u \in Users |-> Resting]
  /\ links = 0 /\ open = {} /\ stuck = {}
  /\ disturbed = FALSE /\ down = FALSE

Idle(u) == call[u].pc = "none"
Walking(u) == call[u].at > 0
Used(i) == plugins[table[i]].link # 0 \/ \E u \in Users : ~Idle(u)
Busy(u, p) == \E v \in Users \ {u} : ~Idle(v) /\ (call[v].plugin = p \/ Walking(v))
-----------------------------------------------------------------------------
(* A plugin of HTTP has its session from initialize on, and once only.     *)
Made(name, type, priority, links0) ==
  Plugin(name, type, priority, IF type = "http" THEN links0 + 1 ELSE 0)

(* initialize: again after a shutdown, with new plugins in the old places. *)
Initialize ==
  /\ ~initialized
  /\ Len(plugins) + Len(Builtin) <= MaxPlugins /\ links < MaxLinks
  /\ initialized' = TRUE
  /\ plugins' = plugins \o [i \in DOMAIN Builtin |-> Made(Builtin[i], Builtin[i], 100, links)]
  /\ table' = [i \in DOMAIN Builtin |-> Len(plugins) + i]
              \o SubSeq(table, Len(Builtin) + 1, Len(table))
  /\ links' = IF "http" \in Builtins THEN links + 1 ELSE links
  /\ open' = IF "http" \in Builtins THEN open \cup {links'} ELSE open
  /\ disturbed' = (disturbed \/ \E i \in DOMAIN table \cap DOMAIN Builtin : Used(i))
  /\ down' = FALSE
  /\ UNCHANGED <<call, stuck>>

(* register_plugin, of a new name or over a plugin that has the name; what *)
(* that one holds is not closed.                                           *)
Place(name) == {i \in DOMAIN table : plugins[table[i]].name = name}

RegisterPlugin(name, type, priority) ==
  /\ initialized /\ Len(plugins) < MaxPlugins /\ links < MaxLinks
  /\ plugins' = Append(plugins, Made(name, type, priority, links))
  /\ table' = IF Place(name) = {} THEN Append(table, Len(plugins'))
              ELSE [i \in DOMAIN table |-> IF i \in Place(name) THEN Len(plugins') ELSE table[i]]
  /\ links' = IF type = "http" THEN links + 1 ELSE links
  /\ open' = IF type = "http" THEN open \cup {links'} ELSE open
  /\ disturbed' = (disturbed \/ \E i \in Place(name) : Used(i))
  /\ down' = FALSE
  /\ UNCHANGED <<initialized, call, stuck>>

(* enable_plugin, disable_plugin *)
Switch(i) ==
  /\ plugins' = [plugins EXCEPT ![table[i]].enabled = ~@]
  /\ UNCHANGED <<initialized, table, call, links, open, stuck, disturbed, down>>

(* The first of the enabled plugins of the type with the highest priority. *)
Candidates(type) ==
  {i \in DOMAIN table : plugins[table[i]].type = type /\ plugins[table[i]].enabled}
Best(type) ==
  {i \in Candidates(type) : \A j \in Candidates(type) : plugins[table[j]].priority <= plugins[table[i]].priority}
Selected(type) == table[Min(Best(type))]

(* create_transport_connection; to be alone with a plugin without a link,  *)
(* or with the session of HTTP, is what connect takes for granted.         *)
Proper(u, p) == ~Busy(u, p) /\ (plugins[p].link = 0 \/ plugins[p].type = "http")

ConnectBegins(u, type) ==
  /\ Idle(u) /\ Best(type) # {} /\ type # "stdio"
  /\ type = "http" => plugins[Selected(type)].link # 0
  /\ call' = [call EXCEPT ![u] = [Resting EXCEPT !.pc = "connecting", !.plugin = Selected(type)]]
  /\ disturbed' = (disturbed \/ ~Proper(u, Selected(type)))
  /\ down' = FALSE
  /\ UNCHANGED <<initialized, plugins, table, links, open, stuck>>

Linked(p) ==
  /\ links < MaxLinks
  /\ links' = links + 1 /\ open' = open \cup {links'}
  /\ plugins' = [plugins EXCEPT ![p].link = links']

(* The websocket is there, or HTTP has answered; the plugin may have been  *)
(* disconnected meanwhile.                                                 *)
ConnectEnds(u) ==
  /\ call[u].pc = "connecting"
  /\ \/ plugins[call[u].plugin].type = "websocket" /\ Linked(call[u].plugin)
     \/ plugins[call[u].plugin].type = "http" /\ UNCHANGED <<plugins, links, open>>
  /\ call' = [call EXCEPT ![u] = Resting]
  /\ UNCHANGED <<initialized, table, stuck, disturbed, down>>

ConnectFails(u) ==
  /\ call[u].pc = "connecting"
  /\ call' = [call EXCEPT ![u] = Resting]
  /\ UNCHANGED <<initialized, plugins, table, links, open, stuck, disturbed, down>>

(* A process is started without waiting.                                   *)
ConnectStdio(u) ==
  /\ Idle(u) /\ Best("stdio") # {}
  /\ Linked(Selected("stdio"))
  /\ disturbed' = (disturbed \/ ~Proper(u, Selected("stdio")))
  /\ down' = FALSE
  /\ UNCHANGED <<initialized, table, call, stuck>>

(* The other end goes, or the process ends; the plugin keeps what it holds. *)
PeerCloses(p) ==
  /\ plugins[p].type # "http" /\ plugins[p].link \in open
  /\ open' = open \ {plugins[p].link}
  /\ UNCHANGED <<initialized, plugins, table, call, links, stuck, disturbed, down>>

(* What was given up ends late, or at its other end.                       *)
StuckEnds(l) ==
  /\ l \in stuck
  /\ stuck' = stuck \ {l}
  /\ UNCHANGED <<initialized, plugins, table, call, links, open, disturbed, down>>
-----------------------------------------------------------------------------
(* disconnect does nothing without a link.  It waits for a websocket or a  *)
(* session to close, and not for others while it waits for a process.      *)
(* A process that has not ended in five seconds, a close that raises, and  *)
(* one that is cancelled leave the link as it is, and the plugin drops it  *)
(* all the same.                                                           *)
Waits(p) == plugins[p].type # "stdio" /\ plugins[p].link # 0
Dropped(p) == [p EXCEPT !.link = 0]

Closes(closed) ==
  \E failed \in SUBSET (closed \cap (open \cup stuck)) :
    /\ open' = open \ closed
    /\ stuck' = (stuck \ closed) \cup failed

Disconnect(u, i) ==
  /\ Idle(u) /\ Waits(table[i])
  /\ call' = [call EXCEPT ![u] = [Resting EXCEPT !.pc = "closing", !.plugin = table[i],
                                                !.link = plugins[table[i]].link]]
  /\ disturbed' = (disturbed \/ Busy(u, table[i]))
  /\ UNCHANGED <<initialized, plugins, table, links, open, stuck, down>>

DisconnectStdio(u, i) ==
  /\ Idle(u) /\ plugins[table[i]].type = "stdio" /\ plugins[table[i]].link # 0
  /\ plugins' = [plugins EXCEPT ![table[i]] = Dropped(@)]
  /\ Closes({plugins[table[i]].link})
  /\ disturbed' = (disturbed \/ Busy(u, table[i]))
  /\ UNCHANGED <<initialized, table, call, links, down>>

(* The walk of shutdown, on from a place of the table: to the next plugin  *)
(* that it waits for, or to the end.  It logs what a disconnect raises and *)
(* goes on.                                                                *)
Stopover(from) ==
  LET waiting == {j \in from..Len(table) : Waits(table[j])} IN
  IF waiting = {} THEN Len(table) + 1 ELSE Min(waiting)

(* mutant: the plugin that the walk comes to first is passed over          *)
Passed_next(from, to) ==
  {table[j] : j \in {j \in (from + 1)..(to - 1) : plugins[table[j]].type = "stdio"}}

Passed(from, to) == {table[j] : j \in {j \in from..(to - 1) : plugins[table[j]].type = "stdio"}}

Walks(u, from, held) ==
  LET to == Stopover(from)
      done == to = Len(table) + 1
      ended == Passed(from, to) IN
  /\ plugins' = [p \in DOMAIN plugins |-> IF p \in ended \cup held THEN Dropped(plugins[p]) ELSE plugins[p]]
  /\ Closes({plugins[p].link : p \in ended} \cup {call[u].link})
  /\ call' = [call EXCEPT ![u] = IF done THEN Resting ELSE
       [pc |-> "closing", plugin |-> table[to], link |-> plugins[table[to]].link, at |-> to,
        size |-> Len(table)]]
  /\ initialized' = (initialized /\ ~done)
  /\ down' = (done \/ down)

Shutdown(u) ==
  /\ Idle(u) /\ initialized
  /\ Walks(u, 1, {})
  /\ disturbed' = (disturbed \/ \E v \in Users \ {u} : ~Idle(v))
  /\ UNCHANGED <<table, links>>

(* The finally of disconnect: what the plugin has now is dropped, be it    *)
(* the link that was closed or another.                                    *)
Closed(u) == [plugins EXCEPT ![call[u].plugin] = Dropped(@)]

CloseEnds(u) ==
  /\ call[u].pc = "closing" /\ ~Walking(u)
  /\ plugins' = Closed(u)
  /\ Closes({call[u].link})
  /\ call' = [call EXCEPT ![u] = Resting]
  /\ UNCHANGED <<initialized, table, links, disturbed, down>>

(* The next plugin of the walk.  A table that has grown stops it with an   *)
(* error that shutdown does not catch; so does its cancellation.           *)
WalkGoesOn(u) ==
  /\ Walking(u) /\ call[u].size = Len(table)
  /\ Walks(u, call[u].at + 1, {call[u].plugin})
  /\ UNCHANGED <<table, links, disturbed>>

WalkBreaks(u) ==
  /\ Walking(u)
  /\ plugins' = Closed(u)
  /\ Closes({call[u].link})
  /\ call' = [call EXCEPT ![u] = Resting]
  /\ UNCHANGED <<initialized, table, links, disturbed, down>>

Next ==
  \/ Initialize
  \/ \E name \in Builtins \cup {"custom"}, type \in CustomTypes, priority \in Priorities :
       RegisterPlugin(name, type, priority)
  \/ \E i \in DOMAIN table : Switch(i)
  \/ \E p \in DOMAIN plugins : PeerCloses(p)
  \/ \E l \in stuck : StuckEnds(l)
  \/ \E u \in Users :
       \/ \E type \in Types : ConnectBegins(u, type)
       \/ ConnectStdio(u)
       \/ ConnectEnds(u) \/ ConnectFails(u)
       \/ \E i \in DOMAIN table : Disconnect(u, i) \/ DisconnectStdio(u, i)
       \/ CloseEnds(u)
       \/ Shutdown(u)
       \/ WalkGoesOn(u) \/ WalkBreaks(u)

Spec == Init /\ [][Next]_vars
-----------------------------------------------------------------------------
TypeOK ==
  /\ {initialized, disturbed, down} \subseteq BOOLEAN
  /\ Len(plugins) <= MaxPlugins
  /\ \A i \in DOMAIN table : table[i] \in DOMAIN plugins
  /\ \A p \in DOMAIN plugins :
       /\ plugins[p].type \in Types /\ plugins[p].link \in 0..MaxLinks
       /\ plugins[p].enabled \in BOOLEAN
  /\ open \subseteq 1..links /\ links \in 0..MaxLinks
  /\ stuck \subseteq 1..links /\ stuck \cap open = {}
  /\ \A u \in Users : call[u].pc \in {"none", "connecting", "closing"}

(* What nobody has failed to close can be closed: a plugin of the table    *)
(* holds it, as long as plugins are connected once, by one user at a time, *)
(* and not replaced while they hold something.                             *)
OpenIsHeld ==
  ~disturbed => open \subseteq {plugins[table[i]].link : i \in DOMAIN table}

(* After shutdown nothing is open that shutdown, or somebody before it, has *)
(* not tried and failed to close, with the same reservation: it walks past *)
(* no plugin, whatever the others raise.                                   *)
DownIsClosed == down /\ ~disturbed => open = {}

(* No two plugins hold the same link, and the table names no plugin twice. *)
LinksAreOwned ==
  /\ \A p, q \in DOMAIN plugins : p # q /\ plugins[p].link # 0 => plugins[p].link # plugins[q].link
  /\ \A i, j \in DOMAIN table : i # j => plugins[table[i]].name # plugins[table[j]].name

TransportsAreSound == OpenIsHeld /\ DownIsClosed /\ LinksAreOwned
=============================================================================
