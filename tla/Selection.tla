----------------------------- MODULE Selection -----------------------------
(***************************************************************************)
(* How LoadBalancer.get_server chooses (mcp/load_balancer.py) among the    *)
(* healthy servers, which change as LoadBalancer lets them.  Servers are   *)
(* numbered in the order of the dictionary; one that is removed and added  *)
(* again is another.  The client asks again and again under one id.        *)
(* hash() is Python's: the same for the same text within one process, and  *)
(* otherwise anything.                                                     *)
(***************************************************************************)
EXTENDS Integers, FiniteSets, Sequences

CONSTANTS Ids,
          Weight,   \* ServerConfig.weight
          Cycle,    \* a multiple of all the totals current_index is reduced by
          Virtual,  \* virtual nodes of a server
          Hashes,   \* values of hash()
          Counts    \* numbers of connections told apart

VARIABLES strategy,
          healthy,      \* what _get_healthy_servers returns
          index,        \* current_index, modulo Cycle
          connections,  \* active_connections of each server
          node,         \* hash of a server's virtual nodes
          client,       \* hash of the client's id
          picks,        \* what was chosen since the list last changed, the last round of it
          last          \* the last choice and the servers it was made from

vars == <<strategy, healthy, index, connections, node, client, picks, last>>

Hashing == {"ip_hash", "consistent_hash"}
Turning == {"round_robin", "weighted_round_robin"}
Strategies == Turning \cup Hashing \cup {"least_connections", "least_response_time"}

(* Candidates are <<key, server, number>>, in the order of a sort by the   *)
(* key that is stable; the n-th of them, from 0 on.                        *)
Before(p, q) ==
  \/ p[1] < q[1]
  \/ p[1] = q[1] /\ (p[2] < q[2] \/ (p[2] = q[2] /\ p[3] < q[3]))
Ahead(p, P) == {q \in P : Before(q, p)}
Nth(P, n) == (CHOOSE p \in P : Cardinality(Ahead(p, P)) = n)[2]

(* The turns of a round: one for every server, or as many as its weight.   *)
(* The first server at which the weights added up exceed the index is the  *)
(* one whose turn it is.                                                   *)
Share(i) == IF strategy = "weighted_round_robin" THEN Weight[i] ELSE 1
Turns(S) == UNION {{<<0, i, w>> : w \in 1..Share(i)} : i \in S}
Round == Cardinality(Turns(healthy))
RoundRobin == Nth(Turns(healthy), index % Round)

LeastConnections == Nth({<<connections[i], i, 1>> : i \in healthy}, 0)

IpHash(S) == Nth(Turns(S), client % Cardinality(Turns(S)))

(* The first virtual node at or after the client's hash, else the first of *)
(* all.                                                                    *)
Ring(S) == {<<node[v], v[1], v[2]>> : v \in S \X Virtual}
ConsistentHash(S) ==
  LET after == {p \in Ring(S) : p[1] >= client}
  IN  Nth(IF after = {} THEN Ring(S) ELSE after, 0)

Hashed(S) == IF strategy = "ip_hash" THEN IpHash(S) ELSE ConsistentHash(S)

(* least_response_time follows the checks' response times: any server.     *)
Chosen ==
  CASE strategy \in Turning -> {RoundRobin}
    [] strategy \in Hashing -> {Hashed(healthy)}
    [] strategy = "least_connections" -> {LeastConnections}
    [] strategy = "least_response_time" -> healthy

Advanced(i) == (i + 1) % Cycle

(* get_server for the client, which sends its request to what it is given. *)
GetServer ==
  /\ healthy # {}
  /\ \E s \in Chosen :
       IF strategy \in Hashing
         THEN last' = [server |-> s, among |-> healthy] /\ UNCHANGED picks
         ELSE picks' = Append(IF Len(picks) = Round THEN Tail(picks) ELSE picks, s) /\ UNCHANGED last
  /\ index' = IF strategy \in Turning THEN Advanced(index) ELSE index
  /\ UNCHANGED <<strategy, healthy, connections, node, client>>

(* A server becomes healthy, or no longer is, is added or removed.         *)
HealthyServersChange ==
  /\ \E S \in SUBSET Ids : S # healthy /\ healthy' = S
  /\ picks' = <<>>
  /\ UNCHANGED <<strategy, index, connections, node, client, last>>

(* The client reports how many connections it holds by now.                *)
UpdateServerConnectionCount(i, n) ==
  /\ strategy = "least_connections"   \* nothing else reads them
  /\ connections[i] # n
  /\ connections' = [connections EXCEPT ![i] = n]
  /\ UNCHANGED <<strategy, healthy, index, node, client, picks, last>>

Init ==
  /\ strategy \in Strategies
  /\ healthy = {} /\ index = 0 /\ picks = <<>>
  /\ connections = [i \in Ids |-> 0]
  /\ client \in IF strategy \in Hashing THEN Hashes ELSE {0}
  /\ node \in [Ids \X Virtual -> IF strategy = "consistent_hash" THEN Hashes ELSE {0}]
  /\ last = [server |-> 0, among |-> {}]

Next ==
  \/ GetServer \/ HealthyServersChange
  \/ \E i \in Ids, n \in Counts : UpdateServerConnectionCount(i, n)

Spec == Init /\ [][Next]_vars
-----------------------------------------------------------------------------
TypeOK ==
  /\ strategy \in Strategies /\ index \in 0..(Cycle - 1)
  /\ healthy \subseteq Ids
  /\ picks \in Seq(Ids) /\ Len(picks) <= Round

(* Every round over an unchanged list gives a server its share: one choice *)
(* in turn, or as many as its weight, wherever the index stood before.     *)
ShareIsFair ==
  strategy \in Turning /\ healthy # {} /\ Len(picks) = Round =>
    \A i \in healthy : Cardinality({k \in 1..Round : picks[k] = i}) = Share(i)

(* The client stays with its server while the list stays, and with         *)
(* consistent hashing also when servers other than its own are gone.       *)
Kept == IF strategy = "ip_hash" THEN last.among = healthy
        ELSE healthy \subseteq last.among /\ last.server \in healthy
ClientStays ==
  strategy \in Hashing /\ healthy # {} /\ Kept => Chosen = {last.server}
=============================================================================
