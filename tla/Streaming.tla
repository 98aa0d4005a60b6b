------------------------------ MODULE Streaming ------------------------------
(***************************************************************************)
(* Streams of mcp/streaming.py: chunks are numbered and queued by senders, *)
(* receivers wait with a timeout, and a cleanup task closes what is too    *)
(* old.  No code makes a stream ACTIVE: pause and resume change nothing,   *)
(* and the loops of a BidirectionalStream end as soon as they look at it,  *)
(* so that nothing takes chunks out of a send queue.                       *)
(***************************************************************************)
EXTENDS Naturals, Sequences, FiniteSets

CONSTANTS Streams,     \* ids, one for each stream that is created
          Peers,       \* coroutines that send or receive
          BufferSize,
          Timeout,     \* ticks, of a stream and of a receiver
          MaxTime

VARIABLES now,
          active,     \* the ids in active_streams
          flow,       \* the ids in flow_controllers
          loops,      \* the ids in bidirectional_streams whose loops run
          stream,     \* each StreamOperation
          peer,       \* what a coroutine awaits
          expired     \* the ids a cleanup has yet to close

vars == <<now, active, flow, loops, stream, peer, expired>>

Unmade == [status |-> "none", closed |-> FALSE, created |-> 0, sent |-> 0, queue |-> <<>>]
Free == [waits |-> "nothing", stream |-> CHOOSE s \in Streams : TRUE, since |-> 0]
-----------------------------------------------------------------------------
(* create_stream and, for a bidirectional one, the start of its loops.     *)
CreateStream(s, bidirectional) ==
  /\ stream[s].status = "none"
  /\ stream' = [stream EXCEPT ![s] = [Unmade EXCEPT !.status = "initializing", !.created = now]]
  /\ active' = active \cup {s} /\ flow' = flow \cup {s}
  /\ loops' = IF bidirectional THEN loops \cup {s} ELSE loops
  /\ UNCHANGED <<now, peer, expired>>

(* _send_loop and _receive_loop: the stream is not active, they return.    *)
LoopsEnd(s) ==
  /\ s \in loops
  /\ loops' = loops \ {s}
  /\ UNCHANGED <<now, active, flow, stream, peer, expired>>

(* mutant: chunks are numbered from 1 *)
Number_next(t) == t.sent + 1

Number(t) == t.sent

Queued(t, final) ==
  [t EXCEPT !.queue = Append(@, Number(t)), !.sent = @ + 1,
            !.status = IF final THEN "completed" ELSE @]

(* send_chunk refuses a closed stream, send_final_chunk does not; a full   *)
(* queue keeps the sender waiting, and nothing empties it.                 *)
SendChunk(p, s) ==
  /\ peer[p] = Free
  /\ stream[s].status # "none"
  /\ \E final \in BOOLEAN :
       /\ final \/ ~stream[s].closed
       /\ IF Len(stream[s].queue) < BufferSize
            THEN stream' = [stream EXCEPT ![s] = Queued(@, final)] /\ UNCHANGED peer
            ELSE peer' = [peer EXCEPT ![p] = [waits |-> "room", stream |-> s, since |-> 0]] /\ UNCHANGED stream
  /\ UNCHANGED <<now, active, flow, loops, expired>>

ReceiveChunk(p, s) ==
  /\ peer[p] = Free
  /\ stream[s].status # "none" /\ ~stream[s].closed
  /\ peer' = [peer EXCEPT ![p] = [waits |-> "chunk", stream |-> s, since |-> now]]
  /\ UNCHANGED <<now, active, flow, loops, stream, expired>>

(* wait_for gives up: None.  Nobody puts chunks into a receive queue.      *)
ReceiveTimesOut(p) ==
  /\ peer[p].waits = "chunk" /\ now >= peer[p].since + Timeout
  /\ peer' = [peer EXCEPT ![p] = Free]
  /\ UNCHANGED <<now, active, flow, loops, stream, expired>>

Cancel(s) ==
  /\ stream[s].status # "none" /\ ~stream[s].closed
  /\ stream' = [stream EXCEPT ![s].status = "cancelled", ![s].closed = TRUE]
  /\ UNCHANGED <<now, active, flow, loops, peer, expired>>
-----------------------------------------------------------------------------
(* mutant: a stream that was cancelled counts as closed already *)
Removed_cancelled(S) == active \ {s \in S : stream[s].status # "cancelled"}

Removed(S) == active \ S

(* close_stream, under the lock. *)
CloseStream(s) ==
  /\ s \in active
  /\ stream' = [stream EXCEPT ![s].closed = TRUE]
  /\ active' = Removed({s}) /\ flow' = flow \ {s}
  /\ UNCHANGED <<now, loops, peer>>

CloseByCaller(s) == CloseStream(s) /\ UNCHANGED expired

(* _cleanup_expired_streams lists the old streams under the lock and       *)
(* closes them one by one, taking the lock again for each.                 *)
Cleanup ==
  /\ expired = {}
  /\ expired' = {s \in active : now > stream[s].created + Timeout}
  /\ expired' # {}
  /\ UNCHANGED <<now, active, flow, loops, stream, peer>>

CleanupNext(s) ==
  /\ s \in expired
  /\ IF s \in active THEN CloseStream(s) ELSE UNCHANGED <<now, active, flow, loops, stream, peer>>
  /\ expired' = expired \ {s}

(* The clock; it stands still at the bound, when all streams are old.      *)
Tick ==
  /\ now < MaxTime
  /\ now' = now + 1
  /\ UNCHANGED <<active, flow, loops, stream, peer, expired>>
-----------------------------------------------------------------------------
Init ==
  /\ now = 0 /\ active = {} /\ flow = {} /\ loops = {} /\ expired = {}
  /\ stream = [s \in Streams |-> Unmade]
  /\ peer = [p \in Peers |-> Free]

Cleans == Cleanup \/ \E s \in Streams : CleanupNext(s)

Next ==
  \/ \E s \in Streams : /\ now + Timeout < MaxTime
                        /\ \E bidirectional \in BOOLEAN : CreateStream(s, bidirectional)
  \/ \E s \in Streams : LoopsEnd(s) \/ Cancel(s) \/ CloseByCaller(s)
  \/ \E p \in Peers, s \in Streams : SendChunk(p, s) \/ ReceiveChunk(p, s)
  \/ \E p \in Peers : ReceiveTimesOut(p)
  \/ Cleans \/ Tick

Spec == Init /\ [][Next]_vars /\ WF_vars(Cleans) /\ WF_vars(Tick)
-----------------------------------------------------------------------------
TypeOK ==
  /\ active \subseteq Streams /\ loops \subseteq Streams /\ expired \subseteq Streams
  /\ \A s \in Streams : stream[s].sent \in 0..BufferSize /\ stream[s].queue \in Seq(Nat)

(* A stream's two entries come and go together, so that whoever finds a    *)
(* stream finds its flow controller; its chunks are numbered without gaps  *)
(* or repetitions, however senders overlap.                                *)
StreamsAreSound ==
  /\ active = flow
  /\ \A s \in Streams : \A k \in DOMAIN stream[s].queue : stream[s].queue[k] = k - 1

(* Every stream leaves the books in the end, also one that was cancelled   *)
(* and one whose sender waits for room for ever.  (Streams are created     *)
(* until shortly before MaxTime.)                                          *)
Gone == active = {}
StreamsGo == <>[]Gone
=============================================================================
