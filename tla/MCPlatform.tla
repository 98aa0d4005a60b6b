------------------------------ MODULE MCPlatform ------------------------------
(***************************************************************************)
(* Who may come in, and what they find, for TLC: credentials, OAuth, the   *)
(* proxy, streams, transports, the session over stdio, and the start and   *)
(* stop of the program.                                                    *)
(* They share no state with one another.  A behaviour is of one of them,   *)
(* the subject; the others rest.                                           *)
(***************************************************************************)
EXTENDS Credentials, Sequences

CONSTANTS
    Flows, Callbacks, MaxGrants, MaxCrashes,                    \* OAuth
    Names, HostName, Endpoints, Sockets, Registrants,
    MaxConcurrent, MaxServers, MaxRequests,                     \* ProxyFleet
    Streams, Peers, BufferSize, Timeout, MaxTicks,              \* Streaming
    Builtin, CustomTypes, Priorities, MaxPlugins, MaxLinks,     \* Transports
    MaxLines, MaxPosts                                          \* McpSession

ASSUME FlowsAssumption ==
    /\ MaxGrants \in Nat /\ MaxCrashes \in Nat
    /\ 0 \notin Flows /\ 0 \notin Callbacks      \* 0 stands for none

ASSUME FleetAssumption ==
    /\ HostName \in Names /\ Endpoints # {} /\ Sockets \subseteq Endpoints
    /\ MaxConcurrent \in Nat /\ MaxServers \in Nat /\ MaxRequests \in Nat

ASSUME StreamsAssumption ==
    BufferSize \in Nat /\ Timeout \in Nat /\ MaxTicks \in Nat

(* The manager brings some types, each with one plugin.                      *)
ASSUME TransportsAssumption ==
    /\ Builtin \in Seq(STRING) /\ Builtin # <<>>
    /\ \A i, j \in DOMAIN Builtin : Builtin[i] = Builtin[j] => i = j
    /\ MaxPlugins \in Nat /\ MaxLinks \in Nat

ASSUME SessionAssumption == MaxLines \in Nat /\ MaxPosts \in Nat

VARIABLES
    subject,
    stateStore, callback, userRow, tokenRows, reader, rotates, honoured, granted,
    overlapped, crashes,
    wrapped, registered, registrant, sweep, gone, doubled, refused, requests,
    ticks, active, flow, loops, stream, peer, aged,
    program, features, phase, step, up, complete, clean,
    initialized, plugins, table, call, links, open, stuck, disturbed, down,
    counts, running, loop, cause, sent, closed, read, answers, late, posts, recorded

(* The transports that come with the program.                               *)
MCBuiltin == <<"websocket", "stdio">>

OAuth == INSTANCE OAuth
Proxy == INSTANCE ProxyFleet WITH overlapped <- doubled
Stream == INSTANCE Streaming WITH now <- ticks, expired <- aged, MaxTime <- MaxTicks
Program == INSTANCE Lifecycle
Transport == INSTANCE Transports
Session == INSTANCE McpSession

oauthVars ==
    <<stateStore, callback, userRow, tokenRows, reader, rotates, honoured, granted,
      overlapped, crashes>>
proxyVars == <<wrapped, registered, registrant, sweep, gone, doubled, refused, requests>>
streamVars == <<ticks, active, flow, loops, stream, peer, aged>>
programVars == <<program, features, phase, step, up, complete, clean>>
transportVars == <<initialized, plugins, table, call, links, open, stuck, disturbed, down>>
sessionVars ==
    <<counts, running, loop, cause, sent, closed, read, answers, late, posts, recorded>>
platformVars ==
    <<subject, vars, oauthVars, proxyVars, streamVars, programVars, transportVars, sessionVars>>

Subject(s) == subject = s /\ UNCHANGED subject

CredentialsMove(A) ==
    /\ Subject("credentials") /\ A
    /\ UNCHANGED <<oauthVars, proxyVars, streamVars, programVars, transportVars, sessionVars>>
OAuthMoves(A) ==
    /\ Subject("oauth") /\ A
    /\ UNCHANGED <<vars, proxyVars, streamVars, programVars, transportVars, sessionVars>>
ProxyMoves(A) ==
    /\ Subject("proxy") /\ A
    /\ UNCHANGED <<vars, oauthVars, streamVars, programVars, transportVars, sessionVars>>
StreamMoves(A) ==
    /\ Subject("stream") /\ A
    /\ UNCHANGED <<vars, oauthVars, proxyVars, programVars, transportVars, sessionVars>>
ProgramMoves(A) ==
    /\ Subject("program") /\ A
    /\ UNCHANGED <<vars, oauthVars, proxyVars, streamVars, transportVars, sessionVars>>
TransportMoves(A) ==
    /\ Subject("transports") /\ A
    /\ UNCHANGED <<vars, oauthVars, proxyVars, streamVars, programVars, sessionVars>>
SessionMoves(A) ==
    /\ Subject("session") /\ A
    /\ UNCHANGED <<vars, oauthVars, proxyVars, streamVars, programVars, transportVars>>

(* A part that rests has one initial state.                                *)
PlatformInit ==
    /\ subject \in
         {"credentials", "oauth", "proxy", "stream", "program", "transports", "session"}
    /\ Init
    /\ OAuth!Init /\ (subject # "oauth" => rotates)
    /\ Proxy!Init
    /\ Stream!Init
    /\ Program!Init /\ (subject # "program" => program = "server" /\ features = {})
    /\ Transport!Init
    /\ Session!Init /\ (subject # "session" => counts)

PlatformNext ==
    \/ CredentialsMove(Next)
    \/ OAuthMoves(OAuth!Next)
    \/ ProxyMoves(Proxy!Next)
    \/ StreamMoves(Stream!Next)
    \/ ProgramMoves(Program!Next)
    \/ TransportMoves(Transport!Next)
    \/ SessionMoves(Session!Next)

(* Tests of HTTP endpoints time out; the cleanup of streams and time go on; *)
(* a line that is there is read.                                            *)
PlatformFairness ==
    /\ \A r \in Registrants : WF_proxyVars(subject = "proxy" /\ Proxy!Discovers(r))
    /\ WF_streamVars(subject = "stream" /\ Stream!Cleans)
    /\ WF_streamVars(subject = "stream" /\ Stream!Tick)
    /\ WF_sessionVars(subject = "session" /\ Session!Reads)

PlatformSpec == PlatformInit /\ [][PlatformNext]_platformVars /\ PlatformFairness

-----------------------------------------------------------------------------
(* The properties of the parts, under the names of this module.             *)

(* Types, of all parts.                                                      *)
TypesOK ==
    /\ TypeOK /\ OAuth!TypeOK /\ Proxy!TypeOK /\ Stream!TypeOK /\ Program!TypeOK
    /\ Transport!TypeOK /\ Session!TypeOK

(* Who comes in: a revoked key does not, a state serves one callback, and a  *)
(* user has one row of tokens unless two callbacks overlapped.               *)
AccessIsSound == RevokedKeyRefused /\ OAuth!AuthorizationSound

(* What the proxy lists can be called where it says, and ids do not return.  *)
ListedServersAreReal == Proxy!ListedCanBeCalled /\ Proxy!IdsNeverReturn

(* What the program, its streams, its transports and its sessions leave     *)
(* behind.                                                                  *)
BooksAreClosed ==
    /\ Program!ShutdownIsComplete /\ Stream!StreamsAreSound
    /\ Transport!TransportsAreSound /\ Session!SessionIsSound

(* Streams go, registrants are answered, and what a session is sent is read. *)
WhatBeganEnds == <>[](Stream!Gone /\ Proxy!Answered /\ Session!AllRead)
=============================================================================
