----------------------------- MODULE Developers -----------------------------
(***************************************************************************)
(* ToolRegistrySecurity (security/tool_registry.py): the developers' rows  *)
(* and the sessions that change them.  Every operation opens a session of  *)
(* its own, loads a row, sets attributes and commits; it may be suspended  *)
(* between loading and committing, so operations on one developer overlap. *)
(***************************************************************************)
EXTENDS Naturals, FiniteSets

CONSTANTS Devs,      \* developers' ids, one for each registration
          Usernames, \* what they register as; the column is unique
          Tools,     \* ids of tools
          Sessions   \* operations that may be under way at once

VARIABLES ready,     \* _initialized
          row,       \* the table: a row, or NoRow
          session,   \* operation, developer and the row as it was loaded
          settled    \* what was committed of a developer: verified, deactivated

vars == <<ready, row, session, settled>>

Row == [exists : BOOLEAN, username : Usernames, verified : BOOLEAN, active : BOOLEAN, created : SUBSET Tools]
NoRow == [exists |-> FALSE, username |-> CHOOSE u \in Usernames : TRUE, verified |-> FALSE, active |-> FALSE, created |-> {}]
NoSession == [op |-> "none", dev |-> CHOOSE d \in Devs : TRUE, loaded |-> NoRow]
Changing == {"verify", "deactivate"}

Initialize ==
  /\ ~ready
  /\ ready' = TRUE
  /\ UNCHANGED <<row, session, settled>>

Shutdown ==
  /\ ready
  /\ ready' = FALSE
  /\ UNCHANGED <<row, session, settled>>

(* register_developer inserts a row under a new id; the insert fails when  *)
(* the username is taken.                                                  *)
RegisterDeveloper(d, u) ==
  /\ ready
  /\ ~row[d].exists
  /\ \A e \in Devs : row[e].exists => row[e].username # u
  /\ row' = [row EXCEPT ![d] = [exists |-> TRUE, username |-> u, verified |-> FALSE, active |-> TRUE, created |-> {}]]
  /\ UNCHANGED <<ready, session, settled>>

(* verify_developer, deactivate_developer: select the row. *)
Load(s, op, d) ==
  /\ ready
  /\ session[s].op = "none"
  /\ row[d].exists
  /\ session' = [session EXCEPT ![s] = [op |-> op, dev |-> d, loaded |-> row[d]]]
  /\ UNCHANGED <<ready, row, settled>>

(* mutant: the whole row is written as it was loaded *)
Written_whole(now, loaded, op) ==
  CASE op = "verify" -> [loaded EXCEPT !.verified = TRUE]
    [] op = "deactivate" -> [loaded EXCEPT !.active = FALSE]

(* A commit writes the columns whose attributes have changed, no others.   *)
Written(now, loaded, op) ==
  CASE op = "verify" -> [now EXCEPT !.verified = TRUE]
    [] op = "deactivate" -> [now EXCEPT !.active = FALSE]

CommitChange(s) ==
  /\ session[s].op \in Changing
  /\ LET d == session[s].dev IN
     /\ row' = [row EXCEPT ![d] = Written(@, session[s].loaded, session[s].op)]
     /\ settled' = [settled EXCEPT ![d] = @ \cup {session[s].op}]
  /\ session' = [session EXCEPT ![s] = NoSession]
  /\ UNCHANGED ready

(* The statement or the commit raises: rolled back, the answer is False.   *)
ChangeFails(s) ==
  /\ session[s].op \in Changing
  /\ session' = [session EXCEPT ![s] = NoSession]
  /\ UNCHANGED <<ready, row, settled>>

(* register_tool_creation appends to tools_created in place.  The column   *)
(* is a plain JSON one, which does not see the change of its list: there   *)
(* is nothing to write, and the operation answers True all the same.       *)
RegisterToolCreation(d, t) ==
  /\ ready /\ row[d].exists /\ t \notin row[d].created
  /\ UNCHANGED vars

CanRegisterTool(d) == row[d].exists /\ row[d].verified /\ row[d].active
CanManageTool(d, t) == CanRegisterTool(d) /\ t \in row[d].created
-----------------------------------------------------------------------------
Init ==
  /\ ready = FALSE
  /\ row = [d \in Devs |-> NoRow]
  /\ session = [s \in Sessions |-> NoSession]
  /\ settled = [d \in Devs |-> {}]

Next ==
  \/ Initialize \/ Shutdown
  \/ \E d \in Devs, u \in Usernames : RegisterDeveloper(d, u)
  \/ \E s \in Sessions : \/ \E op \in Changing, d \in Devs : Load(s, op, d)
                         \/ CommitChange(s) \/ ChangeFails(s)
  \/ \E d \in Devs, t \in Tools : RegisterToolCreation(d, t)

Spec == Init /\ [][Next]_vars
-----------------------------------------------------------------------------
TypeOK ==
  /\ ready \in BOOLEAN
  /\ row \in [Devs -> Row]
  /\ session \in [Sessions -> [op : Changing \cup {"none"}, dev : Devs, loaded : Row]]
  /\ settled \in [Devs -> SUBSET Changing]

(* No operation undoes what another one has committed meanwhile: whoever   *)
(* was deactivated stays out, whoever was verified stays verified, however *)
(* their sessions overlap.                                                 *)
ChangesAreKept ==
  \A d \in Devs : /\ "deactivate" \in settled[d] => ~row[d].active /\ ~CanRegisterTool(d)
                  /\ "verify" \in settled[d] => row[d].verified
                  /\ \A t \in Tools : CanManageTool(d, t) => CanRegisterTool(d)
=============================================================================
