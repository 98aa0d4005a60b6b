----------------------------- MODULE WorkflowStore -----------------------------
(***************************************************************************)
(* What a caller of WorkflowPersistence relies on: every call takes effect  *)
(* at one instant between its start and its end and says so, or it raises,  *)
(* having had its effect or none.  A deleted definition keeps its row.      *)
(***************************************************************************)
CONSTANTS Workflows, Versions, Clients

VARIABLES
    rows,   \* the table: absent, or a version and whether it is active
    job     \* per client: the call under way, and the answer to the last one

Absent == [version |-> 0, active |-> FALSE]

Answered(kind, version) ==
    [op |-> "none", version |-> version, answer |-> kind]

Calling(op, w, v) == [op |-> op, workflow |-> w, version |-> v]

(* a row after save_workflow has written version v: a new row is active, an  *)
(* old one keeps its mark                                                    *)
Saved(row, v) == [version |-> v, active |-> row = Absent \/ row.active]

(* a row after delete_workflow: marked, not removed *)
Deleted(row) == [row EXCEPT !.active = FALSE]

(* what load_workflow makes of a row: a version, 0 for None *)
Loaded(row) == IF row.active THEN row.version ELSE 0

Effect(call, row) ==
    CASE call.op = "save"   -> Saved(row, call.version)
      [] call.op = "delete" -> Deleted(row)
      [] OTHER              -> row

Init ==
    /\ rows = [w \in Workflows |-> Absent]
    /\ job = [c \in Clients |-> Answered("none", 0)]

Call(c) ==
    /\ job[c].op = "none"
    /\ \E op \in {"save", "load", "delete", "execution"}, w \in Workflows, v \in Versions :
        job' = [job EXCEPT ![c] = Calling(op, w, v)]
    /\ UNCHANGED rows

(* the effect and the answer, at one instant *)
Answer(c) ==
    /\ job[c].op # "none"
    /\ LET w == job[c].workflow
       IN  /\ rows' = [rows EXCEPT ![w] = Effect(job[c], rows[w])]
           /\ job' = [job EXCEPT ![c] =
                        Answered("done", IF job[c].op = "load"
                                         THEN Loaded(rows[w]) ELSE 0)]

Raise(c) ==
    /\ job[c].op # "none"
    /\ LET w == job[c].workflow
       IN  rows' \in {rows, [rows EXCEPT ![w] = Effect(job[c], rows[w])]}
    /\ job' = [job EXCEPT ![c] = Answered("raised", 0)]

(* the process ends: the calls under way are gone, the table is not *)
Restart ==
    /\ job' = [c \in Clients |-> Answered("none", 0)]
    /\ UNCHANGED rows

Next ==
    \/ Restart
    \/ \E c \in Clients : Call(c) \/ Answer(c) \/ Raise(c)

Spec == Init /\ [][Next]_<<rows, job>>
=============================================================================
