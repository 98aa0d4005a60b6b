-------------------------- MODULE WorkflowPersistence --------------------------
(***************************************************************************)
(* WorkflowPersistence of src/metamcp/composition/persistence.py: the       *)
(* table of workflow definitions behind an asyncpg pool.  save_workflow      *)
(* looks for the row and then writes, in two statements, so other clients    *)
(* write in between; a second INSERT of an id violates the primary key.      *)
(***************************************************************************)
EXTENDS Integers, TLAPS

CONSTANTS
    Workflows,      \* workflow ids
    Versions,       \* definitions that are saved under an id
    Clients         \* coroutines that use the persistence layer

VARIABLES rows, job

storeVars == <<rows, job>>

Store == INSTANCE WorkflowStore     \* rows and answers, no statements

Absent == Store!Absent

(* "execution" stands for save_execution and cleanup_old_executions *)
Ops == {"save", "load", "delete", "execution"}

StoreTypeOK ==
    /\ rows \in [Workflows -> [version : Versions \cup {0}, active : BOOLEAN]]
    /\ job \in [Clients ->
            [op : {"none"}, version : Versions \cup {0},
             answer : {"none", "done", "raised"}] \cup
            [op : Ops \cup {"update", "insert"}, workflow : Workflows,
             version : Versions]]

StoreInit ==
    /\ rows = [w \in Workflows |-> Absent]
    /\ job = [c \in Clients |-> Store!Answered("none", 0)]

Calls(c) ==
    /\ job[c].op = "none"
    /\ \E op \in Ops, w \in Workflows, v \in Versions :
        job' = [job EXCEPT ![c] = Store!Calling(op, w, v)]
    /\ UNCHANGED rows

Writes(c, row) == rows' = [rows EXCEPT ![job[c].workflow] = row]
Answers(c, kind, version) ==
    job' = [job EXCEPT ![c] = Store!Answered(kind, version)]

(* SELECT id: decides between UPDATE and INSERT, whatever is_active says *)
LooksUp(c) ==
    /\ job[c].op = "save"
    /\ job' = [job EXCEPT ![c].op =
                    IF rows[job[c].workflow] = Absent THEN "insert" ELSE "update"]
    /\ UNCHANGED rows

(* UPDATE ... WHERE id = $1: is_active is not among the columns it sets *)
Updates(c) ==
    /\ job[c].op = "update"
    /\ Writes(c, [rows[job[c].workflow] EXCEPT !.version = job[c].version])
    /\ Answers(c, "done", 0)

(* mutant: ON CONFLICT DO NOTHING *)
Inserts_quiet(c) ==
    /\ job[c].op = "insert"
    /\ IF rows[job[c].workflow] = Absent
       THEN Writes(c, [version |-> job[c].version, active |-> TRUE])
       ELSE UNCHANGED rows
    /\ Answers(c, "done", 0)

(* INSERT, refused by the primary key when the row has appeared meanwhile *)
Inserts(c) ==
    /\ job[c].op = "insert"
    /\ IF rows[job[c].workflow] = Absent
       THEN /\ Writes(c, [version |-> job[c].version, active |-> TRUE])
            /\ Answers(c, "done", 0)
       ELSE /\ UNCHANGED rows
            /\ Answers(c, "raised", 0)

(* what load_all_workflows finds, in a process that starts *)
Loadable == {w \in Workflows : rows[w].active}

LoadWorkflow(c) ==
    /\ job[c].op = "load"
    /\ UNCHANGED rows
    /\ Answers(c, "done", IF job[c].workflow \in Loadable
                          THEN rows[job[c].workflow].version ELSE 0)

(* the row is marked, or there is none: the caller cannot tell, because      *)
(* execute of the database manager returns None                              *)
DeleteWorkflow(c) ==
    /\ job[c].op = "delete"
    /\ LET row == rows[job[c].workflow]
       IN  Writes(c, [row EXCEPT !.active = FALSE])
    /\ Answers(c, "done", 0)

(* a statement fails before the database or after it, and the client hears   *)
(* of neither                                                                *)
DatabaseFails(c) ==
    /\ job[c].op # "none"
    /\ Answers(c, "raised", 0)
    /\ LET row == rows[job[c].workflow]
       IN  rows' \in {rows} \cup
            (CASE job[c].op = "insert" /\ row = Absent ->
                    {[rows EXCEPT ![job[c].workflow] =
                        [version |-> job[c].version, active |-> TRUE]]}
               [] job[c].op = "update" ->
                    {[rows EXCEPT ![job[c].workflow].version = job[c].version]}
               [] job[c].op = "delete" ->
                    {[rows EXCEPT ![job[c].workflow].active = FALSE]}
               [] OTHER -> {})

Raises(c) ==
    /\ job[c].op = "execution"
    /\ Answers(c, "raised", 0)
    /\ UNCHANGED rows

(* reads execution.id, which a result does not have: raises on every call *)
SaveExecution(c) == Raises(c)

(* passes an argument to a statement without a parameter ('%s days' is inside *)
(* a string): the driver refuses, on every call                               *)
CleanupOldExecutions(c) == Raises(c)

StoreRestarts ==
    /\ job' = [c \in Clients |-> Store!Answered("none", 0)]
    /\ UNCHANGED rows

StoreNext ==
    \E c \in Clients :
        \/ Calls(c) \/ LooksUp(c) \/ Updates(c) \/ Inserts(c) \/ LoadWorkflow(c)
        \/ DeleteWorkflow(c) \/ DatabaseFails(c) \/ SaveExecution(c)
        \/ CleanupOldExecutions(c)

StoreSpec == StoreInit /\ [][StoreNext \/ StoreRestarts]_storeVars

-----------------------------------------------------------------------------
(* Between its statements a save is a save to its caller.                    *)
Calling(c) ==
    IF job[c].op \in {"update", "insert"}
    THEN [job[c] EXCEPT !.op = "save"] ELSE job[c]

Called == [c \in Clients |-> Calling(c)]

Promised == INSTANCE WorkflowStore WITH job <- Called

(* Saves, loads and deletions of any number of clients, with failures and    *)
(* restarts, behave as if each were one statement: a save that is answered   *)
(* has written its version at one instant, and a load finds what the last    *)
(* such instant left (save_workflow is two statements).                      *)
StoreKeepsPromise == Promised!Spec

-----------------------------------------------------------------------------
(* The proof that every number of clients finds the promise kept.  A save     *)
(* that has seen a row may rely on it: rows are marked, never removed, and no *)
(* version is the 0 of an absent one.                                        *)
RowsStay ==
    /\ \A w \in Workflows : rows[w].active => rows[w].version # 0
    /\ \A c \in Clients :
           job[c].op = "update" => rows[job[c].workflow].version # 0

StoreInv == StoreTypeOK /\ RowsStay

Row == [version : Versions \cup {0}, active : BOOLEAN]
Answer == [op : {"none"}, version : Versions \cup {0},
           answer : {"none", "done", "raised"}]
Request == [op : Ops \cup {"update", "insert"}, workflow : Workflows, version : Versions]

LEMMA JobShape ==
    ASSUME StoreTypeOK, NEW c \in Clients
    PROVE  /\ job[c] \in Answer \cup Request
           /\ job[c].op = "none" => job[c] \in Answer
           /\ job[c].op # "none" => job[c] \in Request
           /\ job[c] \in Request => rows[job[c].workflow] \in Row
BY DEF StoreTypeOK, Answer, Request, Ops, Row

(* What a caller sees of a step of one client that ends, or begins, a call.  *)
LEMMA CalledFollows ==
    ASSUME StoreTypeOK, NEW c \in Clients, NEW r, r.op \notin {"update", "insert"},
           job' = [job EXCEPT ![c] = r]
    PROVE  Called' = [Called EXCEPT ![c] = r]
<1>1. job \in [Clients -> Answer \cup Request]
  BY DEF StoreTypeOK, Answer, Request
<1>2. \A d \in Clients : Calling(d)' = IF d = c THEN r ELSE Calling(d)
  BY <1>1 DEF Calling
<1> QED
  BY <1>2 DEF Called

(* What a caller sees of a call that is under way.                           *)
LEMMA CalledSave ==
    ASSUME StoreTypeOK, NEW c \in Clients, job[c].op # "none"
    PROVE  /\ Called[c].op = IF job[c].op \in {"update", "insert"} THEN "save"
                             ELSE job[c].op
           /\ Called[c].workflow = job[c].workflow
           /\ Called[c].version = job[c].version
<1>1. job[c] \in Request
  BY JobShape
<1> QED
  BY <1>1 DEF Called, Calling, Request

(* The end of a call, with or without its effect.                            *)
LEMMA EndsAsPromised ==
    ASSUME StoreTypeOK, NEW c \in Clients, job[c].op # "none",
           NEW kind \in {"done", "raised"}, NEW version \in Versions \cup {0},
           Answers(c, kind, version),
           LET row == rows[job[c].workflow]
               effect == [rows EXCEPT ![job[c].workflow] =
                              Promised!Effect(Called[c], row)]
           IN  \/ /\ kind = "done" /\ rows' = effect
                  /\ version = IF job[c].op = "load" THEN Promised!Loaded(row) ELSE 0
               \/ kind = "raised" /\ version = 0 /\ rows' \in {rows, effect}
    PROVE  Promised!Next
<1>1. Called[c].op # "none" /\ Called[c].workflow = job[c].workflow
      /\ (Called[c].op = "load" <=> job[c].op = "load")
  BY CalledSave
<1>2. Called' = [Called EXCEPT ![c] = Promised!Answered(kind, version)]
  <2> DEFINE r == Store!Answered(kind, version)
  <2>1. r.op = "none" /\ job' = [job EXCEPT ![c] = r]
    BY DEF Answers, Store!Answered
  <2>2. r = Promised!Answered(kind, version)
    BY DEF Store!Answered, Promised!Answered
  <2> HIDE DEF r
  <2>3. Called' = [Called EXCEPT ![c] = r]
    BY <2>1, CalledFollows
  <2> QED
    BY <2>2, <2>3
<1>3. Promised!Answer(c) \/ Promised!Raise(c)
  BY <1>1, <1>2 DEF Promised!Answer, Promised!Raise
<1> QED
  BY <1>3 DEF Promised!Next

(* What the promise says of a row, for each kind of call.                    *)
LEMMA Effects ==
    ASSUME StoreTypeOK, NEW c \in Clients, job[c].op # "none"
    PROVE  LET row == rows[job[c].workflow]
               effect == Promised!Effect(Called[c], row)
           IN  /\ job[c].op \in {"save", "update", "insert"} =>
                      effect = [version |-> job[c].version,
                                active |-> row = Absent \/ row.active]
               /\ job[c].op = "delete" => effect = [row EXCEPT !.active = FALSE]
               /\ job[c].op \in {"load", "execution"} => effect = row
BY CalledSave DEF Promised!Effect, Promised!Saved, Promised!Deleted, Promised!Absent,
                  Absent, Store!Absent

(* Every step of a client is a step that the promise allows, or none.        *)
LEMMA StepKeepsPromise ==
    ASSUME StoreInv, NEW c \in Clients,
           \/ Calls(c) \/ LooksUp(c) \/ Updates(c) \/ Inserts(c) \/ LoadWorkflow(c)
           \/ DeleteWorkflow(c) \/ DatabaseFails(c) \/ Raises(c)
    PROVE  Promised!Next \/ UNCHANGED <<rows, Called>>
<1> USE DEF StoreInv
<1> DEFINE w == job[c].workflow
           row == rows[w]
<1>1. rows \in [Workflows -> Row]
  BY DEF StoreTypeOK, Row
<1>2. job[c].op # "none" => w \in Workflows /\ row \in Row /\ job[c] \in Request
  BY <1>1, JobShape DEF Request
<1>updated. job[c].op = "update" =>
        [row EXCEPT !.version = job[c].version]
          = [version |-> job[c].version, active |-> row = Absent \/ row.active]
  <2> SUFFICES ASSUME job[c].op = "update"
               PROVE  [row EXCEPT !.version = job[c].version]
                        = [version |-> job[c].version, active |-> row = Absent \/ row.active]
    OBVIOUS
  <2>1. row \in Row /\ row # Absent
    BY <1>2 DEF RowsStay, Absent, Store!Absent
  <2>2. (row = Absent \/ row.active) = row.active
    BY <2>1 DEF Row
  <2>3. [row EXCEPT !.version = job[c].version] = [version |-> job[c].version, active |-> row.active]
    BY <2>1 DEF Row
  <2> QED
    BY <2>2, <2>3
<1>3. CASE Calls(c)
  <2>1. PICK op \in Ops, v \in Workflows, n \in Versions :
            job' = [job EXCEPT ![c] = Store!Calling(op, v, n)]
    BY <1>3 DEF Calls
  <2> DEFINE r == Store!Calling(op, v, n)
  <2>2. r.op \notin {"update", "insert"} /\ r = Promised!Calling(op, v, n)
    BY DEF Store!Calling, Promised!Calling, Ops
  <2> HIDE DEF r
  <2>3. Called' = [Called EXCEPT ![c] = r]
    BY <2>1, <2>2, CalledFollows DEF r
  <2>4. Called[c].op = "none"
    BY <1>3, JobShape DEF Calls, Called, Calling
  <2> QED
    BY <1>3, <2>2, <2>3, <2>4 DEF Calls, Promised!Call, Promised!Next, Ops
<1>4. CASE LooksUp(c)
  <2>1. PICK op \in {"insert", "update"} : job' = [job EXCEPT ![c].op = op]
    BY <1>4 DEF LooksUp
  <2>2. job \in [Clients -> Answer \cup Request]
    BY DEF StoreTypeOK, Answer, Request
  <2>3. Calling(c)' = Calling(c)
    <3>1. job[c] = [op |-> "save", workflow |-> w, version |-> job[c].version]
      BY <1>2, <1>4 DEF LooksUp, Request
    <3>2. job'[c] = [op |-> op, workflow |-> w, version |-> job[c].version]
      BY <2>1, <2>2, <3>1
    <3> QED
      BY <3>1, <3>2 DEF Calling
  <2>4. \A d \in Clients \ {c} : Calling(d)' = Calling(d)
    BY <2>1, <2>2 DEF Calling
  <2> QED
    BY <1>4, <2>3, <2>4 DEF LooksUp, Called
<1>5. CASE Updates(c)
  <2>1. rows' = [rows EXCEPT ![w] = [row EXCEPT !.version = job[c].version]]
    BY <1>5 DEF Updates, Writes
  <2>2. rows' = [rows EXCEPT ![w] = Promised!Effect(Called[c], row)]
    BY <1>updated, <1>5, <2>1, Effects DEF Updates
  <2> QED
    BY <1>5, <2>2, EndsAsPromised DEF Updates
<1>6. CASE Inserts(c)
  BY <1>6, Effects, EndsAsPromised DEF Inserts, Writes
<1>7. CASE LoadWorkflow(c)
  <2>1. rows = [rows EXCEPT ![w] = row]
    BY <1>1
  <2>2. (IF w \in Loadable THEN row.version ELSE 0) = Promised!Loaded(row)
    BY <1>2, <1>7 DEF LoadWorkflow, Loadable, Promised!Loaded
  <2>3. Promised!Loaded(row) \in Versions \cup {0}
    BY <1>2, <1>7 DEF LoadWorkflow, Promised!Loaded, Row
  <2> QED
    BY <1>7, <2>1, <2>2, <2>3, Effects, EndsAsPromised DEF LoadWorkflow
<1>8. CASE DeleteWorkflow(c)
  BY <1>8, Effects, EndsAsPromised DEF DeleteWorkflow, Writes
<1>9. CASE DatabaseFails(c)
  <2>1. [rows EXCEPT ![w].version = job[c].version]
           = [rows EXCEPT ![w] = [row EXCEPT !.version = job[c].version]]
    BY <1>1
  <2>2. [rows EXCEPT ![w].active = FALSE] = [rows EXCEPT ![w] = [row EXCEPT !.active = FALSE]]
    BY <1>1
  <2>3. rows' \in {rows, [rows EXCEPT ![w] = Promised!Effect(Called[c], row)]}
    BY <1>updated, <1>9, <2>1, <2>2, Effects DEF DatabaseFails
  <2> QED
    BY <1>9, <2>3, EndsAsPromised DEF DatabaseFails
<1>10. CASE Raises(c)
  BY <1>10, EndsAsPromised DEF Raises
<1> QED
  BY <1>3, <1>4, <1>5, <1>6, <1>7, <1>8, <1>9, <1>10

(* An UPDATE of one column.                                                  *)
LEMMA RowChanged ==
    ASSUME NEW row \in Row, NEW x
    PROVE  /\ [row EXCEPT !.version = x] = [version |-> x, active |-> row.active]
           /\ [row EXCEPT !.active = x] = [version |-> row.version, active |-> x]
BY DEF Row

(* The invariant that this rests on.                                         *)
LEMMA InitStoreInv == StoreInit => StoreInv
BY DEF StoreInit, StoreInv, StoreTypeOK, RowsStay, Absent, Store!Absent, Store!Answered

(* Every end of a call whose effect keeps the rows of others in place.       *)
LEMMA EndKeepsStoreInv ==
    ASSUME StoreInv, NEW c \in Clients, job[c].op # "none",
           NEW kind \in {"done", "raised"}, NEW version \in Versions \cup {0},
           Answers(c, kind, version), NEW row \in Row,
           \/ row.version # 0
           \/ ~row.active /\ row.version = rows[job[c].workflow].version,
           rows' \in {rows, [rows EXCEPT ![job[c].workflow] = row]}
    PROVE  StoreInv'
<1> USE DEF StoreInv
<1>1. job \in [Clients -> Answer \cup Request] /\ rows \in [Workflows -> Row]
  BY DEF StoreTypeOK, Answer, Request, Row
<1>2. Store!Answered(kind, version) \in Answer
  BY DEF Store!Answered, Answer
<1>3. /\ job' \in [Clients -> Answer \cup Request]
      /\ job'[c].op = "none"
      /\ \A d \in Clients \ {c} : job'[d] = job[d]
  BY <1>1, <1>2 DEF Answers, Answer
<1>4. /\ rows' \in [Workflows -> Row]
      /\ \A w \in Workflows : rows[w].version # 0 => rows'[w].version # 0
      /\ \A w \in Workflows : rows'[w].active => rows'[w].version # 0
  BY <1>1 DEF RowsStay
<1>5. StoreTypeOK'
  BY <1>3, <1>4 DEF StoreTypeOK, Answer, Request, Row
<1>6. ASSUME NEW d \in Clients, job'[d].op = "update"
      PROVE  rows'[job'[d].workflow].version # 0
  <2>1. d # c /\ job[d] = job'[d]
    BY <1>3, <1>6
  <2>2. job[d].workflow \in Workflows /\ rows[job[d].workflow].version # 0
    BY <1>6, <2>1, JobShape DEF RowsStay, Request
  <2> QED
    BY <1>4, <2>1, <2>2
<1> QED
  BY <1>4, <1>5, <1>6 DEF RowsStay

LEMMA NextStoreInv ==
    ASSUME 0 \notin Versions
    PROVE  StoreInv /\ [StoreNext \/ StoreRestarts]_storeVars => StoreInv'
<1> SUFFICES ASSUME StoreInv, [StoreNext \/ StoreRestarts]_storeVars PROVE StoreInv'
  OBVIOUS
<1> USE DEF StoreInv
<1>1. rows \in [Workflows -> Row]
  BY DEF StoreTypeOK, Row
<1>2. ASSUME NEW c \in Clients, job[c].op # "none"
      PROVE  /\ job[c].workflow \in Workflows /\ rows[job[c].workflow] \in Row
             /\ job[c].version \in Versions /\ job[c] \in Request
  BY <1>1, <1>2, JobShape DEF Request
<1>3. ASSUME NEW c \in Clients, Calls(c) PROVE StoreInv'
  <2>1. PICK op \in Ops, w \in Workflows, v \in Versions :
            job' = [job EXCEPT ![c] = Store!Calling(op, w, v)]
    BY <1>3 DEF Calls
  <2>2. Store!Calling(op, w, v) \in Request /\ Store!Calling(op, w, v).op # "update"
    BY DEF Store!Calling, Request, Ops
  <2> QED
    BY <1>3, <2>1, <2>2 DEF Calls, StoreTypeOK, RowsStay, Request
<1>4. ASSUME NEW c \in Clients, LooksUp(c) PROVE StoreInv'
  <2>1. job' = [job EXCEPT ![c].op = IF rows[job[c].workflow] = Absent
                                      THEN "insert" ELSE "update"]
        /\ UNCHANGED rows
    BY <1>4 DEF LooksUp
  <2>2. /\ job[c].workflow \in Workflows /\ job[c] \in Request
        /\ rows[job[c].workflow] \in Row
    BY <1>2, <1>4 DEF LooksUp
  <2>3. rows[job[c].workflow].version = 0 => rows[job[c].workflow] = Absent
    BY <2>2 DEF RowsStay, Row, Absent, Store!Absent
  <2>4. /\ job'[c] = [job[c] EXCEPT !.op = job'[c].op]
        /\ job'[c].op \in {"insert", "update"}
        /\ job'[c].op = "update" => rows[job[c].workflow].version # 0
        /\ \A d \in Clients \ {c} : job'[d] = job[d]
        /\ DOMAIN job' = Clients
    <3>1. DOMAIN job = Clients /\ job[c].op \in Ops \cup {"update", "insert"}
      BY <2>2 DEF StoreTypeOK, Request
    <3> QED
      BY <2>1, <2>2, <2>3, <3>1 DEF Request, Absent, Store!Absent
  <2>5. job'[c] \in Request /\ job'[c].workflow = job[c].workflow
    BY <2>2, <2>4 DEF Request
  <2> QED
    BY <2>1, <2>4, <2>5 DEF StoreTypeOK, RowsStay, Request
<1>5. ASSUME NEW c \in Clients,
             Updates(c) \/ Inserts(c) \/ DeleteWorkflow(c) \/ DatabaseFails(c)
      PROVE  StoreInv'
  <2> DEFINE w     == job[c].workflow
             saved == [rows[w] EXCEPT !.version = job[c].version]
             new   == [version |-> job[c].version, active |-> TRUE]
             gone  == [rows[w] EXCEPT !.active = FALSE]
  <2>1. job[c].op # "none"
    BY <1>5 DEF Updates, Inserts, DeleteWorkflow, DatabaseFails
  <2>rows. /\ rows[w] \in Row /\ w \in Workflows
        /\ job[c].version \in Versions /\ job[c].version # 0
    BY <1>2, <2>1
  <2>2. /\ saved \in Row /\ new \in Row /\ gone \in Row /\ ~gone.active
        /\ saved.version # 0 /\ new.version # 0 /\ gone.version = rows[w].version
    <3>1. /\ saved = [version |-> job[c].version, active |-> rows[w].active]
          /\ gone = [version |-> rows[w].version, active |-> FALSE]
      BY <2>rows, RowChanged
    <3> QED
      BY <2>rows, <3>1 DEF Row
  <2>3. \E row \in {saved, new, gone} : rows' \in {rows, [rows EXCEPT ![w] = row]}
    <3>1. /\ [rows EXCEPT ![w].version = job[c].version] = [rows EXCEPT ![w] = saved]
          /\ [rows EXCEPT ![w].active = FALSE] = [rows EXCEPT ![w] = gone]
      BY <1>1
    <3> QED
      BY <1>5, <3>1 DEF Updates, Inserts, DeleteWorkflow, DatabaseFails, Writes
  <2>4. Answers(c, "done", 0) \/ Answers(c, "raised", 0)
    BY <1>5 DEF Updates, Inserts, DeleteWorkflow, DatabaseFails
  <2> HIDE DEF saved, new, gone
  <2> QED
    BY <2>1, <2>2, <2>3, <2>4, EndKeepsStoreInv
<1>6. ASSUME NEW c \in Clients, LoadWorkflow(c) \/ Raises(c) PROVE StoreInv'
  <2>1. job[c].op # "none"
    BY <1>6 DEF LoadWorkflow, Raises
  <2>2. /\ rows[job[c].workflow] \in Row
        /\ rows[job[c].workflow].version \in Versions \cup {0}
    BY <1>2, <2>1 DEF Row
  <2>3. \E kind \in {"done", "raised"}, version \in Versions \cup {0} :
            Answers(c, kind, version)
    BY <1>6, <2>2 DEF LoadWorkflow, Raises
  <2>4. UNCHANGED rows
    BY <1>6 DEF LoadWorkflow, Raises
  <2>5. \E row \in Row : ~row.active /\ row.version = rows[job[c].workflow].version
    <3>1. [version |-> rows[job[c].workflow].version, active |-> FALSE] \in Row
      BY <2>2 DEF Row
    <3> QED
      BY <3>1
  <2> QED
    BY <2>1, <2>3, <2>4, <2>5, EndKeepsStoreInv
<1>7. CASE StoreRestarts
  BY <1>7 DEF StoreRestarts, StoreTypeOK, RowsStay, Store!Answered
<1>8. CASE UNCHANGED storeVars
  BY <1>8 DEF storeVars, StoreTypeOK, RowsStay
<1> QED
  BY <1>3, <1>4, <1>5, <1>6, <1>7, <1>8
  DEF StoreNext, SaveExecution, CleanupOldExecutions

(* However many clients save, load and delete at the same time, with failures *)
(* and restarts, they find WorkflowStore, if a definition has a version.     *)
THEOREM StoreIsAtomic ==
    ASSUME 0 \notin Versions
    PROVE  StoreSpec => StoreKeepsPromise
<1>1. StoreInit => Promised!Init
  BY DEF StoreInit, Promised!Init, Called, Calling, Store!Answered, Promised!Answered,
         Absent, Store!Absent, Promised!Absent
<1>2. StoreInv /\ [StoreNext \/ StoreRestarts]_storeVars
        => [Promised!Next]_<<rows, Called>>
  <2> SUFFICES ASSUME StoreInv, StoreNext \/ StoreRestarts \/ UNCHANGED storeVars
               PROVE  Promised!Next \/ UNCHANGED <<rows, Called>>
    OBVIOUS
  <2>1. CASE StoreNext
    BY <2>1, StepKeepsPromise DEF StoreNext, SaveExecution, CleanupOldExecutions
  <2>2. CASE StoreRestarts
    <3>1. Called' = [c \in Clients |-> Promised!Answered("none", 0)]
      BY <2>2 DEF StoreRestarts, Called, Calling, Store!Answered, Promised!Answered
    <3> QED
      BY <2>2, <3>1 DEF StoreRestarts, Promised!Restart, Promised!Next
  <2>3. CASE UNCHANGED storeVars
    BY <2>3 DEF storeVars, Called, Calling
  <2> QED
    BY <2>1, <2>2, <2>3
<1> QED
  BY <1>1, <1>2, InitStoreInv, NextStoreInv, PTL
  DEF StoreSpec, StoreKeepsPromise, Promised!Spec
=============================================================================
