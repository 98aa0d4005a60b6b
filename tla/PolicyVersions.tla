---------------------------- MODULE PolicyVersions ----------------------------
(***************************************************************************)
(* The versions of policies (security/policies.py).  The engine keeps the  *)
(* history of each policy and which entry of it is active.  With OPA, each *)
(* change is followed by an upload of all the active policies, a request   *)
(* for each, one after the other: changes and requests of other callers    *)
(* come in between, and what an upload meets it logs and forgets.          *)
(***************************************************************************)
EXTENDS Sequences, FiniteSets, Naturals, SequencesExt

CONSTANTS Policies,     \* names of policies
          Predefined,   \* a sequence: those that initialize() loads
          Callers,      \* who manages policies
          MaxVersions,  \* bound: entries of one history
          MaxUploads    \* bound: uploads

VARIABLES initialized,
          history,     \* policy_versions: a sequence of [version, deprecated] a name
          active,      \* active_policies: an entry of the history, 0 if none
          listed,      \* the keys of active_policies, in their order
          uploading,   \* what each caller's upload is at
          opa,         \* the server: the version it serves, 0 if none
          uploads,     \* uploads that have begun
          overlapped,  \* two uploads have run at once
          failed       \* a request has failed, or the start has

vars == <<initialized, history, active, listed, uploading, opa, uploads, overlapped, failed>>

(* "request" is on its way with the version that was active when it was sent; *)
(* "size" is what the iteration over active_policies began with.           *)
Upload == [pc : {"none", "health", "request", "answered"}, at : Nat,
           version : 0..(1 + MaxVersions), size : Nat, starts : BOOLEAN]
Nothing == [pc |-> "none", at |-> 0, version |-> 0, size |-> 0, starts |-> FALSE]

Init ==
  /\ initialized = FALSE
  /\ history = [n \in Policies |-> <<>>]
  /\ active = [n \in Policies |-> 0]
  /\ listed = <<>>
  /\ uploading = [c \in Callers |-> Nothing]
  /\ opa = [n \in Policies |-> 0]
  /\ uploads = 0 /\ overlapped = FALSE /\ failed = FALSE

Idle(c) == uploading[c].pc = "none"
Uploads(c) == uploading[c].pc \in {"request", "answered"}
Quiet == \A c \in Callers : Idle(c)

(* Predefined versions are all called "1.0.0", here 0; others get a name of *)
(* their own, here the length of the history they extend.                  *)
Version == [version : 0..MaxVersions, deprecated : BOOLEAN]
Entry(version) == [version |-> version, deprecated |-> FALSE]
VersionAt(past, i) == 1 + past[i].version
VersionOf(n) == VersionAt(history[n], active[n])

WithKey(keys, n) == IF n \in ToSet(keys) THEN keys ELSE Append(keys, n)

(* The places of predefined policies that are not listed yet.              *)
Fresh == {i \in DOMAIN Predefined : Predefined[i] \notin ToSet(listed)}

(* Their keys follow in the order in which they are loaded.                *)
ListPredefined ==
  \E order \in [1..Cardinality(Fresh) -> Fresh] :
    /\ \A i, j \in DOMAIN order : i < j => order[i] < order[j]
    /\ ToSet(order) = Fresh
    /\ listed' = listed \o [i \in DOMAIN order |-> Predefined[order[i]]]
-----------------------------------------------------------------------------
(* The first request of an upload, with the dictionaries as they now are.  *)
UploadBegins(c, starts) ==
  /\ uploads < MaxUploads
  /\ uploading' = [uploading EXCEPT ![c] =
       [pc |-> "request", at |-> 1, size |-> Len(listed'), starts |-> starts,
        version |-> VersionAt(history'[listed'[1]], active'[listed'[1]])]]
  /\ uploads' = uploads + 1
  /\ overlapped' = (overlapped \/ \E d \in Callers \ {c} : Uploads(d))

(* create_policy: the version before it, if any, is not deprecated.        *)
CreatePolicy(c, n) ==
  /\ Idle(c) /\ Len(history[n]) < MaxVersions
  /\ history' = [history EXCEPT ![n] = Append(@, Entry(Len(@) + 1))]
  /\ active' = [active EXCEPT ![n] = Len(history'[n])]
  /\ listed' = WithKey(listed, n)
  /\ UploadBegins(c, FALSE)
  /\ UNCHANGED <<initialized, opa, failed>>

Deprecated(past) == [past EXCEPT ![Len(past)].deprecated = TRUE]

UpdatePolicy(c, n) ==
  /\ Idle(c) /\ history[n] # <<>> /\ Len(history[n]) < MaxVersions
  /\ history' = [history EXCEPT ![n] = Append(Deprecated(@), Entry(Len(@) + 1))]
  /\ active' = [active EXCEPT ![n] = Len(history'[n])]
  /\ UNCHANGED listed
  /\ UploadBegins(c, FALSE)
  /\ UNCHANGED <<initialized, opa, failed>>

(* activate_policy_version: the first entry with the version; it may be a  *)
(* deprecated one.                                                         *)
ActivatePolicyVersion(c, n) ==
  /\ Idle(c)
  /\ \E i \in DOMAIN history[n] :
       /\ \A j \in 1..(i - 1) : history[n][j].version # history[n][i].version
       /\ active' = [active EXCEPT ![n] = i]
  /\ UNCHANGED <<history, listed>>
  /\ UploadBegins(c, FALSE)
  /\ UNCHANGED <<initialized, opa, failed>>

(* initialize: the predefined policies are appended, whatever is there;    *)
(* then the server's health is asked for.                                  *)
Initialize(c) ==
  /\ ~initialized /\ Idle(c)
  /\ \A n \in ToSet(Predefined) : Len(history[n]) < MaxVersions
  /\ history' = [n \in Policies |->
       IF n \in ToSet(Predefined) THEN Append(history[n], Entry(0)) ELSE history[n]]
  /\ active' = [n \in Policies |->
       IF n \in ToSet(Predefined) THEN Len(history'[n]) ELSE active[n]]
  /\ ListPredefined
  /\ uploading' = [uploading EXCEPT ![c] = [Nothing EXCEPT !.pc = "health"]]
  /\ UNCHANGED <<initialized, opa, uploads, overlapped, failed>>

(* The server does not answer, or is not well: initialize raises.          *)
HealthFails(c) ==
  /\ uploading[c].pc = "health"
  /\ uploading' = [uploading EXCEPT ![c] = Nothing]
  /\ failed' = TRUE
  /\ UNCHANGED <<initialized, history, active, listed, opa, uploads, overlapped>>

HealthAnswers(c) ==
  /\ uploading[c].pc = "health"
  /\ UNCHANGED <<history, active, listed>>
  /\ UploadBegins(c, TRUE)
  /\ UNCHANGED <<initialized, opa, failed>>
-----------------------------------------------------------------------------
(* The server handles the request: it stores the policy, or refuses it.    *)
ServerStores(c) ==
  /\ uploading[c].pc = "request"
  /\ uploading' = [uploading EXCEPT ![c].pc = "answered"]
  /\ \/ opa' = [opa EXCEPT ![listed[uploading[c].at]] = uploading[c].version] /\ UNCHANGED failed
     \/ UNCHANGED opa /\ failed' = TRUE
  /\ UNCHANGED <<initialized, history, active, listed, uploads, overlapped>>

(* What follows the loop: initialize is done, whatever the loop met.       *)
LoopEnds(c) ==
  /\ uploading' = [uploading EXCEPT ![c] = Nothing]
  /\ initialized' = (initialized \/ uploading[c].starts)
  /\ UNCHANGED <<history, active, listed, opa, uploads, overlapped>>

(* The next policy of the loop, or its end; a dictionary that has grown    *)
(* stops the iteration.                                                    *)
NextRequest(c) ==
  /\ uploading[c].pc = "answered"
  /\ uploading[c].size = Len(listed) /\ uploading[c].at < Len(listed)
  /\ LET next == uploading[c].at + 1 IN
     uploading' = [uploading EXCEPT ![c] =
       [@ EXCEPT !.pc = "request", !.at = next, !.version = VersionOf(listed[next])]]
  /\ UNCHANGED <<initialized, history, active, listed, opa, uploads, overlapped, failed>>

UploadEnds(c) ==
  /\ uploading[c].pc = "answered"
  /\ uploading[c].size # Len(listed) \/ uploading[c].at = Len(listed)
  /\ LoopEnds(c)
  /\ UNCHANGED failed

(* The request raises: the rest is not uploaded.  It may have arrived.     *)
RequestRaises(c) ==
  /\ Uploads(c)
  /\ LoopEnds(c)
  /\ failed' = TRUE

(* get_policy_versions, which is always possible.                          *)
GetPolicyVersions == UNCHANGED vars

Next ==
  \/ GetPolicyVersions
  \/ \E c \in Callers :
       \/ \E n \in Policies : CreatePolicy(c, n) \/ UpdatePolicy(c, n) \/ ActivatePolicyVersion(c, n)
       \/ Initialize(c)
       \/ HealthFails(c)
       \/ HealthAnswers(c)
       \/ ServerStores(c)
       \/ NextRequest(c)
       \/ UploadEnds(c)
       \/ RequestRaises(c)

Spec == Init /\ [][Next]_vars
-----------------------------------------------------------------------------
TypeOK ==
  /\ initialized \in BOOLEAN /\ overlapped \in BOOLEAN /\ failed \in BOOLEAN
  /\ history \in [Policies -> Seq(Version)] /\ active \in [Policies -> 0..MaxVersions]
  /\ \A n \in Policies : Len(history[n]) <= MaxVersions /\ active[n] <= Len(history[n])
  /\ listed \in Seq(Policies) /\ \A n \in Policies : n \in ToSet(listed) <=> active[n] # 0
  /\ opa \in [Policies -> 0..(1 + MaxVersions)]
  /\ uploads \in 0..MaxUploads /\ uploading \in [Callers -> Upload]

(* Once no upload is going on, none overlapped another and none failed,    *)
(* the server serves the active version of every policy: what it answers   *)
(* is what the engine says is in force.                                    *)
ServedIsActive ==
  Quiet /\ ~overlapped /\ ~failed => \A n \in ToSet(listed) : opa[n] = VersionOf(n)

(* The latest version of a policy is not deprecated, whatever was created, *)
(* updated, activated or loaded twice before.                              *)
LatestIsCurrent ==
  \A n \in Policies : history[n] # <<>> => ~Last(history[n]).deprecated

(* The server has no policy the engine has never had active.               *)
ServedIsKnown ==
  \A n \in Policies : opa[n] # 0 => \E i \in DOMAIN history[n] : opa[n] = 1 + history[n][i].version

PoliciesAreSound == ServedIsActive /\ LatestIsCurrent /\ ServedIsKnown
=============================================================================
