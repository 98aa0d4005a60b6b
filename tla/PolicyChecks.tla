----------------------------- MODULE PolicyChecks -----------------------------
(***************************************************************************)
(* What the policy engine lets through (security/policies.py): the lists   *)
(* of addresses, the limit of requests in a minute, the quota, and the     *)
(* rules, its own or those of an OPA server, which it waits for.           *)
(***************************************************************************)
EXTENDS Naturals

CONSTANTS Addresses,   \* addresses of clients
          Checkers,    \* checks of access, each made once
          Limits,      \* limits that callers pass along
          Minute,      \* the length of a window
          MaxTime      \* bound: the time

VARIABLES engine,      \* "internal" or "opa"
          whitelist, blacklist,
          counter,     \* rate_limit_cache of a key: [count, start]
          counted,     \* how many checks were counted before each time
          check,       \* what became of each check
          now

vars == <<engine, whitelist, blacklist, counter, counted, check, now>>

Times == 0..(MaxTime + 1)

Roles == {"admin", "user", "anonymous"}
Resources == {"tool:*", "tool:public", "tool:other"}
Actions == {"read", "execute", "write"}

(* fallback_rules; "*" alone is a wildcard, "tool:*" is only itself.       *)
Rules ==
  [admin     |-> [resources |-> Resources, actions |-> Actions],
   user      |-> [resources |-> {"tool:*"}, actions |-> {"read", "execute"}],
   anonymous |-> [resources |-> {"tool:public"}, actions |-> {"read"}]]

InternalAllows(role, resource, action) ==
  resource \in Rules[role].resources /\ action \in Rules[role].actions

Init ==
  /\ engine \in {"internal", "opa"}
  /\ whitelist = {} /\ blacklist = {}
  /\ counter = [count |-> 0, start |-> MaxTime + 1]
  /\ counted = [t \in Times |-> 0]
  /\ check = [k \in Checkers |-> [is |-> "new", barred |-> FALSE]]
  /\ now = 0

Tick == now < MaxTime /\ now' = now + 1 /\ UNCHANGED <<engine, whitelist, blacklist, counter, counted, check>>

(* add_ip_to_whitelist, remove_ip_from_whitelist, and of the blacklist.    *)
ListsChange ==
  /\ \E a \in Addresses :
       \/ whitelist' \in {whitelist \cup {a}, whitelist \ {a}} /\ UNCHANGED blacklist
       \/ blacklist' \in {blacklist \cup {a}, blacklist \ {a}} /\ UNCHANGED whitelist
  /\ UNCHANGED <<engine, counter, counted, check, now>>

(* A whitelist with nothing in it keeps nobody out.                        *)
CheckIpAccess(a) == a \notin blacklist /\ (whitelist = {} \/ a \in whitelist)

(* The window, from the first request of it for a minute; as long as the   *)
(* key has no entry, the window is still to begin.                         *)
Current ==
  IF counter.start > now \/ counter.start + Minute < now THEN [count |-> 0, start |-> now] ELSE counter

(* _check_rate_limit; the limit is the caller's own.  What is counted      *)
(* stays counted when the check fails later.                               *)
Counted ==
  /\ counter' = [Current EXCEPT !.count = @ + 1]
  /\ counted' = [t \in Times |-> counted[t] + IF t > now THEN 1 ELSE 0]

(* A caller without a key is not counted.                                  *)
Passes(limit) ==
  \/ Current.count < limit /\ Counted
  \/ UNCHANGED <<counter, counted>>

Decided(k, verdict) == check' = [check EXCEPT ![k].is = verdict]

(* check_access up to the rules: what comes first refuses first.           *)
Refused(k, a) ==
  /\ check[k].is = "new" /\ ~CheckIpAccess(a)
  /\ check' = [check EXCEPT ![k] = [is |-> "denied", barred |-> a \in blacklist]]
  /\ UNCHANGED <<engine, whitelist, blacklist, counter, counted, now>>

OverLimit(k, a, limit) ==
  /\ check[k].is = "new" /\ CheckIpAccess(a) /\ Current.count >= limit
  /\ counter' = Current /\ UNCHANGED counted
  /\ Decided(k, "denied")
  /\ UNCHANGED <<engine, whitelist, blacklist, now>>

OverQuota(k, a, limit) ==
  /\ check[k].is = "new" /\ CheckIpAccess(a)
  /\ Passes(limit)
  /\ Decided(k, "denied")
  /\ UNCHANGED <<engine, whitelist, blacklist, now>>

(* The rules of the engine decide at once; those of the server are asked.  *)
CheckAccess(k, a, limit) ==
  /\ check[k].is = "new" /\ CheckIpAccess(a)
  /\ Passes(limit)
  /\ \/ engine = "opa" /\ check' = [check EXCEPT ![k] = [is |-> "asking", barred |-> a \in blacklist]]
     \/ engine = "internal" /\ \E role \in Roles, resource \in Resources, action \in Actions :
          check' = [check EXCEPT ![k] =
            [is |-> IF InternalAllows(role, resource, action) THEN "granted" ELSE "denied",
             barred |-> a \in blacklist]]
  /\ UNCHANGED <<engine, whitelist, blacklist, now>>

(* The server's answer; an error of any kind is a refusal.                 *)
ServerAnswers(k) ==
  /\ check[k].is = "asking"
  /\ \E verdict \in {"granted", "denied"} : Decided(k, verdict)
  /\ UNCHANGED <<engine, whitelist, blacklist, counter, counted, now>>

Next ==
  \/ Tick
  \/ ListsChange
  \/ \E k \in Checkers :
       \/ \E a \in Addresses :
            \/ Refused(k, a)
            \/ \E limit \in Limits :
                 OverLimit(k, a, limit) \/ OverQuota(k, a, limit) \/ CheckAccess(k, a, limit)
       \/ ServerAnswers(k)

Spec == Init /\ [][Next]_vars
-----------------------------------------------------------------------------
TypeOK ==
  /\ engine \in {"internal", "opa"}
  /\ whitelist \subseteq Addresses /\ blacklist \subseteq Addresses
  /\ counter \in [count : Nat, start : Times]
  /\ \E limit \in Limits : counter.count <= limit
  /\ check \in [Checkers -> [is : {"new", "asking", "granted", "denied"}, barred : BOOLEAN]]
  /\ now \in 0..MaxTime

(* In no minute are more checks counted than twice the limit: windows are  *)
(* fixed, and a minute meets two of them at most.                          *)
MinuteIsBounded ==
  \A a, b \in Times : a <= b /\ b <= a + Minute + 1 =>
    \E limit \in Limits : counted[b] - counted[a] <= 2 * limit

(* An address of the blacklist is not let in, though it be whitelisted too. *)
BarredStaysOut == \A k \in Checkers : check[k].barred => check[k].is \in {"new", "denied"}

ChecksAreSound == MinuteIsBounded /\ BarredStaysOut
=============================================================================
