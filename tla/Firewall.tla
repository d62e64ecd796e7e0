------------------------------ MODULE Firewall ------------------------------
(***************************************************************************)
(* The firewall manager of a process (internal/firewall): the plans of its *)
(* running nodes, the reconcile that brings the host's rules in line with  *)
(* them one command at a time, and the ownership record on disk by which   *)
(* the next process reclaims what this one leaves behind.                  *)
(*                                                                         *)
(* The host is either under UFW, which labels each rule with a comment, or *)
(* under firewalld, whose rules carry no label: the label "mine" is then   *)
(* kept for the properties only and no guard reads it.                     *)
(***************************************************************************)
EXTENDS FirewallPlan

CONSTANTS Owners,        \* the nodes of the process
          Wishes,        \* the plans a node may ask for
          SaveOutcomes,  \* how writing the record may end: subset of {"ok", "fail", "unsynced"}
          EditedRules,   \* bound: the rules an administrator adds or deletes
          Budgets        \* bound: how many calls (Apply, Release, Close) and how many
                         \* troubles (failures, crashes, edits by hand) a behaviour has
ASSUME FirewallConstants == MaxPort \in Nat /\ Wishes \subseteq Plans \cup {ErrorPlan}

VARIABLES
  plans,     \* Manager.plans
  lastErr,   \* Manager.lastErr # nil
  owned,     \* systemBackend.state.Owned
  redirect,  \* systemBackend.state.Redirect # ""
  disk,      \* the record on disk: [owned, redirect]
  job,       \* the call that holds Manager.mu, and (history) whether the host was
             \* touched by others during it
  step,      \* where that call is in systemBackend.Apply
  seen,      \* the host's rules as that call read them
  todo,      \* rules it still has to ensure, or to remove
  current,   \* the rule it is at
  backend,   \* the host's firewall: "ufw" or "firewalld"
  active,    \* whether that firewall runs
  host,      \* its rules: rule -> "mine", "late", "admin" or "deny"
  table,     \* the redirect table of this instance
  pending,   \* firewalld changes whose command timed out: {[rule, add]}
  acked,     \* history: nodes whose ports were opened and not touched since
  budget     \* remaining calls and troubles

managerVars == <<plans, lastErr>>
recordVars == <<owned, redirect, disk>>
callVars == <<job, step, seen, todo, current>>
hostVars == <<backend, active, host, table, pending>>
vars == <<managerVars, recordVars, callVars, hostVars, acked, budget>>

\* What the nodes of the process may have asked for, and the rules of each.
PlanSets == UNION {[running -> Wishes] : running \in SUBSET Owners}
AllowsFor == [ps \in PlanSets |-> Allows(ps)]
RedirectsFor == [ps \in PlanSets |-> Redirects(ps)]

NoJob == [kind |-> "none", owner |-> "", touched |-> FALSE]
NoRule == [family |-> 0]
Empty == [r \in {} |-> ""]
Drop(f, r) == [s \in DOMAIN f \ {r} |-> f[s]]
Put(f, r, v) == [s \in DOMAIN f \cup {r} |-> IF s = r THEN v ELSE f[s]]

Spend(what) ==
  /\ budget[what] > 0
  /\ budget' = [budget EXCEPT ![what] = @ - 1]

Init ==
  /\ plans = Empty /\ lastErr = FALSE
  /\ owned = {} /\ redirect = FALSE /\ disk = [owned |-> {}, redirect |-> FALSE]
  /\ job = NoJob /\ step = "down" /\ seen = Empty /\ todo = {} /\ current = NoRule
  /\ backend \in {"ufw", "firewalld"} /\ active = TRUE
  /\ host = Empty /\ table = {} /\ pending = {}
  /\ acked = {}
  /\ budget \in Budgets

(***************************************************************************)
(* Calls.  Each holds the manager's mutex until its reconcile is over.     *)
(***************************************************************************)

Begin(kind, owner, open) ==
  /\ job' = [kind |-> kind, owner |-> owner, touched |-> FALSE]
  /\ step' = "scan" /\ acked' = open
  /\ UNCHANGED <<seen, todo, current, hostVars>>

ReadRecord == owned' = disk.owned /\ redirect' = disk.redirect

\* New: a process reads the record and first reclaims what the last one left.
Boot ==
  /\ step = "down"
  /\ plans' = Empty /\ lastErr' = FALSE
  /\ ReadRecord
  /\ Begin("boot", "", {})
  /\ UNCHANGED <<disk, budget>>

\* A node asks for a plan: one in conflict with another node's is refused
\* and changes nothing.
Apply(o, plan) ==
  LET candidate == Put(plans, o, plan) IN
  /\ step = "idle" /\ Spend("calls")
  /\ plan # ErrorPlan /\ ~Conflicting(candidate)
  /\ plans' = candidate
  /\ Begin("apply", o, acked \ {o})
  /\ UNCHANGED <<lastErr, recordVars>>

\* A node has stopped listening.
Release(o) ==
  /\ step = "idle" /\ Spend("calls")
  /\ o \in DOMAIN plans \/ lastErr
  /\ plans' = Drop(plans, o)
  /\ Begin("release", o, acked \ {o})
  /\ UNCHANGED <<lastErr, recordVars>>

\* Mutant: only to make a failure good.
TickAfterFailure ==
  /\ step = "idle" /\ lastErr
  /\ Begin("tick", "", acked)
  /\ UNCHANGED <<managerVars, recordVars, budget>>

\* Every 30 seconds.
Tick ==
  /\ step = "idle"
  /\ Begin("tick", "", acked)
  /\ UNCHANGED <<managerVars, recordVars, budget>>

\* Shutdown of the process, or of its configuration before a reload.
Close ==
  /\ step = "idle" /\ Spend("calls")
  /\ plans' = Empty
  /\ Begin("close", "", {})
  /\ UNCHANGED <<lastErr, recordVars>>

Clear == seen' = Empty /\ todo' = {} /\ current' = NoRule

\* The call returns.  A failed boot ends the process, and so does Close.
Return(ok) ==
  /\ step' = IF job.kind = "close" \/ (job.kind = "boot" /\ ~ok) THEN "down" ELSE "idle"
  /\ job' = NoJob /\ Clear
  /\ lastErr' = ~ok
  /\ acked' = IF ok /\ ~job.touched THEN DOMAIN plans ELSE acked
  /\ UNCHANGED plans

\* The call goes on with another step.
Proceed(next, rest) ==
  /\ step' = next /\ todo' = rest
  /\ UNCHANGED <<managerVars, job, acked>>

\* A command fails.
Fault == Spend("troubles") /\ Return(FALSE) /\ UNCHANGED recordVars

(***************************************************************************)
(* The record.  A save that fails leaves the old file, or, when only the   *)
(* directory could not be synced, the new one; what is owned is rolled     *)
(* back in memory, the redirect driver is not.                             *)
(***************************************************************************)

Save(newOwned, newRedirect, next, rest) ==
  LET written == [owned |-> newOwned, redirect |-> newRedirect] IN
  /\ redirect' = newRedirect
  /\ \/ /\ owned' = newOwned /\ disk' = written
        /\ Proceed(next, rest) /\ UNCHANGED <<seen, current, budget>>
     \/ /\ \/ "fail" \in SaveOutcomes /\ disk' = disk
           \/ "unsynced" \in SaveOutcomes /\ disk' = written
        /\ Spend("troubles") /\ Return(FALSE)
        /\ UNCHANGED owned

\* Nothing is written for a rule that memory already holds, or lacks.
Remember(r, next, rest) ==
  \/ r \notin owned /\ Save(owned \cup {r}, redirect, next, rest)
  \/ r \in owned /\ Proceed(next, rest) /\ UNCHANGED <<recordVars, seen, current, budget>>

Forget(r, next, rest) ==
  \/ r \in owned /\ Save(owned \ {r}, redirect, next, rest)
  \/ r \notin owned /\ Proceed(next, rest) /\ UNCHANGED <<recordVars, seen, current, budget>>

(***************************************************************************)
(* systemBackend.Apply.                                                    *)
(***************************************************************************)

Wanted == IF active THEN AllowsFor[plans] ELSE {}

\* What each firewall lists.  "ufw status" knows the action and comment of
\* the rules while UFW is active; "ufw show added", read only while it is not,
\* is searched for our own rules; firewalld lists texts without an owner.
UFWStatus == IF active THEN host ELSE Empty
UFWAdded == IF active THEN Empty ELSE [r \in {s \in DOMAIN host : host[s] = "mine"} |-> host[r]]
RichRules == IF active THEN host ELSE Empty

Scan ==
  /\ step = "scan"
  /\ \/ Fault
     \/ /\ Proceed("ensure", Wanted)
        /\ seen' = IF backend = "firewalld" THEN RichRules
                   ELSE IF active THEN UFWStatus ELSE UFWAdded
        /\ UNCHANGED <<current, recordVars, budget>>
  /\ UNCHANGED hostVars

\* The rules of a call are sorted.
IsNext(r) == r \in todo /\ \A s \in todo : r.from <= s.from
Listed(r) == IF r \in DOMAIN seen THEN seen[r] ELSE "none"

\* A rule the firewall lacks is recorded first.
Prepare(r) ==
  /\ Listed(r) = "none"
  /\ \/ /\ r \in owned
        /\ Proceed("add", todo \ {r}) /\ current' = r
        /\ UNCHANGED <<recordVars, seen, budget>>
     \/ r \notin owned /\ Remember(r, "ensure", todo)

\* Our own rule is recorded again, an administrator's is used and disowned,
\* a denial, and a rule of another process, is an error.
EnsureUFW(r) ==
  /\ step = "ensure" /\ backend = "ufw" /\ IsNext(r)
  /\ \/ Prepare(r)
     \/ Listed(r) = "mine" /\ Remember(r, "ensure", todo \ {r})
     \/ Listed(r) = "admin" /\ Forget(r, "ensure", todo \ {r})
     \/ Listed(r) = "deny" /\ Return(FALSE) /\ UNCHANGED <<recordVars, budget>>
  /\ UNCHANGED hostVars

EnsureFirewalld(r) ==
  /\ step = "ensure" /\ backend = "firewalld" /\ IsNext(r)
  /\ \/ Prepare(r)
     \/ /\ Listed(r) # "none"
        /\ Proceed("ensure", todo \ {r}) /\ UNCHANGED <<recordVars, seen, current, budget>>
  /\ UNCHANGED hostVars

\* UFW relabels an identical rule.  A command that fails may have taken effect.
AddUFW ==
  /\ step = "add" /\ backend = "ufw"
  /\ \/ /\ host' = Put(host, current, "mine")
        /\ Proceed("ensure", todo)
        /\ UNCHANGED <<recordVars, seen, current, budget>>
     \/ /\ Fault
        /\ host' = host \/ (current \notin DOMAIN host /\ host' = Put(host, current, "mine"))
  /\ UNCHANGED <<backend, active, table, pending>>

\* firewalld answers ALREADY_ENABLED to a rule it has, which is then taken to
\* be another's.  A command that timed out may still take effect.
AddFirewalld ==
  /\ step = "add" /\ backend = "firewalld"
  /\ \/ /\ current \notin DOMAIN host /\ host' = Put(host, current, "mine")
        /\ Proceed("ensure", todo)
        /\ UNCHANGED <<recordVars, seen, current, budget, pending>>
     \/ /\ current \in DOMAIN host
        /\ Forget(current, "ensure", todo)
        /\ UNCHANGED <<host, pending>>
     \/ /\ Fault
        /\ \/ UNCHANGED <<host, pending>>
           \/ current \notin DOMAIN host /\ host' = Put(host, current, "mine") /\ UNCHANGED pending
           \/ pending' = pending \cup {[rule |-> current, add |-> TRUE]} /\ UNCHANGED host
  /\ UNCHANGED <<backend, active, table>>

\* Mutant: everything is removed and added again.
ToRemoveAll == owned
ToRemove == owned \ Wanted

\* applyRedirects up to its save; nothing to do when no driver is in use.
RecordRedirect ==
  /\ step = "ensure" /\ todo = {}
  /\ \/ /\ redirect \/ RedirectsFor[plans] # {}
        /\ Save(owned, TRUE, "sync", {})
     \/ /\ ~redirect /\ RedirectsFor[plans] = {}
        /\ Proceed("remove", ToRemove) /\ UNCHANGED <<recordVars, seen, current, budget>>
  /\ UNCHANGED hostVars

\* nftables replaces the table of this instance in one transaction, iptables
\* its chain of IPv4 and then that of IPv6.
HalfSynced == {r \in RedirectsFor[plans] : r.family = 4} \cup {r \in table : r.family = 6}

SyncRedirect ==
  /\ step = "sync"
  /\ \/ /\ table' = RedirectsFor[plans]
        /\ \/ RedirectsFor[plans] # {} /\ Proceed("remove", ToRemove)
           \/ RedirectsFor[plans] = {} /\ Proceed("unrecord", {})
        /\ UNCHANGED <<recordVars, seen, current, budget>>
     \/ Fault /\ table' \in {table, HalfSynced, RedirectsFor[plans]}
  /\ UNCHANGED <<backend, active, host, pending>>

UnrecordRedirect ==
  /\ step = "unrecord"
  /\ Save(owned, FALSE, "remove", ToRemove)
  /\ UNCHANGED hostVars

\* A rule of ours that is listed is deleted first and forgotten then.
Delete(r) ==
  \/ /\ host' = Drop(host, r)
     /\ Proceed("forget", todo \ {r}) /\ current' = r
     /\ UNCHANGED <<recordVars, seen, budget, pending>>
  \/ Fault /\ host' \in {host, Drop(host, r)} /\ UNCHANGED pending
DropUnlisted(r) == Forget(r, "remove", todo \ {r}) /\ UNCHANGED <<host, pending>>

RemoveUFW(r) ==
  /\ step = "remove" /\ backend = "ufw" /\ IsNext(r)
  /\ IF Listed(r) = "mine" THEN Delete(r) ELSE DropUnlisted(r)
  /\ UNCHANGED <<backend, active, table>>

RemoveFirewalld(r) ==
  /\ step = "remove" /\ backend = "firewalld" /\ IsNext(r)
  /\ \/ ~active /\ Return(FALSE) /\ UNCHANGED <<recordVars, budget, host, pending>>
     \/ active /\ Listed(r) # "none" /\ Delete(r)
     \/ /\ active /\ Listed(r) # "none" /\ Fault
        /\ pending' = pending \cup {[rule |-> r, add |-> FALSE]}
        /\ UNCHANGED host
     \/ active /\ Listed(r) = "none" /\ DropUnlisted(r)
  /\ UNCHANGED <<backend, active, table>>

ForgetRemoved ==
  /\ step = "forget"
  /\ Forget(current, "remove", todo)
  /\ UNCHANGED hostVars

Done ==
  /\ step = "remove" /\ todo = {}
  /\ Return(TRUE)
  /\ UNCHANGED <<recordVars, hostVars, budget>>

(***************************************************************************)
(* The environment.                                                        *)
(***************************************************************************)

\* The process dies; what is on disk and in the host's firewall stays.
Crash ==
  /\ step # "down" /\ Spend("troubles")
  /\ step' = "down" /\ job' = NoJob /\ Clear
  /\ acked' = {}
  /\ UNCHANGED <<managerVars, recordVars, hostVars>>

\* History: what the nodes were promised no longer counts.
Touch == acked' = {} /\ job' = [job EXCEPT !.touched = TRUE]

\* A change whose command timed out takes effect after all.
Land(change) ==
  /\ change \in pending
  /\ pending' = pending \ {change}
  /\ \/ /\ change.add /\ UNCHANGED <<acked, job>>
        /\ host' = IF change.rule \in DOMAIN host \/ ~active THEN host
                   ELSE Put(host, change.rule, "late")
     \/ /\ ~change.add /\ Touch
        /\ host' = Drop(host, change.rule)
  /\ UNCHANGED <<managerVars, recordVars, step, seen, todo, current, backend, active, table, budget>>

\* The administrator adds a rule, deletes one, flushes the redirects, or
\* between two calls stops or starts the firewall; firewalld then has none.
EditRules(r, tag) ==
  /\ Spend("troubles")
  /\ \/ /\ r \notin DOMAIN host /\ active /\ (tag = "deny" => backend = "ufw")
        /\ host' = Put(host, r, tag)
        /\ UNCHANGED <<acked, job>>
     \/ /\ r \in DOMAIN host
        /\ host' = Drop(host, r) /\ Touch
  /\ UNCHANGED <<managerVars, recordVars, step, seen, todo, current, backend, active, table, pending>>

EditFirewall ==
  /\ Spend("troubles")
  /\ \/ /\ table # {} /\ table' = {}
        /\ UNCHANGED <<active, host>>
     \/ /\ step = "idle"
        /\ active' = ~active
        /\ host' = IF backend = "firewalld" THEN Empty ELSE host
        /\ UNCHANGED table
  /\ Touch
  /\ UNCHANGED <<managerVars, recordVars, step, seen, todo, current, backend, pending>>

Reconcile ==
  \/ Scan \/ AddUFW \/ AddFirewalld \/ RecordRedirect \/ SyncRedirect \/ UnrecordRedirect
  \/ ForgetRemoved \/ Done
  \/ \E r \in todo : EnsureUFW(r) \/ EnsureFirewalld(r) \/ RemoveUFW(r) \/ RemoveFirewalld(r)

Next ==
  \/ Boot \/ Tick \/ Close \/ Crash \/ EditFirewall
  \/ \E o \in Owners : Release(o) \/ \E p \in Wishes : Apply(o, p)
  \/ Reconcile
  \/ \E change \in pending : Land(change)
  \/ \E r \in EditedRules, tag \in {"admin", "deny"} : EditRules(r, tag)

Spec == Init /\ [][Next]_vars

\* A process that died is started again, the ticker runs, and a call that
\* holds the mutex goes on: its commands are bounded by timeouts.
Fairness == WF_vars(Boot \/ Tick \/ Reconcile)

-----------------------------------------------------------------------------
TypeOK ==
  /\ DOMAIN plans \subseteq Owners /\ \A o \in DOMAIN plans : plans[o] \in Wishes
  /\ lastErr \in BOOLEAN /\ redirect \in BOOLEAN /\ disk.redirect \in BOOLEAN
  /\ job.kind \in {"none", "boot", "apply", "release", "tick", "close"}
  /\ step \in {"down", "idle", "scan", "ensure", "add", "sync", "unrecord", "remove", "forget"}
  /\ \A r \in DOMAIN host : host[r] \in {"mine", "late", "admin", "deny"}
  /\ acked \subseteq DOMAIN plans

Covers(s, r) ==
  /\ s.family = r.family /\ s.address = r.address /\ s.protocol = r.protocol
  /\ s.target = r.target /\ Ports(r) \subseteq Ports(s)

PlanServed(plan) ==
  /\ active => \A r \in plan.listeners \cup Untargeted(plan.redirects) :
                 \E s \in DOMAIN host : host[s] # "deny" /\ Covers(s, r)
  /\ \A r \in plan.redirects : \E s \in table : Covers(s, r)

\* While one node's plan is applied, changed, refused or given back, half
\* done or failing, the ports and redirects of the others stay as they are.
AckedStayServed == \A o \in acked : PlanServed(plans[o])

\* What this program has put into the host's firewall is on disk before it
\* is there and until it is gone: a process that dies at any point leaves
\* nothing its successor does not reclaim.
Recorded ==
  /\ \A r \in DOMAIN host : host[r] = "mine" => r \in disk.owned
  /\ table # {} => disk.redirect

Blocked ==
  \/ \E r \in AllowsFor[plans] \cap DOMAIN host : host[r] = "deny"
  \/ backend = "firewalld" /\ ~active /\ owned # {}

InSync ==
  /\ \A o \in DOMAIN plans : PlanServed(plans[o])
  /\ table = RedirectsFor[plans]
  /\ \A r \in DOMAIN host : host[r] = "mine" => r \in Wanted

\* Whatever failed, crashed or was changed by hand, the rules end up those
\* of the running nodes, and everything else of ours is gone (to be reached
\* and kept).
Converged == Blocked \/ InSync
=============================================================================
