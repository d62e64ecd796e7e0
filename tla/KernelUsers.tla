--------------------------- MODULE KernelUsers ---------------------------
(***************************************************************************)
(* User lists as the kernels and the service compute with them: kernel.go   *)
(* (UserDiff, ComputeHash) and the service's merge and subtraction.  A user *)
(* is a record [id, uuid, limit]; a list has at most one user of an ID, so  *)
(* it is a set.                                                             *)
(***************************************************************************)
Creds(l) == {[id |-> u.id, uuid |-> u.uuid] : u \in l}
KnownIds(l) == {u.id : u \in l}
UserList(l) == \A u, v \in l : u.id = v.id => u = v

(* Mutant: they are appended *)
MergeUsersAppending(l, delta) == l \cup delta
(* The delta's users replace those with the same ID *)
MergeUsers(l, delta) == {u \in l : u.id \notin KnownIds(delta)} \cup delta
SubtractUsers(l, delta) == {u \in l : u.id \notin KnownIds(delta)}
HasUUIDChange(l, delta) == \E u \in delta, v \in l : u.id = v.id /\ u.uuid # v.uuid

(* A changed credential is removed and added *)
UserDiff(old, new) == [add |-> Creds(new) \ Creds(old), remove |-> Creds(old) \ Creds(new)]

(* What needs a restart when it changes: the configuration and the credentials *)
ComputeHash(config, l) == [config |-> config, users |-> Creds(l)]

Idle == [at |-> "idle", kind |-> "none", config |-> "none", users |-> {},
         add |-> {}, remove |-> {}, old |-> 0, fails |-> FALSE, waits |-> {}]
===========================================================================
