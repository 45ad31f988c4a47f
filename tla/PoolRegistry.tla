---------------------------- MODULE PoolRegistry ----------------------------
(***************************************************************************)
(* The registry of mining pools: an administrator creates and updates      *)
(* pools (backend/app/routes/admin_pools.py), an operator applies for a    *)
(* grant (backend/app/routes/pool_rewards.py), each request in the steps   *)
(* between which others run; table mining_pools of                         *)
(* backend/app/sqlite_store.py with its partial unique index.  Of a pool   *)
(* there are the payout address, the status and whether the name is blank. *)
(***************************************************************************)
EXTENDS Integers, Sequences

CONSTANTS
  Address,    \* payout addresses
  NoAddress,  \* NULL
  NotGiven,   \* a field a request leaves out
  Applicant,  \* requests to apply, one each
  Admin,      \* requests to create or update, one each
  MaxPools    \* bound: rows of the table

PoolStatus == {"active", "disabled", "pending", "rejected"}

ASSUME PoolRegistryAssumption ==
  /\ NoAddress \notin Address /\ NotGiven \notin Address /\ NotGiven # NoAddress
  /\ NotGiven \notin PoolStatus
  /\ Applicant \cap Admin = {} /\ "admin" \notin Applicant /\ MaxPools \in Nat

VARIABLES
  pools,    \* mining_pools: a row per id, never deleted
  request,  \* request[r]: the handler's local state and its answer
  overlaps  \* history: pairs of applications that were between their check and
            \* their insert at the same time

registry == <<pools, request, overlaps>>

Ids == 1..MaxPools

\* id is that of the pool to update, 0 for a new one; sought is what the check
\* looks for, the row's own address and status where the body has none.
Idle == [pc |-> "idle", id |-> 0, address |-> NotGiven, status |-> NotGiven, blank |-> FALSE,
         sought |-> [address |-> NoAddress, status |-> "pending"], code |-> 0]

Working(r) == request[r].pc \notin {"idle", "done"}

RegistryInit ==
  /\ pools = <<>>
  /\ request = [r \in Applicant \cup Admin |-> Idle]
  /\ overlaps = {}

\* An answered request needs nothing of its body any more.
Answers(r, code) == request' = [request EXCEPT ![r] = [Idle EXCEPT !.pc = "done", !.code = code]]
Proceeds(r)      == request' = [request EXCEPT ![r].pc = "write"]

\* pool_find_by_payout_address
Found(a, statuses, own) ==
  {id \in DOMAIN pools : id # own /\ pools[id].address = a /\ pools[id].status \in statuses}

(* A slip: the index is not there. *)
AdmitsAll(row, own) == TRUE

\* idx_mining_pools_active_payout
IndexAdmits(row, own) ==
  row.status = "active" /\ row.address # NoAddress => Found(row.address, {"active"}, own) = {}
-----------------------------------------------------------------------------
(* Administrators *)

\* The bodies validation lets through; a name of blanks becomes NULL.
BeginCreate(r) ==
  /\ request[r].pc = "idle"
  /\ \E a \in Address \cup {NoAddress}, s \in PoolStatus, blank \in BOOLEAN :
       request' = [request EXCEPT ![r] =
         [Idle EXCEPT !.pc = "check", !.address = a, !.status = s, !.blank = blank,
                      !.sought = [address |-> a, status |-> s]]]
  /\ UNCHANGED <<pools, overlaps>>

\* The pool is loaded first; its address and status may be old at the check.
BeginUpdate(r) ==
  /\ request[r].pc = "idle"
  /\ \E id \in Ids, a \in Address \cup {NoAddress, NotGiven},
        s \in PoolStatus \cup {NotGiven}, blank \in BOOLEAN :
       IF id \notin DOMAIN pools
       THEN Answers(r, 404)
       ELSE request' = [request EXCEPT ![r] =
              [Idle EXCEPT !.pc = "check", !.id = id, !.address = a, !.status = s, !.blank = blank,
                 !.sought = [address |-> IF a = NotGiven THEN pools[id].address ELSE a,
                             status  |-> IF s = NotGiven THEN pools[id].status ELSE s]]]
  /\ UNCHANGED <<pools, overlaps>>

CheckUnique(r) ==
  LET sought == request[r].sought IN
    /\ request[r].pc = "check" /\ r \in Admin
    /\ IF /\ sought.address # NoAddress /\ sought.status = "active"
          /\ Found(sought.address, {"active"}, request[r].id) # {}
       THEN Answers(r, 409)
       ELSE Proceeds(r)
    /\ UNCHANGED <<pools, overlaps>>

\* The INSERT.  The index, or the missing name, answers 409; any other failure
\* of the store is an error 500.
Create(r) ==
  LET row == [address |-> request[r].address, status |-> request[r].status, by |-> "admin"] IN
    /\ request[r].pc = "write" /\ r \in Admin /\ request[r].id = 0
    /\ \/ /\ IndexAdmits(row, 0) /\ ~request[r].blank /\ Len(pools) < MaxPools
          /\ pools' = Append(pools, row)
          /\ Answers(r, 200)
       \/ /\ ~IndexAdmits(row, 0) \/ request[r].blank
          /\ Answers(r, 409) /\ UNCHANGED pools
       \/ Answers(r, 500) /\ UNCHANGED pools
    /\ UNCHANGED overlaps

\* The UPDATE of the fields the body has, on the row as it is now; a body of no
\* field writes nothing.
Update(r) ==
  LET q == request[r]
      old == pools[q.id]
      row == [address |-> IF q.address = NotGiven THEN old.address ELSE q.address,
              status  |-> IF q.status = NotGiven THEN old.status ELSE q.status,
              by      |-> IF {q.address, q.status} = {NotGiven} THEN old.by ELSE "admin"]
  IN /\ q.pc = "write" /\ r \in Admin /\ q.id # 0
     /\ \/ /\ IndexAdmits(row, q.id) /\ ~q.blank
           /\ pools' = [pools EXCEPT ![q.id] = row]
           /\ Answers(r, 200)
        \/ /\ ~IndexAdmits(row, q.id) \/ q.blank
           /\ Answers(r, 409) /\ UNCHANGED pools
        \/ Answers(r, 500) /\ UNCHANGED pools
     /\ UNCHANGED overlaps
-----------------------------------------------------------------------------
(* Applicants *)

(* A slip: the statuses are left out, and the default is active pools only. *)
ApplyCheckingActive(r) ==
  /\ request[r].pc = "idle"
  /\ \E a \in Address :
       IF Found(a, {"active"}, 0) # {}
       THEN Answers(r, 409) /\ UNCHANGED overlaps
       ELSE /\ request' = [request EXCEPT ![r] = [Idle EXCEPT !.pc = "write", !.address = a]]
            /\ overlaps' = overlaps \cup {{r, s} : s \in {s \in Applicant : request[s].pc = "write"}}
  /\ UNCHANGED pools

\* The body's address is not blank, or the answer is 400.
Apply(r) ==
  /\ request[r].pc = "idle"
  /\ \E a \in Address :
       IF Found(a, {"active", "pending"}, 0) # {}
       THEN Answers(r, 409) /\ UNCHANGED overlaps
       ELSE /\ request' = [request EXCEPT ![r] = [Idle EXCEPT !.pc = "write", !.address = a]]
            /\ overlaps' = overlaps \cup {{r, s} : s \in {s \in Applicant : request[s].pc = "write"}}
  /\ UNCHANGED pools

\* Never refused by the index, as the pool is pending.
Register(r) ==
  /\ request[r].pc = "write" /\ r \in Applicant
  /\ \/ /\ Len(pools) < MaxPools
        /\ pools' = Append(pools, [address |-> request[r].address, status |-> "pending", by |-> r])
        /\ Answers(r, 200)
     \/ Answers(r, 500) /\ UNCHANGED pools
  /\ UNCHANGED overlaps

RegistryStep ==
  \/ \E r \in Admin : CheckUnique(r) \/ Create(r) \/ Update(r)
  \/ \E r \in Applicant : Register(r)

RegistryNext ==
  \/ \E r \in Admin : BeginCreate(r) \/ BeginUpdate(r)
  \/ \E r \in Applicant : Apply(r)
  \/ RegistryStep
-----------------------------------------------------------------------------
(* Two active pools never have one payout address, so a block is attributed   *)
(* to one pool only, whatever requests check before others have written.      *)
OneActivePool ==
  \A i, j \in DOMAIN pools :
    /\ pools[i].status = "active" /\ pools[j].status = "active"
    /\ pools[i].address = pools[j].address /\ pools[i].address # NoAddress
    => i = j

(* Two applications for one address both await review only if they were       *)
(* between check and insert at the same time: an applicant who comes later is *)
(* turned away as long as no administrator has decided on the first.          *)
TwiceOnlyByOverlap ==
  \A i, j \in DOMAIN pools :
    /\ i # j /\ pools[i].address = pools[j].address
    /\ pools[i].by \in Applicant /\ pools[j].by \in Applicant
    => {pools[i].by, pools[j].by} \in overlaps
=============================================================================
