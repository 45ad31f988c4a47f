--------------------------- MODULE ServicesProofs ---------------------------
(***************************************************************************)
(* Proofs about Services: the pool registry, the supply, the rate limiter, *)
(* the RPC client, the ElectrumX client and their types, for every set of  *)
(* requests, callers, addresses, minutes and connections.                  *)
(***************************************************************************)
EXTENDS Services, FiniteSetTheorems, WellFoundedInduction, TLAPS

PoolRow ==
  [address : Address \cup {NoAddress}, status : PoolStatus, by : Applicant \cup {"admin"}]

RequestType ==
  [pc : {"idle", "check", "write", "done"}, id : Nat,
   address : Address \cup {NoAddress, NotGiven}, status : PoolStatus \cup {NotGiven},
   blank : BOOLEAN,
   sought : [address : Address \cup {NoAddress}, status : PoolStatus],
   code : Nat]

RegistryType ==
  /\ pools \in Seq(PoolRow)
  /\ request \in [Applicant \cup Admin -> RequestType]

(* A request that is about to write has a row to write: all of it when it
   creates or applies, the rest in the table when it updates. *)
WritesWholeRows ==
  /\ \A r \in Admin : request[r].pc \in {"check", "write"} =>
       IF request[r].id = 0
       THEN request[r].address # NotGiven /\ request[r].status # NotGiven
       ELSE request[r].id \in DOMAIN pools
  /\ \A r \in Applicant : request[r].pc = "write" => request[r].address \in Address

RegistryInv == RegistryType /\ WritesWholeRows /\ OneActivePool

LEMMA RegistryStarts == Init => RegistryInv
<1> SUFFICES ASSUME Init PROVE RegistryInv
  OBVIOUS
<1>1. pools = <<>> /\ request = [r \in Applicant \cup Admin |-> Idle]
  BY DEF Init, RegistryInit
<1>2. Idle \in RequestType /\ Idle.pc = "idle"
  BY DEF Idle, RequestType, PoolStatus
<1>3. \A r \in Applicant \cup Admin : request[r].pc = "idle"
  BY <1>1, <1>2
<1>4. RegistryType
  BY <1>1, <1>2 DEF RegistryType
<1>5. QED BY <1>1, <1>3, <1>4 DEF RegistryInv, WritesWholeRows, OneActivePool

(* A row that the index admits keeps active pools apart, whether it is new or
   replaces another. *)
LEMMA AdmittedRow ==
  ASSUME pools \in Seq(PoolRow), OneActivePool, NEW row \in PoolRow, NEW own \in Nat,
         IndexAdmits(row, own),
         \/ own = 0 /\ pools' = Append(pools, row)
         \/ own \in DOMAIN pools /\ pools' = [pools EXCEPT ![own] = row]
  PROVE  /\ pools' \in Seq(PoolRow) /\ DOMAIN pools \subseteq DOMAIN pools'
         /\ OneActivePool'
<1>1. CASE own = 0 /\ pools' = Append(pools, row)
  <2>1. /\ pools' \in Seq(PoolRow) /\ DOMAIN pools' = 1..(Len(pools) + 1)
        /\ DOMAIN pools = 1..Len(pools) /\ Len(pools) \in Nat
        /\ \A i \in 1..Len(pools) : pools'[i] = pools[i]
        /\ pools'[Len(pools) + 1] = row
    BY <1>1
  <2>2. \A i \in 1..Len(pools) :
          row.status = "active" /\ row.address # NoAddress /\ pools[i].status = "active"
            => pools[i].address # row.address
    BY <1>1, <2>1 DEF IndexAdmits, Found
  <2>3. ASSUME NEW i \in DOMAIN pools', NEW j \in DOMAIN pools',
               pools'[i].status = "active", pools'[j].status = "active",
               pools'[i].address = pools'[j].address, pools'[i].address # NoAddress
        PROVE  i = j
    <3>1. CASE i \in 1..Len(pools) /\ j \in 1..Len(pools)
      BY <2>1, <2>3, <3>1 DEF OneActivePool
    <3>2. CASE i = Len(pools) + 1 /\ j \in 1..Len(pools)
      BY <2>1, <2>2, <2>3, <3>2
    <3>3. CASE j = Len(pools) + 1 /\ i \in 1..Len(pools)
      BY <2>1, <2>2, <2>3, <3>3
    <3>4. i \in 1..(Len(pools) + 1) /\ j \in 1..(Len(pools) + 1) /\ Len(pools) \in Nat
      BY <2>1, <2>3
    <3>5. \A k \in 1..(Len(pools) + 1) : k \in 1..Len(pools) \/ k = Len(pools) + 1
      BY <3>4
    <3>6. QED BY <3>1, <3>2, <3>3, <3>4, <3>5
  <2>4. OneActivePool'
    BY <2>3 DEF OneActivePool
  <2>5. 1..Len(pools) \subseteq 1..(Len(pools) + 1)
    <3>1. \A n \in Nat : 1..n \subseteq 1..(n + 1)
      OBVIOUS
    <3>2. QED BY <2>1, <3>1, Zenon
  <2>6. DOMAIN pools \subseteq DOMAIN pools'
    <3>1. DOMAIN pools = 1..Len(pools) /\ DOMAIN pools' = 1..(Len(pools) + 1)
      BY <2>1
    <3>2. QED BY <2>5, <3>1, Zenon
  <2>7. pools' \in Seq(PoolRow)
    BY <2>1
  <2>8. QED BY <2>4, <2>6, <2>7
<1>2. CASE own \in DOMAIN pools /\ pools' = [pools EXCEPT ![own] = row]
  <2>1. /\ pools' \in Seq(PoolRow) /\ DOMAIN pools' = DOMAIN pools
        /\ \A i \in DOMAIN pools \ {own} : pools'[i] = pools[i]
        /\ pools'[own] = row
    BY <1>2
  <2>2. \A i \in DOMAIN pools \ {own} :
          row.status = "active" /\ row.address # NoAddress /\ pools[i].status = "active"
            => pools[i].address # row.address
    BY DEF IndexAdmits, Found
  <2>3. QED BY <1>2, <2>1, <2>2 DEF OneActivePool
<1>3. QED BY <1>1, <1>2

(* A request that has its answer, or goes on to write, changes nothing else. *)
LEMMA AnsweredRequest ==
  ASSUME RegistryType, WritesWholeRows, NEW r \in Applicant \cup Admin,
         pools' \in Seq(PoolRow), DOMAIN pools \subseteq DOMAIN pools',
         \E code \in Nat : Answers(r, code)
  PROVE  RegistryType' /\ WritesWholeRows'
<1>1. PICK code \in Nat : Answers(r, code)
  OBVIOUS
<1> DEFINE answered == [Idle EXCEPT !.pc = "done", !.code = code]
<1>2. answered \in RequestType /\ answered.pc = "done"
  BY DEF Idle, RequestType, PoolStatus
<1>3. request' = [request EXCEPT ![r] = answered]
  BY <1>1 DEF Answers
<1> HIDE DEF answered
<1>4. RegistryType'
  BY <1>2, <1>3 DEF RegistryType
<1>5. QED BY <1>2, <1>3, <1>4 DEF RegistryType, WritesWholeRows

LEMMA ProceedingRequest ==
  ASSUME RegistryType, WritesWholeRows, NEW r \in Admin, request[r].pc = "check",
         Proceeds(r), UNCHANGED pools
  PROVE  RegistryType' /\ WritesWholeRows'
<1>1. request[r] \in RequestType
  BY DEF RegistryType
<1> DEFINE going == [request[r] EXCEPT !.pc = "write"]
<1>2. /\ going \in RequestType /\ going.id = request[r].id
      /\ going.address = request[r].address /\ going.status = request[r].status
  BY <1>1 DEF RequestType
<1>3. request' = [request EXCEPT ![r] = going]
  BY DEF Proceeds
<1> HIDE DEF going
<1>4. QED
  BY <1>2, <1>3, PoolRegistryAssumption DEF RegistryType, WritesWholeRows

LEMMA BeginningOfCreate ==
  ASSUME RegistryInv, NEW r \in Admin, BeginCreate(r)
  PROVE  RegistryInv'
<1>1. PICK a \in Address \cup {NoAddress}, s \in PoolStatus, blank \in BOOLEAN :
        request' = [request EXCEPT ![r] =
          [Idle EXCEPT !.pc = "check", !.address = a, !.status = s, !.blank = blank,
                       !.sought = [address |-> a, status |-> s]]]
  BY DEF BeginCreate
<1> DEFINE q == [Idle EXCEPT !.pc = "check", !.address = a, !.status = s, !.blank = blank,
                             !.sought = [address |-> a, status |-> s]]
<1>2. q \in RequestType /\ q.id = 0 /\ q.address = a /\ q.status = s
  BY DEF Idle, RequestType, PoolStatus
<1>3. a # NotGiven /\ s # NotGiven
  BY PoolRegistryAssumption
<1>4. request' = [request EXCEPT ![r] = q] /\ UNCHANGED pools
  BY <1>1 DEF BeginCreate
<1> HIDE DEF q
<1>5. QED
  BY <1>2, <1>3, <1>4, PoolRegistryAssumption
     DEF RegistryInv, RegistryType, WritesWholeRows, OneActivePool

LEMMA BeginningOfUpdate ==
  ASSUME RegistryInv, NEW r \in Admin, BeginUpdate(r)
  PROVE  RegistryInv'
<1>1. PICK id \in Ids, a \in Address \cup {NoAddress, NotGiven},
           s \in PoolStatus \cup {NotGiven}, blank \in BOOLEAN :
        IF id \notin DOMAIN pools
        THEN Answers(r, 404)
        ELSE request' = [request EXCEPT ![r] =
               [Idle EXCEPT !.pc = "check", !.id = id, !.address = a, !.status = s, !.blank = blank,
                  !.sought = [address |-> IF a = NotGiven THEN pools[id].address ELSE a,
                              status  |-> IF s = NotGiven THEN pools[id].status ELSE s]]]
  BY DEF BeginUpdate
<1>2. UNCHANGED pools
  BY DEF BeginUpdate
<1>3. CASE id \notin DOMAIN pools
  <2>1. Answers(r, 404) /\ 404 \in Nat
    BY <1>1, <1>3
  <2>2. RegistryType' /\ WritesWholeRows'
    BY <1>2, <2>1, AnsweredRequest DEF RegistryInv, RegistryType
  <2>3. QED BY <1>2, <2>2 DEF RegistryInv, OneActivePool
<1>4. CASE id \in DOMAIN pools
  <2> DEFINE sought == [address |-> IF a = NotGiven THEN pools[id].address ELSE a,
                        status  |-> IF s = NotGiven THEN pools[id].status ELSE s]
             q == [Idle EXCEPT !.pc = "check", !.id = id, !.address = a, !.status = s,
                               !.blank = blank, !.sought = sought]
  <2>1. request' = [request EXCEPT ![r] = q]
    BY <1>1, <1>4
  <2>2. pools[id] \in PoolRow /\ id \in Nat \ {0}
    BY <1>4, PoolRegistryAssumption DEF RegistryInv, RegistryType, Ids
  <2>3. sought \in [address : Address \cup {NoAddress}, status : PoolStatus]
    BY <2>2 DEF PoolRow
  <2> HIDE DEF sought
  <2>4. q \in RequestType /\ q.id = id
    BY <2>2, <2>3 DEF Idle, RequestType
  <2> HIDE DEF q
  <2>5. RegistryType'
    BY <1>2, <2>1, <2>4 DEF RegistryInv, RegistryType
  <2>6. WritesWholeRows'
    BY <1>2, <1>4, <2>1, <2>2, <2>4, PoolRegistryAssumption
       DEF RegistryInv, RegistryType, WritesWholeRows
  <2>7. QED BY <1>2, <2>5, <2>6 DEF RegistryInv, OneActivePool
<1>5. QED BY <1>3, <1>4

LEMMA CheckOfUniqueness ==
  ASSUME RegistryInv, NEW r \in Admin, CheckUnique(r)
  PROVE  RegistryInv'
<1>1. request[r].pc = "check" /\ UNCHANGED pools /\ (Answers(r, 409) \/ Proceeds(r))
  BY DEF CheckUnique
<1>2. RegistryType' /\ WritesWholeRows'
  BY <1>1, AnsweredRequest, ProceedingRequest DEF RegistryInv, RegistryType
<1>3. QED BY <1>1, <1>2 DEF RegistryInv, OneActivePool

LEMMA Creation ==
  ASSUME RegistryInv, NEW r \in Admin, Create(r)
  PROVE  RegistryInv'
<1> DEFINE row == [address |-> request[r].address, status |-> request[r].status, by |-> "admin"]
<1>1. /\ \/ IndexAdmits(row, 0) /\ pools' = Append(pools, row)
         \/ UNCHANGED pools
      /\ \E code \in Nat : Answers(r, code)
  BY DEF Create
<1>2. row \in PoolRow
  <2>1. request[r] \in RequestType /\ request[r].address # NotGiven /\ request[r].status # NotGiven
    BY DEF Create, RegistryInv, RegistryType, WritesWholeRows
  <2>2. QED BY <2>1 DEF RequestType, PoolRow
<1> HIDE DEF row
<1>3. /\ pools' \in Seq(PoolRow) /\ DOMAIN pools \subseteq DOMAIN pools'
      /\ OneActivePool'
  <2>1. CASE IndexAdmits(row, 0) /\ pools' = Append(pools, row)
    BY <1>2, <2>1, AdmittedRow DEF RegistryInv, RegistryType
  <2>2. CASE UNCHANGED pools
    BY <2>2 DEF RegistryInv, RegistryType, OneActivePool
  <2>3. QED BY <1>1, <2>1, <2>2
<1>4. QED BY <1>1, <1>3, AnsweredRequest DEF RegistryInv

LEMMA Updating ==
  ASSUME RegistryInv, NEW r \in Admin, Update(r)
  PROVE  RegistryInv'
<1> DEFINE q == request[r]
           old == pools[q.id]
           row == [address |-> IF q.address = NotGiven THEN old.address ELSE q.address,
                   status  |-> IF q.status = NotGiven THEN old.status ELSE q.status,
                   by      |-> IF {q.address, q.status} = {NotGiven} THEN old.by ELSE "admin"]
<1>1. /\ \/ IndexAdmits(row, q.id) /\ pools' = [pools EXCEPT ![q.id] = row]
         \/ UNCHANGED pools
      /\ \E code \in Nat : Answers(r, code)
      /\ q.id # 0 /\ q.pc = "write"
  BY DEF Update
<1>2. q.id \in DOMAIN pools /\ q \in RequestType /\ old \in PoolRow /\ q.id \in Nat
  <2>1. q.id \in DOMAIN pools /\ q \in RequestType
    BY <1>1 DEF RegistryInv, RegistryType, WritesWholeRows
  <2>2. QED BY <2>1 DEF RegistryInv, RegistryType, RequestType
<1> HIDE DEF old, q
<1>3. row \in PoolRow
  BY <1>2 DEF RequestType, PoolRow
<1> HIDE DEF row
<1>4. /\ pools' \in Seq(PoolRow) /\ DOMAIN pools \subseteq DOMAIN pools'
      /\ OneActivePool'
  <2>1. CASE IndexAdmits(row, q.id) /\ pools' = [pools EXCEPT ![q.id] = row]
    BY <1>2, <1>3, <2>1, AdmittedRow DEF RegistryInv, RegistryType
  <2>2. CASE UNCHANGED pools
    BY <2>2 DEF RegistryInv, RegistryType, OneActivePool
  <2>3. QED BY <1>1, <2>1, <2>2
<1>5. QED BY <1>1, <1>4, AnsweredRequest DEF RegistryInv

LEMMA Applying ==
  ASSUME RegistryInv, NEW r \in Applicant, Apply(r)
  PROVE  RegistryInv'
<1>1. PICK a \in Address :
        Answers(r, 409) \/ request' = [request EXCEPT ![r] = [Idle EXCEPT !.pc = "write", !.address = a]]
  BY DEF Apply
<1>2. UNCHANGED pools
  BY DEF Apply
<1>3. RegistryType' /\ WritesWholeRows'
  <2>1. CASE Answers(r, 409)
    BY <1>2, <2>1, AnsweredRequest DEF RegistryInv, RegistryType
  <2>2. CASE request' = [request EXCEPT ![r] = [Idle EXCEPT !.pc = "write", !.address = a]]
    <3> DEFINE q == [Idle EXCEPT !.pc = "write", !.address = a]
    <3>1. q \in RequestType /\ q.address = a
      BY DEF Idle, RequestType, PoolStatus
    <3>2. request' = [request EXCEPT ![r] = q]
      BY <2>2
    <3> HIDE DEF q
    <3>3. RegistryType'
      BY <1>2, <3>1, <3>2 DEF RegistryInv, RegistryType
    <3>4. QED
      BY <1>2, <3>1, <3>2, <3>3, PoolRegistryAssumption
         DEF RegistryInv, RegistryType, WritesWholeRows
  <2>3. QED BY <1>1, <2>1, <2>2
<1>4. QED BY <1>2, <1>3 DEF RegistryInv, OneActivePool

LEMMA Registering ==
  ASSUME RegistryInv, NEW r \in Applicant, Register(r)
  PROVE  RegistryInv'
<1> DEFINE row == [address |-> request[r].address, status |-> "pending", by |-> r]
<1>1. /\ pools' = Append(pools, row) \/ UNCHANGED pools
      /\ \E code \in Nat : Answers(r, code)
      /\ request[r].pc = "write"
  BY DEF Register
<1>2. row \in PoolRow
  BY <1>1 DEF PoolRow, PoolStatus, RegistryInv, WritesWholeRows
<1>3. IndexAdmits(row, 0)
  BY DEF IndexAdmits
<1> HIDE DEF row
<1>4. /\ pools' \in Seq(PoolRow) /\ DOMAIN pools \subseteq DOMAIN pools'
      /\ OneActivePool'
  <2>1. CASE pools' = Append(pools, row)
    BY <1>2, <1>3, <2>1, AdmittedRow DEF RegistryInv, RegistryType
  <2>2. CASE UNCHANGED pools
    BY <2>2 DEF RegistryInv, RegistryType, OneActivePool
  <2>3. QED BY <1>1, <2>1, <2>2
<1>5. QED BY <1>1, <1>4, AnsweredRequest DEF RegistryInv

LEMMA RegistryStays == RegistryInv /\ [Next]_vars => RegistryInv'
<1> SUFFICES ASSUME RegistryInv, [Next]_vars PROVE RegistryInv'
  OBVIOUS
<1>1. CASE RegistryNext
  BY <1>1, BeginningOfCreate, BeginningOfUpdate, CheckOfUniqueness, Creation, Updating,
     Applying, Registering
     DEF RegistryNext, RegistryStep
<1>2. CASE UNCHANGED registry
  BY <1>2 DEF registry, RegistryInv, RegistryType, WritesWholeRows, OneActivePool
<1>3. QED BY <1>1, <1>2 DEF Next, vars, Others

(* The partial unique index alone keeps active pools apart, whatever requests
   check before others have written. *)
THEOREM ActivePoolsStayApart == Spec => []OneActivePool
<1>1. RegistryInv => OneActivePool BY DEF RegistryInv
<1>2. QED BY RegistryStarts, RegistryStays, <1>1, PTL DEF Spec
-----------------------------------------------------------------------------
(* A pool an applicant registered is still pending and its request answered,
   for as long as no administrator has written to it.  Whoever is about to
   register an address overlapped with all others who are, and with all who
   have. *)
ApplicationsMet ==
  /\ \A i \in DOMAIN pools : pools[i].by \in Applicant =>
       pools[i].status = "pending" /\ request[pools[i].by].pc = "done"
  /\ \A r, s \in Applicant :
       /\ request[r].pc = "write" /\ request[s].pc = "write" /\ r # s
       /\ request[r].address = request[s].address
       => {r, s} \in overlaps
  /\ \A r \in Applicant, i \in DOMAIN pools :
       /\ request[r].pc = "write" /\ pools[i].by \in Applicant
       /\ request[r].address = pools[i].address
       => {r, pools[i].by} \in overlaps

ApplicationInv == RegistryInv /\ ApplicationsMet /\ TwiceOnlyByOverlap

LEMMA ApplicationsStart == Init => ApplicationInv
<1> SUFFICES ASSUME Init PROVE ApplicationInv
  OBVIOUS
<1>1. pools = <<>> /\ \A r \in Applicant \cup Admin : request[r].pc = "idle"
  BY DEF Init, RegistryInit, Idle
<1>2. QED
  BY <1>1, RegistryStarts DEF ApplicationInv, ApplicationsMet, TwiceOnlyByOverlap

(* An administrator's row is his own, and an update of nothing leaves the row
   as it was. *)
LEMMA AdministratorsKeepApplications ==
  ASSUME ApplicationInv, NEW r \in Admin,
         BeginCreate(r) \/ BeginUpdate(r) \/ CheckUnique(r) \/ Create(r) \/ Update(r)
  PROVE  ApplicationsMet' /\ TwiceOnlyByOverlap'
<1>1. /\ UNCHANGED overlaps
      /\ \A a \in Applicant : request'[a] = request[a]
  <2>1. /\ UNCHANGED overlaps
        /\ \E q : request' = [request EXCEPT ![r] = q]
    <3>1. /\ \A code : Answers(r, code) => \E q : request' = [request EXCEPT ![r] = q]
          /\ Proceeds(r) => \E q : request' = [request EXCEPT ![r] = q]
      BY DEF Answers, Proceeds
    <3>2. CASE BeginCreate(r)
      BY <3>2 DEF BeginCreate
    <3>3. CASE BeginUpdate(r)
      BY <3>1, <3>3 DEF BeginUpdate
    <3>4. CASE CheckUnique(r)
      BY <3>1, <3>4 DEF CheckUnique
    <3>5. CASE Create(r)
      BY <3>1, <3>5 DEF Create
    <3>6. CASE Update(r)
      BY <3>1, <3>6 DEF Update
    <3>7. QED BY <3>2, <3>3, <3>4, <3>5, <3>6
  <2>2. \A a \in Applicant : a # r /\ a \in DOMAIN request
    BY PoolRegistryAssumption DEF ApplicationInv, RegistryInv, RegistryType
  <2>3. QED BY <2>1, <2>2
<1>2. \A i \in DOMAIN pools' : pools'[i].by \in Applicant =>
        i \in DOMAIN pools /\ pools'[i].by = pools[i].by
        /\ pools'[i].status = pools[i].status /\ pools'[i].address = pools[i].address
  <2>1. CASE UNCHANGED pools
    BY <2>1
  <2>2. CASE Create(r) /\ ~UNCHANGED pools
    <3> DEFINE row == [address |-> request[r].address, status |-> request[r].status, by |-> "admin"]
    <3>1. pools' = Append(pools, row)
      BY <2>2 DEF Create
    <3>2. row.by \notin Applicant
      BY PoolRegistryAssumption
    <3> HIDE DEF row
    <3>3. pools \in Seq(PoolRow)
      BY DEF ApplicationInv, RegistryInv, RegistryType
    <3>4. /\ Len(pools) \in Nat /\ DOMAIN pools = 1..Len(pools)
          /\ DOMAIN pools' = 1..(Len(pools) + 1)
          /\ \A i \in 1..Len(pools) : pools'[i] = pools[i]
          /\ pools'[Len(pools) + 1] = row
      BY <3>1, <3>3
    <3>5. \A i \in 1..(Len(pools) + 1) : i \in 1..Len(pools) \/ i = Len(pools) + 1
      BY <3>4
    <3>6. QED BY <3>2, <3>4, <3>5
  <2>3. CASE Update(r) /\ ~UNCHANGED pools
    <3> DEFINE q == request[r]
               old == pools[q.id]
               row == [address |-> IF q.address = NotGiven THEN old.address ELSE q.address,
                       status  |-> IF q.status = NotGiven THEN old.status ELSE q.status,
                       by      |-> IF {q.address, q.status} = {NotGiven} THEN old.by ELSE "admin"]
    <3>1. pools' = [pools EXCEPT ![q.id] = row]
      BY <2>3 DEF Update
    <3>2. row.by \in Applicant => /\ row.by = old.by /\ row.status = old.status
                                 /\ row.address = old.address
      BY PoolRegistryAssumption
    <3> HIDE DEF row
    <3>3. pools \in Seq(PoolRow) /\ DOMAIN pools' = DOMAIN pools
      BY <3>1 DEF ApplicationInv, RegistryInv, RegistryType
    <3>4. \A i \in DOMAIN pools : pools'[i] = IF i = q.id THEN row ELSE pools[i]
      BY <3>1, <3>3
    <3>5. QED BY <3>2, <3>3, <3>4
  <2>4. UNCHANGED pools \/ Create(r) \/ Update(r)
    BY DEF BeginCreate, BeginUpdate, CheckUnique
  <2>5. QED BY <2>1, <2>2, <2>3, <2>4
<1>3. ApplicationsMet'
  BY <1>1, <1>2 DEF ApplicationInv, ApplicationsMet
<1>4. TwiceOnlyByOverlap'
  BY <1>1, <1>2 DEF ApplicationInv, TwiceOnlyByOverlap
<1>5. QED BY <1>3, <1>4

(* Who finds neither an active nor a pending pool meets no earlier applicant. *)
LEMMA ApplyingMeetsOthers ==
  ASSUME ApplicationInv, NEW r \in Applicant, Apply(r)
  PROVE  ApplicationsMet' /\ TwiceOnlyByOverlap'
<1>1. UNCHANGED pools /\ request[r].pc = "idle"
  BY DEF Apply
<1>2. request \in [Applicant \cup Admin -> RequestType]
  BY DEF ApplicationInv, RegistryInv, RegistryType
<1>3. \A i \in DOMAIN pools : pools[i].by \in Applicant =>
        pools[i].status = "pending" /\ pools[i].by # r /\ i # 0
  BY <1>1 DEF ApplicationInv, ApplicationsMet, RegistryInv, RegistryType
<1>4. PICK a \in Address :
        \/ Answers(r, 409) /\ UNCHANGED overlaps
        \/ /\ Found(a, {"active", "pending"}, 0) = {}
           /\ request' = [request EXCEPT ![r] = [Idle EXCEPT !.pc = "write", !.address = a]]
           /\ overlaps' = overlaps \cup {{r, s} : s \in {s \in Applicant : request[s].pc = "write"}}
  BY DEF Apply
<1>5. CASE Answers(r, 409) /\ UNCHANGED overlaps
  <2>1. request'[r].pc = "done" /\ \A s \in Applicant \ {r} : request'[s] = request[s]
    BY <1>2, <1>5 DEF Answers, Idle
  <2>2. QED
    BY <1>1, <1>3, <1>5, <2>1 DEF ApplicationInv, ApplicationsMet, TwiceOnlyByOverlap
<1>6. CASE /\ Found(a, {"active", "pending"}, 0) = {}
           /\ request' = [request EXCEPT ![r] = [Idle EXCEPT !.pc = "write", !.address = a]]
           /\ overlaps' = overlaps \cup {{r, s} : s \in {s \in Applicant : request[s].pc = "write"}}
  <2>1. /\ request'[r].pc = "write" /\ request'[r].address = a
        /\ \A s \in Applicant \ {r} : request'[s] = request[s]
    BY <1>2, <1>6 DEF Idle
  <2>2. \A i \in DOMAIN pools : pools[i].by \in Applicant => pools[i].address # a
    BY <1>3, <1>6 DEF Found
  <2>3. /\ overlaps \subseteq overlaps'
        /\ \A s \in Applicant : request[s].pc = "write" => {r, s} \in overlaps' /\ {s, r} = {r, s}
    BY <1>6
  <2>4. ApplicationsMet'
    BY <1>1, <1>3, <2>1, <2>2, <2>3 DEF ApplicationInv, ApplicationsMet
  <2>5. TwiceOnlyByOverlap'
    BY <1>1, <2>3 DEF ApplicationInv, TwiceOnlyByOverlap
  <2>6. QED BY <2>4, <2>5
<1>7. QED BY <1>4, <1>5, <1>6

LEMMA RegisteringMeetsOthers ==
  ASSUME ApplicationInv, NEW r \in Applicant, Register(r)
  PROVE  ApplicationsMet' /\ TwiceOnlyByOverlap'
<1> DEFINE row == [address |-> request[r].address, status |-> "pending", by |-> r]
<1>1. /\ UNCHANGED overlaps /\ request[r].pc = "write"
      /\ pools' = Append(pools, row) \/ UNCHANGED pools
      /\ \E code \in Nat : Answers(r, code)
  BY DEF Register
<1>2. request \in [Applicant \cup Admin -> RequestType] /\ pools \in Seq(PoolRow)
  BY DEF ApplicationInv, RegistryInv, RegistryType
<1>3. request'[r].pc = "done" /\ \A s \in Applicant \ {r} : request'[s] = request[s]
  BY <1>1, <1>2 DEF Answers, Idle
<1>4. /\ row.by = r /\ row.status = "pending" /\ row.address = request[r].address
  OBVIOUS
<1> HIDE DEF row
<1>5. \A i \in DOMAIN pools : pools[i].by # r
  BY <1>1 DEF ApplicationInv, ApplicationsMet
<1>6. CASE UNCHANGED pools
  BY <1>1, <1>3, <1>5, <1>6 DEF ApplicationInv, ApplicationsMet, TwiceOnlyByOverlap
<1>7. CASE pools' = Append(pools, row)
  <2>1. /\ Len(pools) \in Nat /\ DOMAIN pools = 1..Len(pools)
        /\ DOMAIN pools' = 1..(Len(pools) + 1)
        /\ \A i \in 1..Len(pools) : pools'[i] = pools[i]
        /\ pools'[Len(pools) + 1] = row
    BY <1>2, <1>7
  <2>2. \A i \in DOMAIN pools' : \/ i \in DOMAIN pools /\ pools'[i] = pools[i]
                                 \/ i = Len(pools) + 1 /\ pools'[i] = row
    <3>1. \A i \in 1..(Len(pools) + 1) : i \in 1..Len(pools) \/ i = Len(pools) + 1
      BY <2>1
    <3>2. QED BY <2>1, <3>1
  <2>3. \A a, b : {a, b} = {b, a}
    OBVIOUS
  <2>4. \A i \in DOMAIN pools : pools[i].by \in Applicant /\ pools[i].address = row.address
          => {r, pools[i].by} \in overlaps /\ {pools[i].by, r} \in overlaps
    BY <1>1, <1>4, <2>3 DEF ApplicationInv, ApplicationsMet
  <2>5. \A s \in Applicant \ {r} :
          request[s].pc = "write" /\ request[s].address = row.address => {s, r} \in overlaps
    BY <1>1, <1>4 DEF ApplicationInv, ApplicationsMet
  <2>6. ApplicationsMet'
    BY <1>1, <1>3, <1>4, <1>5, <2>2, <2>5 DEF ApplicationInv, ApplicationsMet
  <2>7. TwiceOnlyByOverlap'
    BY <1>1, <1>4, <2>2, <2>4 DEF ApplicationInv, TwiceOnlyByOverlap
  <2>8. QED BY <2>6, <2>7
<1>8. QED BY <1>1, <1>6, <1>7

LEMMA ApplicationsStay == ApplicationInv /\ [Next]_vars => ApplicationInv'
<1> SUFFICES ASSUME ApplicationInv, [Next]_vars PROVE ApplicationInv'
  OBVIOUS
<1>1. RegistryInv'
  BY RegistryStays DEF ApplicationInv
<1>2. CASE RegistryNext
  BY <1>1, <1>2, AdministratorsKeepApplications, ApplyingMeetsOthers, RegisteringMeetsOthers
     DEF RegistryNext, RegistryStep, ApplicationInv
<1>3. CASE UNCHANGED registry
  BY <1>1, <1>3 DEF registry, ApplicationInv, ApplicationsMet, TwiceOnlyByOverlap
<1>4. QED BY <1>2, <1>3 DEF Next, vars, Others

(* The check of an application against active and pending pools turns away
   everyone but those who overlap. *)
THEOREM LaterApplicantsTurnedAway == Spec => []TwiceOnlyByOverlap
<1>1. ApplicationInv => TwiceOnlyByOverlap BY DEF ApplicationInv
<1>2. QED BY ApplicationsStart, ApplicationsStay, <1>1, PTL DEF Spec

-----------------------------------------------------------------------------
(* The supply.  No row and no first look is later than the clock, the number
   of a row is from after the first look of the request that made it, and an
   answer's number is recent for the request it answers. *)
SupplyRow == [source : {"none", "gettxoutsetinfo", "deterministic"},
              computedAt : Int, until : Int, made : Int]

AskType == [pc : {"idle", "ask", "wait", "scan", "fallback", "answered", "failed"},
            now : Int, since : Int, made : Int, stale : BOOLEAN,
            source : {"none", "gettxoutsetinfo", "deterministic"}]

SupplyType ==
  /\ time \in Int /\ supply \in SupplyRow
  /\ asking \in [Asking -> AskType]

RowInStep == supply.computedAt <= supply.made /\ supply.made <= time

RequestsInStep == \A q \in Asking : asking[q].now <= time

ScanIsHeld ==
  scanning # Nobody => scanning \in Asking /\ asking[scanning].pc \in {"scan", "fallback"}

SupplyInv == SupplyType /\ RowInStep /\ RequestsInStep /\ ScanIsHeld /\ SupplyIsRecent

LEMMA SupplyStarts == Init => SupplyInv
<1> SUFFICES ASSUME Init PROVE SupplyInv
  OBVIOUS
<1>1. /\ time = 0 /\ supply = NoRow /\ scanning = Nobody
      /\ asking = [q \in Asking |-> NewAsk]
  BY DEF Init, SupplyInit
<1>2. NoRow \in SupplyRow /\ NewAsk \in AskType
  BY DEF NoRow, NewAsk, SupplyRow, AskType
<1>3. SupplyType
  BY <1>1, <1>2 DEF SupplyType
<1>4. RowInStep
  BY <1>1 DEF RowInStep, NoRow
<1>5. \A q \in Asking : asking[q].now = 0 /\ asking[q].pc = "idle"
  BY <1>1 DEF NewAsk
<1>6. QED BY <1>1, <1>3, <1>4, <1>5 DEF SupplyInv, RequestsInStep, ScanIsHeld, SupplyIsRecent

(* A step of one request: what it writes about itself is enough to look at. *)
LEMMA StepOfAsking ==
  ASSUME SupplyInv, NEW q \in Asking, NEW new \in AskType,
         asking' = [asking EXCEPT ![q] = new],
         time' = time, supply' \in SupplyRow, RowInStep',
         new.now <= time,
         new.pc = "answered" => new.made > new.now - SupplyTTL,
         \/ scanning' = Nobody
         \/ scanning' = q /\ new.pc \in {"scan", "fallback"}
         \/ scanning' = scanning /\ scanning # q
  PROVE  SupplyInv'
<1>1. asking' \in [Asking -> AskType]
  BY DEF SupplyInv, SupplyType
<1>2. SupplyType'
  BY <1>1 DEF SupplyInv, SupplyType
<1>3. asking'[q] = new /\ \A o \in Asking \ {q} : asking'[o] = asking[o]
  BY DEF SupplyInv, SupplyType
<1>4. RequestsInStep'
  BY <1>3 DEF SupplyInv, RequestsInStep
<1>5. ScanIsHeld'
  <2>1. ASSUME scanning' # Nobody
        PROVE  scanning' \in Asking /\ asking'[scanning'].pc \in {"scan", "fallback"}
    <3>1. CASE scanning' = q /\ new.pc \in {"scan", "fallback"}
      BY <1>3, <3>1
    <3>2. CASE scanning' = scanning /\ scanning # q
      BY <1>3, <2>1, <3>2 DEF SupplyInv, ScanIsHeld
    <3>3. QED BY <2>1, <3>1, <3>2
  <2>2. QED BY <2>1 DEF ScanIsHeld
<1>6. SupplyIsRecent'
  BY <1>3 DEF SupplyInv, SupplyIsRecent
<1>7. QED BY <1>2, <1>4, <1>5, <1>6 DEF SupplyInv

(* An answer from the row is as recent as the row is fresh. *)
LEMMA AnswerFromRow ==
  ASSUME SupplyInv, NEW q \in Asking, NEW now \in Int, now <= time,
         asking[q].pc \notin {"scan", "fallback"},
         Fresh(now), FromCache(q, now), UNCHANGED <<time, supply, scanning>>
  PROVE  SupplyInv'
<1> DEFINE new == [asking[q] EXCEPT !.pc = "answered", !.now = now, !.source = supply.source,
                                    !.made = supply.made, !.stale = FALSE]
<1>1. asking[q] \in AskType /\ supply \in SupplyRow
  BY DEF SupplyInv, SupplyType
<1>2. new \in AskType
  BY <1>1 DEF AskType, SupplyRow
<1>3. new.pc = "answered" /\ new.now = now /\ new.made = supply.made
  BY <1>1 DEF AskType
<1>4. asking' = [asking EXCEPT ![q] = new]
  BY DEF FromCache
<1>5. now - supply.computedAt < SupplyTTL /\ supply.computedAt <= supply.made
  BY DEF Fresh, SupplyInv, RowInStep
<1>6. supply.made > now - SupplyTTL
  <2>1. supply.computedAt \in Int /\ supply.made \in Int /\ SupplyTTL \in Int
    BY <1>1, SupplyCacheAssumption DEF SupplyRow
  <2>2. QED BY <1>5, <2>1
<1>7. scanning' = Nobody \/ (scanning' = scanning /\ scanning # q)
  BY DEF SupplyInv, ScanIsHeld
<1>8. RowInStep'
  BY DEF SupplyInv, RowInStep
<1> HIDE DEF new
<1>9. QED BY <1>1, <1>2, <1>3, <1>4, <1>6, <1>7, <1>8, StepOfAsking

(* A number that was just made is recent, and its row is from after the first
   look. *)
LEMMA AnswerIsMade ==
  ASSUME SupplyInv, NEW q \in Asking, NEW life \in Int,
         NEW source \in {"gettxoutsetinfo", "deterministic"},
         Keep(q, source, life), Done(q, source), time' = time
  PROVE  SupplyInv'
<1> DEFINE new == [asking[q] EXCEPT !.pc = "answered", !.source = source, !.made = time,
                                    !.stale = (source = "deterministic")]
<1>1. asking[q] \in AskType /\ time \in Int /\ asking[q].now \in Int /\ asking[q].now <= time
  BY DEF SupplyInv, SupplyType, RequestsInStep, AskType
<1>2. new \in AskType
  BY <1>1 DEF AskType
<1>3. new.pc = "answered" /\ new.now = asking[q].now /\ new.made = time
  BY <1>1 DEF AskType
<1>4. asking' = [asking EXCEPT ![q] = new] /\ scanning' = Nobody
  BY DEF Done
<1>5. time > asking[q].now - SupplyTTL
  BY <1>1, SupplyCacheAssumption
<1>6. supply' = [source |-> source, computedAt |-> asking[q].now, until |-> time + life,
                 made |-> time]
  BY DEF Keep
<1>7. supply' \in SupplyRow
  <2>1. time + life \in Int
    BY <1>1
  <2>2. QED BY <1>1, <1>6, <2>1 DEF SupplyRow
<1>8. RowInStep'
  BY <1>1, <1>6 DEF RowInStep
<1> HIDE DEF new
<1>9. QED BY <1>1, <1>2, <1>3, <1>4, <1>5, <1>7, <1>8, StepOfAsking

LEMMA SupplyStays == SupplyInv /\ [Next]_vars => SupplyInv'
<1> SUFFICES ASSUME SupplyInv, [Next]_vars PROVE SupplyInv'
  OBVIOUS
<1>1. CASE TimeGoesOn
  <2>1. time \in Int /\ time' = time + 1 /\ UNCHANGED <<supply, scanning, asking>>
    BY <1>1 DEF TimeGoesOn, SupplyInv, SupplyType
  <2>2. SupplyType'
    BY <2>1 DEF SupplyInv, SupplyType
  <2>3. RowInStep'
    BY <2>1 DEF SupplyInv, SupplyType, SupplyRow, RowInStep
  <2>4. RequestsInStep'
    BY <2>1 DEF SupplyInv, SupplyType, AskType, RequestsInStep
  <2>5. QED BY <2>1, <2>2, <2>3, <2>4 DEF SupplyInv, ScanIsHeld, SupplyIsRecent
<1>2. ASSUME NEW q \in Asking, AskSupply(q) \/ SupplyStep(q)
      PROVE  SupplyInv'
  <2>1. /\ asking[q] \in AskType /\ time \in Int /\ asking[q].now \in Int
        /\ asking[q].now <= time /\ supply \in SupplyRow /\ RowInStep
    BY DEF SupplyInv, SupplyType, RequestsInStep, AskType
  <2>2. asking[q].pc \notin {"scan", "fallback"} => scanning = Nobody \/ scanning # q
    BY DEF SupplyInv, ScanIsHeld
  <2>3. ASSUME NEW new \in AskType, asking' = [asking EXCEPT ![q] = new],
               UNCHANGED <<time, supply>>, new.now <= time, new.pc # "answered",
               \/ scanning' = Nobody
               \/ scanning' = q /\ new.pc \in {"scan", "fallback"}
               \/ scanning' = scanning /\ scanning # q
        PROVE  SupplyInv'
    <3>1. RowInStep'
      BY <2>1, <2>3 DEF RowInStep
    <3>2. QED BY <2>1, <2>3, <3>1, StepOfAsking
  <2>4. CASE AskSupply(q)
    <3> DEFINE new == [asking[q] EXCEPT !.pc = "ask"]
    <3>1. new \in AskType /\ new.pc = "ask" /\ new.now = asking[q].now
      BY <2>1 DEF AskType
    <3>2. asking' = [asking EXCEPT ![q] = new] /\ UNCHANGED <<time, supply, scanning>>
      BY <2>4 DEF AskSupply
    <3>3. scanning = Nobody \/ scanning # q
      BY <2>2, <2>4 DEF AskSupply
    <3> HIDE DEF new
    <3>4. QED BY <2>1, <2>3, <3>1, <3>2, <3>3
  <2>5. CASE FirstLook(q)
    <3>1. CASE Fresh(time)
      BY <2>1, <2>5, <3>1, AnswerFromRow DEF FirstLook
    <3>2. CASE ~Fresh(time)
      <4> DEFINE new == [asking[q] EXCEPT !.pc = "wait", !.now = time]
      <4>1. new \in AskType /\ new.pc = "wait" /\ new.now = time
        BY <2>1 DEF AskType
      <4>4. time <= time
        BY <2>1
      <4>2. asking' = [asking EXCEPT ![q] = new] /\ UNCHANGED <<time, supply, scanning>>
        BY <2>5, <3>2 DEF FirstLook
      <4>3. scanning = Nobody \/ scanning # q
        BY <2>2, <2>5 DEF FirstLook
      <4> HIDE DEF new
      <4>5. new.now <= time
        BY <4>1, <4>4
      <4>6. QED BY <2>1, <2>3, <4>1, <4>2, <4>3, <4>5
    <3>3. QED BY <3>1, <3>2
  <2>6. CASE SecondLook(q)
    <3>1. CASE Fresh(asking[q].now)
      BY <2>1, <2>6, <3>1, AnswerFromRow DEF SecondLook
    <3>2. CASE ~Fresh(asking[q].now)
      <4> DEFINE new == [asking[q] EXCEPT !.pc = "scan", !.since = time]
      <4>1. new \in AskType /\ new.pc = "scan" /\ new.now = asking[q].now
        BY <2>1 DEF AskType
      <4>2. asking' = [asking EXCEPT ![q] = new] /\ UNCHANGED <<time, supply>> /\ scanning' = q
        BY <2>6, <3>2 DEF SecondLook
      <4> HIDE DEF new
      <4>3. QED BY <2>1, <2>3, <4>1, <4>2
    <3>3. QED BY <3>1, <3>2
  <2>7. CASE Scanned(q)
    <3>1. 4 * SupplyTTL \in Int
      BY SupplyCacheAssumption
    <3>2. QED BY <2>7, <3>1, AnswerIsMade DEF Scanned
  <2>8. CASE ScanFails(q)
    <3> DEFINE new == [asking[q] EXCEPT !.pc = "fallback"]
    <3>1. new \in AskType /\ new.pc = "fallback" /\ new.now = asking[q].now
      BY <2>1 DEF AskType
    <3>2. asking' = [asking EXCEPT ![q] = new] /\ UNCHANGED <<time, supply, scanning>>
      BY <2>8 DEF ScanFails
    <3>3. \/ scanning' = q /\ new.pc \in {"scan", "fallback"}
          \/ scanning' = scanning /\ scanning # q
      BY <3>1, <3>2
    <3> HIDE DEF new
    <3>4. QED BY <2>1, <2>3, <3>1, <3>2, <3>3
  <2>9. CASE Fallback(q)
    <3>1. FallbackLife \in Int
      BY SupplyCacheAssumption
    <3>2. QED BY <2>9, <3>1, AnswerIsMade DEF Fallback
  <2>10. CASE FallbackFails(q)
    <3> DEFINE new == [asking[q] EXCEPT !.pc = "failed"]
    <3>1. new \in AskType /\ new.pc = "failed" /\ new.now = asking[q].now
      BY <2>1 DEF AskType
    <3>2. /\ asking' = [asking EXCEPT ![q] = new] /\ UNCHANGED <<time, supply>>
          /\ scanning' = Nobody
      BY <2>10 DEF FallbackFails
    <3> HIDE DEF new
    <3>3. QED BY <2>1, <2>3, <3>1, <3>2
  <2>11. QED BY <1>2, <2>4, <2>5, <2>6, <2>7, <2>8, <2>9, <2>10 DEF SupplyStep
<1>3. CASE UNCHANGED supplies
  BY <1>3 DEF supplies, SupplyInv, SupplyType, RowInStep, RequestsInStep, ScanIsHeld,
              SupplyIsRecent
<1>4. QED BY <1>1, <1>2, <1>3 DEF Next, vars, Others, SupplyNext

(* However long a request waits for the lock behind another's scan, the supply
   it is told is from less than the cache's life before its first look. *)
THEOREM SupplyStaysRecent == Spec => []SupplyIsRecent
<1>1. SupplyInv => SupplyIsRecent BY DEF SupplyInv
<1>2. QED BY SupplyStarts, SupplyStays, <1>1, PTL DEF Spec

-----------------------------------------------------------------------------
(* The rate limiter.  As long as the row of a minute has not run out it counts
   everyone who raised it, so whoever reads n back is one of at most n; and no
   count is larger than the number of those who came. *)
Past(m)    == {v \in Visit : visit[v].minute = m /\ visit[v].pc \notin {"idle", "raise"}}
Raised(m)  == {v \in Visit : /\ visit[v].minute = m
                             /\ visit[v].pc \in {"read", "expire", "decide", "counted", "refused"}}
ReadUpTo(m, n) ==
  {v \in Visit : /\ visit[v].minute = m /\ visit[v].count <= n
                 /\ visit[v].pc \in {"expire", "decide", "counted", "refused"}}

VisitType ==
  [pc : {"idle", "raise", "read", "expire", "decide", "counted", "refused", "uncounted"},
   minute : Minutes, count : Nat]

LimiterType ==
  /\ minute \in Minutes /\ lapsed \subseteq Minutes
  /\ counter \in [Minutes -> [count : Nat, life : {"none", "forever", "timed", "over"}]]
  /\ visit \in [Visit -> VisitType]

LivesInStep == \A m \in Minutes : /\ counter[m].life = "none" => counter[m].count = 0
                                  /\ counter[m].life = "over" => m \in lapsed

RaisedAreCounted == \A m \in Minutes \ lapsed : Cardinality(Raised(m)) <= counter[m].count

FewReadLittle ==
  \A m \in Minutes \ lapsed : \A n \in Nat : Cardinality(ReadUpTo(m, n)) <= n

CountsWereRaised == \A m \in Minutes : counter[m].count <= Cardinality(Past(m))

ReadsWereCounts ==
  \A v \in Visit : visit[v].count <= Cardinality(Came(visit[v].minute))

DecidedByCount ==
  \A v \in Visit : /\ visit[v].pc = "idle" => visit[v].count = 0
                   /\ visit[v].pc = "counted" => visit[v].count <= Limit
                   /\ visit[v].pc = "refused" => visit[v].count > Limit

LimiterInv ==
  /\ LimiterType /\ LivesInStep /\ RaisedAreCounted /\ FewReadLittle
  /\ CountsWereRaised /\ ReadsWereCounts /\ DecidedByCount

LEMMA SetsOfVisits ==
  ASSUME NEW S \in SUBSET Visit
  PROVE  /\ IsFiniteSet(S) /\ Cardinality(S) \in Nat
         /\ \A T \in SUBSET S : Cardinality(T) \in Nat /\ Cardinality(T) <= Cardinality(S)
         /\ \A v \in Visit : v \notin S => Cardinality(S \cup {v}) = Cardinality(S) + 1
<1>1. IsFiniteSet(S)
  BY RateLimitAssumption, FS_Subset
<1>2. Cardinality(S) \in Nat
  BY <1>1, FS_CardinalityType
<1>3. ASSUME NEW T \in SUBSET S
      PROVE  Cardinality(T) \in Nat /\ Cardinality(T) <= Cardinality(S)
  <2>1. IsFiniteSet(T) /\ Cardinality(T) <= Cardinality(S)
    BY <1>1, FS_Subset
  <2>2. QED BY <2>1, FS_CardinalityType
<1>4. ASSUME NEW v \in Visit, v \notin S
      PROVE  Cardinality(S \cup {v}) = Cardinality(S) + 1
  BY <1>1, <1>4, FS_AddElement
<1>5. QED BY <1>1, <1>2, <1>3, <1>4

LEMMA LimitFollows == LimiterInv => LimitIsKept
<1> SUFFICES ASSUME LimiterInv, NEW m \in Minutes
             PROVE  /\ m \notin lapsed => Cardinality(Counted(m)) <= Limit
                    /\ (\E v \in Came(m) : visit[v].pc = "refused") => Cardinality(Came(m)) > Limit
  BY DEF LimitIsKept
<1>1. ASSUME m \notin lapsed PROVE Cardinality(Counted(m)) <= Limit
  <2>1. Counted(m) \subseteq ReadUpTo(m, Limit)
    BY DEF Counted, ReadUpTo, LimiterInv, DecidedByCount
  <2>2. Cardinality(ReadUpTo(m, Limit)) <= Limit
    BY <1>1, RateLimitAssumption DEF LimiterInv, FewReadLittle
  <2>3. ReadUpTo(m, Limit) \in SUBSET Visit
    BY DEF ReadUpTo
  <2>4. /\ Cardinality(Counted(m)) \in Nat /\ Cardinality(ReadUpTo(m, Limit)) \in Nat
        /\ Cardinality(Counted(m)) <= Cardinality(ReadUpTo(m, Limit))
    BY <2>1, <2>3, SetsOfVisits
  <2>5. QED BY <2>2, <2>4, RateLimitAssumption
<1>2. ASSUME NEW v \in Came(m), visit[v].pc = "refused"
      PROVE  Cardinality(Came(m)) > Limit
  <2>1. v \in Visit /\ visit[v].minute = m /\ visit[v].count \in Nat
    BY DEF Came, LimiterInv, LimiterType, VisitType
  <2>2. visit[v].count > Limit /\ visit[v].count <= Cardinality(Came(m))
    BY <1>2, <2>1 DEF LimiterInv, DecidedByCount, ReadsWereCounts
  <2>3. Came(m) \in SUBSET Visit
    BY DEF Came
  <2>4. Cardinality(Came(m)) \in Nat
    BY <2>3, SetsOfVisits
  <2>5. QED BY <2>1, <2>2, <2>4, RateLimitAssumption
<1>3. QED BY <1>1, <1>2

LEMMA LimiterStarts == Init => LimiterInv
<1> SUFFICES ASSUME Init PROVE LimiterInv
  OBVIOUS
<1>1. /\ minute = 0 /\ lapsed = {}
      /\ counter = [m \in Minutes |-> [count |-> 0, life |-> "none"]]
      /\ visit = [v \in Visit |-> NewVisit]
  BY DEF Init, LimiterInit
<1>2. 0 \in Minutes
  BY RateLimitAssumption DEF Minutes
<1>3. LimiterType
  <2>1. NewVisit \in VisitType
    BY <1>2 DEF NewVisit, VisitType
  <2>2. [count |-> 0, life |-> "none"] \in [count : Nat, life : {"none", "forever", "timed", "over"}]
    OBVIOUS
  <2>3. QED BY <1>1, <1>2, <2>1, <2>2 DEF LimiterType
<1>4. \A v \in Visit : visit[v].pc = "idle" /\ visit[v].count = 0
  BY <1>1 DEF NewVisit
<1>5. \A m \in Minutes : counter[m].count = 0 /\ counter[m].life = "none"
  BY <1>1
<1>6. LivesInStep
  BY <1>5 DEF LivesInStep
<1>7. Cardinality({}) = 0
  BY FS_EmptySet
<1>8. RaisedAreCounted
  <2>1. \A m \in Minutes : Raised(m) = {}
    BY <1>4 DEF Raised
  <2>2. QED BY <1>5, <1>7, <2>1 DEF RaisedAreCounted
<1>9. FewReadLittle
  <2>1. \A m \in Minutes, n \in Nat : ReadUpTo(m, n) = {}
    BY <1>4 DEF ReadUpTo
  <2>2. \A n \in Nat : 0 <= n
    OBVIOUS
  <2>3. QED BY <1>7, <2>1, <2>2 DEF FewReadLittle
<1>10. CountsWereRaised
  <2>1. ASSUME NEW m \in Minutes PROVE 0 <= Cardinality(Past(m))
    <3>1. Past(m) \in SUBSET Visit
      BY DEF Past
    <3>2. QED BY <3>1, SetsOfVisits
  <2>2. QED BY <1>5, <2>1 DEF CountsWereRaised
<1>11. ReadsWereCounts
  <2>1. ASSUME NEW v \in Visit PROVE 0 <= Cardinality(Came(visit[v].minute))
    <3>1. Came(visit[v].minute) \in SUBSET Visit
      BY DEF Came
    <3>2. QED BY <3>1, SetsOfVisits
  <2>2. QED BY <1>4, <2>1 DEF ReadsWereCounts
<1>12. DecidedByCount
  BY <1>4 DEF DecidedByCount
<1>13. QED BY <1>3, <1>6, <1>8, <1>9, <1>10, <1>11, <1>12 DEF LimiterInv

(* What a step of one visit does to the sets. *)
VisitStep(v, new) ==
  /\ visit' = [visit EXCEPT ![v] = new]
  /\ new.pc # "idle"
  /\ new.pc = "raise" => visit[v].pc = "idle"
  /\ visit[v].pc = "idle" \/ new.minute = visit[v].minute

LEMMA VisitMoves ==
  ASSUME LimiterInv, NEW v \in Visit, NEW new \in VisitType, VisitStep(v, new)
  PROVE  /\ visit' \in [Visit -> VisitType]
         /\ visit'[v] = new /\ \A w \in Visit \ {v} : visit'[w] = visit[w]
         /\ \A m \in Minutes : /\ Came(m) \subseteq Came(m)'
                               /\ Past(m) \subseteq Past(m)'
         /\ v \in Came(new.minute)'
<1>1. visit \in [Visit -> VisitType]
  BY DEF LimiterInv, LimiterType
<1>2. /\ visit' \in [Visit -> VisitType] /\ visit'[v] = new
      /\ \A w \in Visit \ {v} : visit'[w] = visit[w]
  BY <1>1 DEF VisitStep
<1>3. \A m \in Minutes : Came(m) \subseteq Came(m)'
  BY <1>2 DEF Came, VisitStep
<1>4. \A m \in Minutes : Past(m) \subseteq Past(m)'
  BY <1>2 DEF Past, VisitStep
<1>5. v \in Came(new.minute)'
  BY <1>2 DEF Came, VisitStep
<1>6. QED BY <1>2, <1>3, <1>4, <1>5

(* More come, and what was read before is not more than they are. *)
LEMMA MoreCome ==
  ASSUME LimiterInv, NEW v \in Visit, NEW new \in VisitType, VisitStep(v, new),
         new.count <= Cardinality(Came(new.minute)')
  PROVE  ReadsWereCounts'
<1>1. /\ visit'[v] = new /\ \A w \in Visit \ {v} : visit'[w] = visit[w]
      /\ \A m \in Minutes : Came(m) \subseteq Came(m)'
      /\ visit \in [Visit -> VisitType]
  BY VisitMoves DEF LimiterInv, LimiterType
<1>2. ASSUME NEW w \in Visit \ {v}
      PROVE  (visit[w].count <= Cardinality(Came(visit[w].minute)))'
  <2>1. visit[w].minute \in Minutes /\ visit[w].count \in Nat
    BY <1>1 DEF VisitType
  <2>2. PICK m \in Minutes : m = visit[w].minute
    BY <2>1
  <2>3. Came(m)' \in SUBSET Visit /\ Came(m) \in SUBSET (Came(m)')
    BY <1>1 DEF Came
  <2>4. /\ Cardinality(Came(m)') \in Nat /\ Cardinality(Came(m)) \in Nat
        /\ Cardinality(Came(m)) <= Cardinality(Came(m)')
    BY <2>3, SetsOfVisits
  <2>5. visit[w].count <= Cardinality(Came(m))
    BY <2>2 DEF LimiterInv, ReadsWereCounts
  <2>6. visit[w].count <= Cardinality(Came(m)')
    BY <2>1, <2>4, <2>5
  <2>7. QED BY <1>1, <2>2, <2>6
<1>3. (visit[v].count <= Cardinality(Came(visit[v].minute)))'
  BY <1>1
<1>4. QED BY <1>2, <1>3 DEF ReadsWereCounts

(* A step that raises no count: whoever it lets in among those who read was
   there, or read a count of everyone who raised it. *)
LEMMA CountsKept ==
  ASSUME LimiterInv, NEW v \in Visit, NEW new \in VisitType, VisitStep(v, new),
         UNCHANGED <<minute, lapsed>>,
         counter' \in [Minutes -> [count : Nat, life : {"none", "forever", "timed", "over"}]],
         \A m \in Minutes : counter'[m].count = counter[m].count,
         LivesInStep',
         new.pc \in {"read", "expire", "decide", "counted", "refused"} =>
           visit[v].pc \in {"read", "expire", "decide", "counted", "refused"},
         new.pc \in {"expire", "decide", "counted", "refused"} /\ new.minute \notin lapsed =>
           \/ visit[v].pc \in {"expire", "decide", "counted", "refused"}
              /\ new.count = visit[v].count
           \/ Cardinality(Raised(new.minute)) <= new.count,
         new.count <= Cardinality(Came(new.minute)'),
         new.pc = "counted" => new.count <= Limit,
         new.pc = "refused" => new.count > Limit
  PROVE  LimiterInv'
<1>1. /\ visit' \in [Visit -> VisitType]
      /\ visit'[v] = new /\ \A w \in Visit \ {v} : visit'[w] = visit[w]
      /\ \A m \in Minutes : Past(m) \subseteq Past(m)'
  BY VisitMoves
<1>2. /\ visit \in [Visit -> VisitType] /\ new.minute \in Minutes /\ new.count \in Nat
      /\ visit[v].pc # "idle" => new.minute = visit[v].minute
  BY DEF LimiterInv, LimiterType, VisitType, VisitStep
<1>3. LimiterType'
  BY <1>1 DEF LimiterInv, LimiterType
<1>4. \A m \in Minutes : Raised(m)' \subseteq Raised(m)
  BY <1>1, <1>2 DEF Raised
<1>5. RaisedAreCounted'
  <2>1. ASSUME NEW m \in Minutes \ lapsed
        PROVE  Cardinality(Raised(m)') <= counter'[m].count
    <3>1. Raised(m) \in SUBSET Visit /\ Raised(m)' \in SUBSET Raised(m)
      BY <1>4 DEF Raised
    <3>2. /\ Cardinality(Raised(m)') \in Nat /\ Cardinality(Raised(m)) \in Nat
          /\ Cardinality(Raised(m)') <= Cardinality(Raised(m))
      BY <3>1, SetsOfVisits
    <3>3. /\ Cardinality(Raised(m)) <= counter[m].count /\ counter[m].count \in Nat
          /\ counter'[m].count = counter[m].count
      BY DEF LimiterInv, RaisedAreCounted, LimiterType
    <3>4. QED BY <3>2, <3>3
  <2>2. QED BY <2>1 DEF RaisedAreCounted
<1>6. FewReadLittle'
  <2>1. ASSUME NEW m \in Minutes \ lapsed, NEW n \in Nat
        PROVE  Cardinality(ReadUpTo(m, n)') <= n
    <3>1. ReadUpTo(m, n) \in SUBSET Visit /\ Cardinality(ReadUpTo(m, n)) <= n
      BY DEF ReadUpTo, LimiterInv, FewReadLittle
    <3>2. CASE ReadUpTo(m, n)' \subseteq ReadUpTo(m, n)
      <4>1. /\ Cardinality(ReadUpTo(m, n)') \in Nat /\ Cardinality(ReadUpTo(m, n)) \in Nat
            /\ Cardinality(ReadUpTo(m, n)') <= Cardinality(ReadUpTo(m, n))
        BY <3>1, <3>2, SetsOfVisits
      <4>2. QED BY <3>1, <4>1
    <3>3. CASE v \in ReadUpTo(m, n)' /\ v \notin ReadUpTo(m, n)
      <4>1. /\ new.minute = m /\ new.count <= n
            /\ new.pc \in {"expire", "decide", "counted", "refused"}
        BY <1>1, <3>3 DEF ReadUpTo
      <4>2. ~ (/\ visit[v].pc \in {"expire", "decide", "counted", "refused"}
               /\ new.count = visit[v].count)
        BY <1>2, <3>3, <4>1 DEF ReadUpTo
      <4>3. Cardinality(Raised(m)) <= new.count
        BY <4>1, <4>2
      <4>4. ReadUpTo(m, n)' \subseteq Raised(m)'
        BY DEF ReadUpTo, Raised
      <4>5. Raised(m) \in SUBSET Visit /\ ReadUpTo(m, n)' \in SUBSET Raised(m)
        BY <1>4, <4>4 DEF Raised
      <4>6. /\ Cardinality(ReadUpTo(m, n)') \in Nat /\ Cardinality(Raised(m)) \in Nat
            /\ Cardinality(ReadUpTo(m, n)') <= Cardinality(Raised(m))
        BY <4>5, SetsOfVisits
      <4>7. QED BY <1>2, <4>1, <4>3, <4>6
    <3>4. ASSUME NEW w \in ReadUpTo(m, n)', w # v
          PROVE  w \in ReadUpTo(m, n)
      BY <1>1, <3>4 DEF ReadUpTo
    <3>5. QED BY <3>2, <3>3, <3>4
  <2>2. QED BY <2>1 DEF FewReadLittle
<1>7. CountsWereRaised'
  <2>1. ASSUME NEW m \in Minutes PROVE counter'[m].count <= Cardinality(Past(m)')
    <3>1. Past(m)' \in SUBSET Visit /\ Past(m) \in SUBSET (Past(m)')
      BY <1>1 DEF Past
    <3>2. /\ Cardinality(Past(m)') \in Nat /\ Cardinality(Past(m)) \in Nat
          /\ Cardinality(Past(m)) <= Cardinality(Past(m)')
      BY <3>1, SetsOfVisits
    <3>3. /\ counter[m].count <= Cardinality(Past(m)) /\ counter[m].count \in Nat
          /\ counter'[m].count = counter[m].count
      BY DEF LimiterInv, CountsWereRaised, LimiterType
    <3>4. QED BY <3>2, <3>3
  <2>2. QED BY <2>1 DEF CountsWereRaised
<1>8. ReadsWereCounts'
  BY MoreCome
<1>9. DecidedByCount'
  BY <1>1 DEF LimiterInv, DecidedByCount, VisitStep
<1>10. QED BY <1>3, <1>5, <1>6, <1>7, <1>8, <1>9 DEF LimiterInv

(* Some visit is in Came as soon as its minute is the one it came in. *)
LEMMA OneCame ==
  ASSUME LimiterInv, NEW v \in Visit, NEW new \in VisitType, VisitStep(v, new)
  PROVE  /\ Cardinality(Came(new.minute)') \in Nat /\ Cardinality(Came(new.minute)') >= 1
         /\ visit[v].pc # "idle" => visit[v].count <= Cardinality(Came(new.minute)')
<1>1. v \in Came(new.minute)' /\ Came(new.minute)' \in SUBSET Visit
  BY VisitMoves DEF Came
<1>2. Cardinality(Came(new.minute)') \in Nat
  BY <1>1, SetsOfVisits
<1>3. Cardinality({v}) = 1 /\ IsFiniteSet({v})
  <2>1. Cardinality({} \cup {v}) = 0 + 1
    BY FS_EmptySet, FS_AddElement
  <2>2. {} \cup {v} = {v}
    OBVIOUS
  <2>3. {v} \in SUBSET Visit
    OBVIOUS
  <2>4. QED BY <2>1, <2>2, <2>3, SetsOfVisits
<1>4. Cardinality({v}) <= Cardinality(Came(new.minute)')
  BY <1>1, SetsOfVisits
<1>5. ASSUME visit[v].pc # "idle"
      PROVE  visit[v].count <= Cardinality(Came(new.minute)')
  <2>1. new.minute = visit[v].minute /\ new.minute \in Minutes /\ visit[v].count \in Nat
    BY <1>5 DEF VisitStep, VisitType, LimiterInv, LimiterType
  <2>2. visit[v].count <= Cardinality(Came(new.minute))
    BY <2>1 DEF LimiterInv, ReadsWereCounts
  <2>3. Came(new.minute) \in SUBSET (Came(new.minute)')
    BY <2>1, VisitMoves
  <2>4. /\ Cardinality(Came(new.minute)) \in Nat
        /\ Cardinality(Came(new.minute)) <= Cardinality(Came(new.minute)')
    BY <1>1, <2>3, SetsOfVisits
  <2>5. QED BY <1>2, <2>1, <2>2, <2>4
<1>6. QED BY <1>2, <1>3, <1>4, <1>5

(* Raising a count. *)
LEMMA RaisingStep ==
  ASSUME LimiterInv, NEW v \in Visit, Raise(v)
  PROVE  LimiterInv'
<1> DEFINE Lives == {"none", "forever", "timed", "over"}
<1>1. /\ visit \in [Visit -> VisitType] /\ visit[v] \in VisitType
      /\ counter \in [Minutes -> [count : Nat, life : Lives]] /\ visit[v].pc = "raise"
  BY DEF LimiterInv, LimiterType, Raise
<1>2. PICK new \in VisitType : /\ new = [visit[v] EXCEPT !.pc = "read"]
                             /\ new.pc = "read" /\ new.minute = visit[v].minute
                             /\ new.count = visit[v].count
  <2>1. [visit[v] EXCEPT !.pc = "read"] \in VisitType
    BY <1>1 DEF VisitType
  <2>2. QED BY <1>1, <2>1 DEF VisitType
<1>3. /\ visit' = [visit EXCEPT ![v] = new] /\ minute' = minute /\ lapsed' = lapsed
  BY <1>2 DEF Raise
<1>4. VisitStep(v, new)
  BY <1>1, <1>2, <1>3 DEF VisitStep
<1>5. /\ visit' \in [Visit -> VisitType]
      /\ visit'[v] = new /\ \A w \in Visit \ {v} : visit'[w] = visit[w]
      /\ \A k \in Minutes : Past(k) \subseteq Past(k)'
  BY <1>2, <1>4, VisitMoves
<1>6. PICK m \in Minutes : m = visit[v].minute
  BY <1>1 DEF VisitType
<1> DEFINE row == CASE counter[m].life = "none" -> [count |-> 1, life |-> "forever"]
                    [] counter[m].life = "over" -> counter[m]
                    [] OTHER -> [count |-> counter[m].count + 1, life |-> counter[m].life]
<1>7. counter' = [counter EXCEPT ![m] = row]
  BY <1>6 DEF Raise
<1>8. /\ counter[m].count \in Nat /\ counter[m].life \in Lives
      /\ counter[m].life = "none" => counter[m].count = 0
      /\ counter[m].life = "over" => m \in lapsed
  BY <1>1 DEF LimiterInv, LivesInStep
<1>9. /\ counter' \in [Minutes -> [count : Nat, life : Lives]]
      /\ \A k \in Minutes \ {m} : counter'[k] = counter[k]
      /\ counter[m].life # "over" => /\ counter'[m].count = counter[m].count + 1
                                     /\ counter'[m].life \notin {"none", "over"}
      /\ counter[m].life = "over" => counter'[m] = counter[m]
  <2>1. CASE counter[m].life = "none"
    <3>1. row = [count |-> 1, life |-> "forever"]
      BY <2>1
    <3>2. row \in [count : Nat, life : Lives] /\ row.count = 1 /\ row.life = "forever"
      BY <3>1
    <3> HIDE DEF row
    <3>3. counter' \in [Minutes -> [count : Nat, life : Lives]] /\ counter'[m] = row
          /\ \A k \in Minutes \ {m} : counter'[k] = counter[k]
      BY <1>1, <1>7, <3>2
    <3>4. QED BY <1>8, <2>1, <3>2, <3>3
  <2>2. CASE counter[m].life = "over"
    <3>1. row = counter[m]
      BY <2>2
    <3> HIDE DEF row
    <3>2. counter' \in [Minutes -> [count : Nat, life : Lives]] /\ counter'[m] = row
          /\ \A k \in Minutes \ {m} : counter'[k] = counter[k]
      BY <1>1, <1>7, <3>1
    <3>3. QED BY <2>2, <3>1, <3>2
  <2>3. CASE counter[m].life # "none" /\ counter[m].life # "over"
    <3>1. row = [count |-> counter[m].count + 1, life |-> counter[m].life]
      BY <2>3
    <3>2. counter[m] \in [count : Nat, life : Lives] /\ counter[m].count + 1 \in Nat
      BY <1>1, <1>8
    <3>3. /\ row \in [count : Nat, life : Lives] /\ row.count = counter[m].count + 1
          /\ row.life = counter[m].life
      BY <3>1, <3>2
    <3> HIDE DEF row
    <3>4. counter' \in [Minutes -> [count : Nat, life : Lives]] /\ counter'[m] = row
          /\ \A k \in Minutes \ {m} : counter'[k] = counter[k]
      BY <1>1, <1>7, <3>3
    <3>5. QED BY <2>3, <3>3, <3>4
  <2>4. QED BY <2>1, <2>2, <2>3
<1>10. LimiterType'
  BY <1>3, <1>5, <1>9 DEF LimiterInv, LimiterType
<1>11. LivesInStep'
  BY <1>3, <1>8, <1>9 DEF LimiterInv, LivesInStep
<1>12. ASSUME NEW k \in Minutes \ {m}
       PROVE  Raised(k)' = Raised(k) /\ Past(k)' = Past(k)
  <2>1. visit[v].minute # k /\ visit'[v].minute # k
    BY <1>2, <1>5, <1>6
  <2>2. Raised(k)' = Raised(k)
    BY <1>5, <2>1, Zenon DEF Raised
  <2>3. Past(k)' = Past(k)
    BY <1>5, <2>1 DEF Past
  <2>4. QED BY <2>2, <2>3
<1>13. /\ Raised(m)' = Raised(m) \cup {v} /\ v \notin Raised(m)
       /\ Past(m)' = Past(m) \cup {v} /\ v \notin Past(m)
       /\ Raised(m) \in SUBSET Visit /\ Past(m) \in SUBSET Visit
  <2>1. /\ visit[v].minute = m /\ visit'[v].minute = m
        /\ visit[v].pc = "raise" /\ visit'[v].pc = "read"
    BY <1>1, <1>2, <1>5, <1>6
  <2>2. Raised(m)' = Raised(m) \cup {v} /\ v \notin Raised(m)
    BY <1>5, <2>1 DEF Raised
  <2>3. Past(m)' = Past(m) \cup {v} /\ v \notin Past(m)
    BY <1>5, <2>1 DEF Past
  <2>4. QED BY <2>2, <2>3 DEF Raised, Past
<1>14. /\ Cardinality(Raised(m)') = Cardinality(Raised(m)) + 1
       /\ Cardinality(Past(m)') = Cardinality(Past(m)) + 1
       /\ Cardinality(Raised(m)) \in Nat /\ Cardinality(Past(m)) \in Nat
  BY <1>13, SetsOfVisits
<1>15. RaisedAreCounted'
  <2>1. ASSUME NEW k \in Minutes \ lapsed
        PROVE  Cardinality(Raised(k)') <= counter'[k].count
    <3>1. Cardinality(Raised(k)) <= counter[k].count
      BY DEF LimiterInv, RaisedAreCounted
    <3>2. CASE k = m
      <4>1. counter'[m].count = counter[m].count + 1
        BY <1>8, <1>9, <3>2
      <4>2. QED BY <1>8, <1>14, <3>1, <3>2, <4>1
    <3>3. QED BY <1>9, <1>12, <3>1, <3>2
  <2>2. QED BY <1>3, <2>1 DEF RaisedAreCounted
<1>16. FewReadLittle'
  <2>1. \A k \in Minutes, n \in Nat : ReadUpTo(k, n)' = ReadUpTo(k, n)
    BY <1>1, <1>2, <1>5 DEF ReadUpTo
  <2>2. QED BY <1>3, <2>1 DEF LimiterInv, FewReadLittle
<1>17. CountsWereRaised'
  <2>1. ASSUME NEW k \in Minutes PROVE counter'[k].count <= Cardinality(Past(k)')
    <3>1. counter[k].count <= Cardinality(Past(k))
      BY DEF LimiterInv, CountsWereRaised
    <3>2. CASE k = m
      <4>1. \/ counter'[m].count = counter[m].count + 1
            \/ counter'[m].count = counter[m].count
        BY <1>9
      <4>2. QED BY <1>8, <1>14, <3>1, <3>2, <4>1
    <3>3. QED BY <1>9, <1>12, <3>1, <3>2
  <2>2. QED BY <2>1 DEF CountsWereRaised
<1>18. ReadsWereCounts'
  <2>1. new.count <= Cardinality(Came(new.minute)')
    BY <1>1, <1>2, <1>4, OneCame
  <2>2. QED BY <1>2, <1>4, <2>1, MoreCome
<1>19. DecidedByCount'
  BY <1>2, <1>5 DEF LimiterInv, DecidedByCount
<1>20. QED BY <1>10, <1>11, <1>15, <1>16, <1>17, <1>18, <1>19 DEF LimiterInv

(* Reading back what was raised: everyone who raised the row of a minute is in
   it, unless it ran out. *)
LEMMA ReadingStep ==
  ASSUME LimiterInv, NEW v \in Visit, ReadBack(v)
  PROVE  LimiterInv'
<1>1. /\ visit[v] \in VisitType /\ visit[v].pc = "read" /\ visit[v].minute \in Minutes
      /\ counter \in [Minutes -> [count : Nat, life : {"none", "forever", "timed", "over"}]]
  BY DEF LimiterInv, LimiterType, ReadBack, VisitType
<1>2. PICK m \in Minutes : m = visit[v].minute
  BY <1>1
<1>3. PICK count \in Nat : count = IF IsLive(m) THEN counter[m].count ELSE 1
  BY <1>1
<1>4. m \notin lapsed => Cardinality(Raised(m)) <= count
  <2>1. ASSUME m \notin lapsed PROVE Cardinality(Raised(m)) <= count
    <3>1. v \in Raised(m) /\ Raised(m) \in SUBSET Visit
      BY <1>1, <1>2 DEF Raised
    <3>2. Cardinality(Raised(m)) \in Nat /\ Cardinality(Raised(m)) # 0
      BY <3>1, SetsOfVisits, FS_EmptySet
    <3>3. Cardinality(Raised(m)) <= counter[m].count
      BY <1>1, <2>1 DEF LimiterInv, RaisedAreCounted
    <3>4. counter[m].count # 0
      BY <1>1, <3>2, <3>3
    <3>5. counter[m].life \in {"forever", "timed"}
      BY <1>1, <2>1, <3>4 DEF LimiterInv, LivesInStep
    <3>6. QED BY <1>3, <3>3, <3>5 DEF IsLive
  <2>2. QED BY <2>1
<1>5. PICK new \in VisitType :
        /\ new = [visit[v] EXCEPT !.pc = IF count = 1 THEN "expire" ELSE "decide", !.count = count]
        /\ new.pc \in {"expire", "decide"} /\ new.minute = m /\ new.count = count
  <2> DEFINE r == [visit[v] EXCEPT !.pc = IF count = 1 THEN "expire" ELSE "decide", !.count = count]
  <2>1. r \in VisitType /\ r.pc \in {"expire", "decide"} /\ r.minute = m /\ r.count = count
    BY <1>1, <1>2 DEF VisitType
  <2>2. QED BY <2>1
<1>6. /\ visit' = [visit EXCEPT ![v] = new] /\ UNCHANGED <<minute, counter, lapsed>>
      /\ VisitStep(v, new)
  BY <1>1, <1>2, <1>3, <1>5 DEF ReadBack, VisitStep
<1>7. count <= Cardinality(Came(new.minute)')
  <2>1. /\ Cardinality(Came(new.minute)') \in Nat /\ 1 <= Cardinality(Came(new.minute)')
    BY <1>5, <1>6, OneCame
  <2>2. Cardinality(Past(m)) <= Cardinality(Came(new.minute)') /\ Cardinality(Past(m)) \in Nat
    <3>1. Past(m) \subseteq Came(m) /\ Came(m) \subseteq Came(m)'
      BY <1>5, <1>6, VisitMoves DEF Past, Came
    <3>2. Past(m) \in SUBSET (Came(new.minute)') /\ Came(new.minute)' \in SUBSET Visit
      BY <1>5, <3>1 DEF Came
    <3>3. QED BY <3>2, SetsOfVisits
  <2>3. counter[m].count <= Cardinality(Past(m))
    BY DEF LimiterInv, CountsWereRaised
  <2>4. count = counter[m].count \/ count = 1
    BY <1>3
  <2>5. QED BY <1>1, <2>1, <2>2, <2>3, <2>4
<1>8. LivesInStep'
  BY <1>6 DEF LimiterInv, LivesInStep
<1>9. QED BY <1>1, <1>4, <1>5, <1>6, <1>7, <1>8, CountsKept

(* The steps of a visit that leave its count and the counts of the rows. *)
LEMMA OtherVisitSteps ==
  ASSUME LimiterInv, NEW v \in Visit, Visits(v) \/ SetExpiry(v) \/ StoreFails(v) \/ Decide(v)
  PROVE  LimiterInv'
<1> DEFINE Lives == {"none", "forever", "timed", "over"}
<1>1. /\ visit[v] \in VisitType /\ visit[v].minute \in Minutes /\ visit[v].count \in Nat
      /\ counter \in [Minutes -> [count : Nat, life : Lives]] /\ minute \in Minutes
      /\ LivesInStep /\ DecidedByCount
  BY DEF LimiterInv, LimiterType, VisitType
<1>2. CASE Visits(v)
  <2>1. PICK new \in VisitType : /\ new = [visit[v] EXCEPT !.pc = "raise", !.minute = minute]
                               /\ new.pc = "raise" /\ new.count = visit[v].count
    <3> DEFINE r == [visit[v] EXCEPT !.pc = "raise", !.minute = minute]
    <3>1. r \in VisitType /\ r.pc = "raise" /\ r.count = visit[v].count
      BY <1>1 DEF VisitType
    <3>2. QED BY <3>1
  <2>2. /\ visit' = [visit EXCEPT ![v] = new] /\ UNCHANGED <<minute, counter, lapsed>>
        /\ visit[v].pc = "idle"
    BY <1>2, <2>1 DEF Visits
  <2>3. VisitStep(v, new)
    BY <2>1, <2>2 DEF VisitStep
  <2>4. new.count <= Cardinality(Came(new.minute)')
    <3>1. Cardinality(Came(new.minute)') \in Nat
      BY <2>3, OneCame
    <3>2. visit[v].count = 0
      BY <1>1, <2>2 DEF DecidedByCount
    <3>3. QED BY <2>1, <3>1, <3>2
  <2>5. LivesInStep'
    BY <1>1, <2>2 DEF LivesInStep
  <2>6. QED BY <1>1, <2>1, <2>2, <2>3, <2>4, <2>5, CountsKept
<1>3. CASE SetExpiry(v)
  <2>1. PICK m \in Minutes : m = visit[v].minute
    BY <1>1
  <2>2. PICK new \in VisitType : /\ new = [visit[v] EXCEPT !.pc = "decide"]
                               /\ new.pc = "decide" /\ new.count = visit[v].count
                               /\ new.minute = m
    <3> DEFINE r == [visit[v] EXCEPT !.pc = "decide"]
    <3>1. r \in VisitType /\ r.pc = "decide" /\ r.count = visit[v].count /\ r.minute = m
      BY <1>1, <2>1 DEF VisitType
    <3>2. QED BY <3>1
  <2>3. /\ visit' = [visit EXCEPT ![v] = new] /\ UNCHANGED <<minute, lapsed>>
        /\ visit[v].pc = "expire"
        /\ counter' = IF counter[m].life = "none" THEN counter
                      ELSE [counter EXCEPT ![m].life = "timed"]
    BY <1>3, <2>1, <2>2 DEF SetExpiry
  <2>4. VisitStep(v, new)
    BY <2>1, <2>2, <2>3 DEF VisitStep
  <2>5. /\ counter' \in [Minutes -> [count : Nat, life : Lives]]
        /\ \A k \in Minutes : /\ counter'[k].count = counter[k].count
                              /\ counter'[k].life \in {counter[k].life, "timed"}
    BY <1>1, <2>3
  <2>6. LivesInStep'
    BY <1>1, <2>3, <2>5 DEF LivesInStep
  <2>7. new.count <= Cardinality(Came(new.minute)')
    BY <2>2, <2>3, <2>4, OneCame
  <2>8. QED BY <2>2, <2>3, <2>4, <2>5, <2>6, <2>7, CountsKept
<1>4. CASE StoreFails(v)
  <2>1. PICK new \in VisitType : /\ new = [visit[v] EXCEPT !.pc = "uncounted"]
                               /\ new.pc = "uncounted" /\ new.count = visit[v].count
                               /\ new.minute = visit[v].minute
    <3> DEFINE r == [visit[v] EXCEPT !.pc = "uncounted"]
    <3>1. /\ r \in VisitType /\ r.pc = "uncounted" /\ r.count = visit[v].count
          /\ r.minute = visit[v].minute
      BY <1>1 DEF VisitType
    <3>2. QED BY <3>1
  <2>2. /\ visit' = [visit EXCEPT ![v] = new] /\ UNCHANGED <<minute, counter, lapsed>>
        /\ visit[v].pc \in {"raise", "read", "expire"}
    BY <1>4, <2>1 DEF StoreFails
  <2>3. VisitStep(v, new)
    BY <2>1, <2>2 DEF VisitStep
  <2>4. new.count <= Cardinality(Came(new.minute)')
    BY <2>1, <2>2, <2>3, OneCame
  <2>5. LivesInStep'
    BY <1>1, <2>2 DEF LivesInStep
  <2>6. QED BY <1>1, <2>1, <2>2, <2>3, <2>4, <2>5, CountsKept
<1>5. CASE Decide(v)
  <2> DEFINE verdict == IF visit[v].count > Limit THEN "refused" ELSE "counted"
  <2>1. PICK new \in VisitType : /\ new = [visit[v] EXCEPT !.pc = verdict]
                               /\ new.pc = verdict /\ new.count = visit[v].count
                               /\ new.minute = visit[v].minute
    <3> DEFINE r == [visit[v] EXCEPT !.pc = verdict]
    <3>1. /\ r \in VisitType /\ r.pc = verdict /\ r.count = visit[v].count
          /\ r.minute = visit[v].minute
      BY <1>1 DEF VisitType
    <3>2. QED BY <3>1
  <2>2. /\ visit' = [visit EXCEPT ![v] = new] /\ UNCHANGED <<minute, counter, lapsed>>
        /\ visit[v].pc = "decide"
    BY <1>5, <2>1 DEF Decide
  <2>3. /\ new.pc \in {"refused", "counted"}
        /\ new.pc = "counted" => new.count <= Limit
        /\ new.pc = "refused" => new.count > Limit
    BY <1>1, <2>1, RateLimitAssumption
  <2>4. VisitStep(v, new)
    BY <2>1, <2>2, <2>3 DEF VisitStep
  <2>5. new.count <= Cardinality(Came(new.minute)')
    BY <2>1, <2>2, <2>4, OneCame
  <2>6. LivesInStep'
    BY <1>1, <2>2 DEF LivesInStep
  <2>7. QED BY <1>1, <2>1, <2>2, <2>3, <2>4, <2>5, <2>6, CountsKept
<1>6. QED BY <1>2, <1>3, <1>4, <1>5

LEMMA LimiterStays == LimiterInv /\ [Next]_vars => LimiterInv'
<1> SUFFICES ASSUME LimiterInv, [Next]_vars PROVE LimiterInv'
  OBVIOUS
<1>1. CASE MinutePasses
  <2>1. minute' \in Minutes /\ UNCHANGED <<counter, lapsed, visit>>
    BY <1>1, RateLimitAssumption DEF MinutePasses, LimiterInv, LimiterType, Minutes
  <2>2. LimiterType' /\ LivesInStep'
    BY <2>1 DEF LimiterInv, LimiterType, LivesInStep
  <2>3. RaisedAreCounted' /\ CountsWereRaised'
    BY <2>1 DEF LimiterInv, RaisedAreCounted, CountsWereRaised, Raised, Past
  <2>4. FewReadLittle'
    BY <2>1 DEF LimiterInv, FewReadLittle, ReadUpTo
  <2>5. ReadsWereCounts' /\ DecidedByCount'
    BY <2>1 DEF LimiterInv, ReadsWereCounts, DecidedByCount, Came
  <2>6. QED BY <2>2, <2>3, <2>4, <2>5 DEF LimiterInv
<1>2. ASSUME NEW m \in Minutes, CounterLapses(m)
      PROVE  LimiterInv'
  <2>1. /\ counter' = [counter EXCEPT ![m].life = "over"] /\ lapsed' = lapsed \cup {m}
        /\ UNCHANGED <<minute, visit>>
        /\ counter \in [Minutes -> [count : Nat, life : {"none", "forever", "timed", "over"}]]
    BY <1>2 DEF CounterLapses, LimiterInv, LimiterType
  <2>2. /\ counter' \in [Minutes -> [count : Nat, life : {"none", "forever", "timed", "over"}]]
        /\ \A k \in Minutes : counter'[k].count = counter[k].count
        /\ \A k \in Minutes \ {m} : counter'[k].life = counter[k].life
        /\ counter'[m].life = "over"
    BY <2>1
  <2>3. LimiterType'
    BY <2>1, <2>2 DEF LimiterInv, LimiterType
  <2>4. LivesInStep'
    BY <2>1, <2>2 DEF LimiterInv, LivesInStep
  <2>5. RaisedAreCounted' /\ CountsWereRaised'
    BY <2>1, <2>2 DEF LimiterInv, RaisedAreCounted, CountsWereRaised, Raised, Past
  <2>6. FewReadLittle'
    BY <2>1 DEF LimiterInv, FewReadLittle, ReadUpTo
  <2>7. ReadsWereCounts' /\ DecidedByCount'
    BY <2>1 DEF LimiterInv, ReadsWereCounts, DecidedByCount, Came
  <2>8. QED BY <2>3, <2>4, <2>5, <2>6, <2>7 DEF LimiterInv
<1>3. ASSUME NEW v \in Visit, Visits(v)
      PROVE  LimiterInv'
  BY <1>3, OtherVisitSteps
<1>4. CASE UNCHANGED limiter
  <2>1. UNCHANGED <<minute, counter, lapsed, visit>>
    BY <1>4 DEF limiter
  <2>2. LimiterType' /\ LivesInStep'
    BY <2>1 DEF LimiterInv, LimiterType, LivesInStep
  <2>3. RaisedAreCounted' /\ CountsWereRaised'
    BY <2>1 DEF LimiterInv, RaisedAreCounted, CountsWereRaised, Raised, Past
  <2>4. FewReadLittle'
    BY <2>1 DEF LimiterInv, FewReadLittle, ReadUpTo
  <2>5. ReadsWereCounts' /\ DecidedByCount'
    BY <2>1 DEF LimiterInv, ReadsWereCounts, DecidedByCount, Came
  <2>6. QED BY <2>2, <2>3, <2>4, <2>5 DEF LimiterInv
<1>5. ASSUME LimiterStep PROVE LimiterInv'
  BY <1>5, RaisingStep, ReadingStep, OtherVisitSteps DEF LimiterStep
<1>6. QED BY <1>1, <1>2, <1>3, <1>4, <1>5 DEF Next, vars, Others, LimiterNext

(* Counts are raised and read back in steps of their own; still no more pass in
   a minute than the limit, and none is refused before more than the limit came. *)
THEOREM LimitHolds == Spec => []LimitIsKept
<1> QED BY LimiterStarts, LimiterStays, LimitFollows, PTL DEF Spec

-----------------------------------------------------------------------------
(* The RPC client.  Numbers are used once, and what a call got stands at the
   place of its number. *)
Below == {pair \in Nat \X Nat : pair[1] < pair[2]}

LEMMA GreatestUpTo ==
  ASSUME NEW n \in Nat, NEW T \in SUBSET (1..n), T # {}
  PROVE  \E i \in T : \A o \in T : o <= i
<1> DEFINE D == {n - i : i \in T}
<1>1. \A i \in T : i \in Int /\ n - i \in Nat
  OBVIOUS
<1>2. D \subseteq Nat /\ D # {}
  BY <1>1
<1>3. IsWellFoundedOn(Below, Nat)
  BY NatLessThanWellFounded, Zenon DEF OpToRel, Below
<1>4. PICK d \in D : \A e \in D : ~ (<<e, d>> \in Below)
  BY <1>2, <1>3, WFMin
<1>5. PICK i \in T : d = n - i
  BY <1>4
<1>6. ASSUME NEW o \in T PROVE o <= i
  <2>1. n - o \in D /\ n - o \in Nat /\ d \in Nat
    BY <1>1, <1>2, <1>4
  <2>2. n - o < d => <<n - o, d>> \in Below
    BY <2>1, Zenon DEF Below
  <2>3. ~ (n - o < d)
    BY <1>4, <2>1, <2>2
  <2>4. i \in Int /\ o \in Int
    BY <1>1
  <2>5. QED BY <1>5, <2>3, <2>4
<1>7. QED BY <1>6

RpcType ==
  /\ http \in 0..made /\ shut \subseteq 1..made /\ made \in Nat /\ sent \in Nat
  /\ \A k \in Caller : /\ rpc[k].ids \in Seq(Nat)
                       /\ \A j \in DOMAIN rpc[k].ids : rpc[k].ids[j] \in 1..sent
  /\ rpc = [k \in Caller |-> rpc[k]]

NumbersApart ==
  \A k, o \in Caller : k # o =>
    \A j \in DOMAIN rpc[k].ids, i \in DOMAIN rpc[o].ids : rpc[k].ids[j] # rpc[o].ids[i]

GotItsOwn ==
  \A k \in Caller : rpc[k].pc = "answered" =>
    /\ DOMAIN rpc[k].got = DOMAIN rpc[k].ids
    /\ \A j \in DOMAIN rpc[k].got : rpc[k].got[j] \in {rpc[k].ids[j], Error}

RpcInv == RpcType /\ NumbersApart /\ GotItsOwn

LEMMA ResultsFollow == RpcInv => ResultsInOrder
<1> SUFFICES ASSUME RpcInv, NEW k \in Caller, rpc[k].pc = "answered"
             PROVE  /\ DOMAIN rpc[k].got = DOMAIN rpc[k].ids
                    /\ \A j \in DOMAIN rpc[k].got : rpc[k].got[j] \in {rpc[k].ids[j], Error}
                    /\ \A o \in Caller \ {k} : \A j \in DOMAIN rpc[k].got :
                         rpc[k].got[j] # Error =>
                           rpc[k].got[j] \notin {rpc[o].ids[i] : i \in DOMAIN rpc[o].ids}
  BY DEF ResultsInOrder
<1>1. /\ DOMAIN rpc[k].got = DOMAIN rpc[k].ids
      /\ \A j \in DOMAIN rpc[k].got : rpc[k].got[j] \in {rpc[k].ids[j], Error}
  BY DEF RpcInv, GotItsOwn
<1>2. ASSUME NEW o \in Caller \ {k}, NEW j \in DOMAIN rpc[k].got, rpc[k].got[j] # Error
      PROVE  rpc[k].got[j] \notin {rpc[o].ids[i] : i \in DOMAIN rpc[o].ids}
  <2>1. rpc[k].got[j] = rpc[k].ids[j] /\ j \in DOMAIN rpc[k].ids
    BY <1>1, <1>2
  <2>2. \A i \in DOMAIN rpc[o].ids : rpc[k].ids[j] # rpc[o].ids[i]
    BY <2>1 DEF RpcInv, NumbersApart
  <2>3. QED BY <2>1, <2>2
<1>3. QED BY <1>1, <1>2

(* The results of a batch, by number: the last of those with a number counts. *)
LEMMA ByIdGivesItsOwn ==
  ASSUME NEW ids \in Seq(Nat), NEW items \in Responses(ids)
  PROVE  /\ DOMAIN ById(ids, items) = DOMAIN ids
         /\ \A j \in DOMAIN ids : ById(ids, items)[j] \in {ids[j], Error}
<1>1. PICK n \in 0..Len(ids) : items \in [1..n -> Items(ids)]
  BY DEF Responses
<1>2. DOMAIN ById(ids, items) = DOMAIN ids
  BY DEF ById
<1>3. ASSUME NEW j \in DOMAIN ids
      PROVE  ById(ids, items)[j] \in {ids[j], Error}
  <2> DEFINE mine == {i \in DOMAIN items : items[i].id = ids[j]}
             last == CHOOSE i \in mine : \A o \in mine : o <= i
  <2>1. ById(ids, items)[j] = IF mine = {} THEN Error ELSE items[last].result
    BY Zenon DEF ById
  <2>2. CASE mine = {}
    BY <2>1, <2>2
  <2>3. CASE mine # {}
    <3>1. mine \in SUBSET (1..n) /\ n \in Nat
      BY <1>1
    <3>2. \E i \in mine : \A o \in mine : o <= i
      <4> HIDE DEF mine
      <4>1. QED BY <2>3, <3>1, GreatestUpTo
    <3>3. last \in mine
      BY <3>2, Zenon
    <3>4. last \in 1..n /\ items[last].id = ids[j] /\ items[last] \in Items(ids)
      BY <1>1, <3>3
    <3>5. PICK k \in DOMAIN ids : items[last] \in {[id |-> ids[k], result |-> r] : r \in {ids[k], Error}}
      BY <3>4, Zenon DEF Items
    <3>6. items[last].result \in {ids[k], Error} /\ items[last].id = ids[k]
      BY <3>5
    <3>7. QED BY <2>1, <2>3, <3>4, <3>6
  <2>4. QED BY <2>2, <2>3
<1>4. QED BY <1>2, <1>3

LEMMA RpcStarts == Init => RpcInv
<1> SUFFICES ASSUME Init PROVE RpcInv
  OBVIOUS
<1>1. /\ http = 0 /\ shut = {} /\ made = 0 /\ sent = 0
      /\ rpc = [k \in Caller |-> NewRpc]
  BY DEF Init, RpcInit
<1>2. \A k \in Caller : rpc[k].ids = <<>> /\ rpc[k].pc = "idle"
  BY <1>1 DEF NewRpc
<1>3. \A k \in Caller : rpc[k].ids \in Seq(Nat) /\ DOMAIN rpc[k].ids = {}
  <2>1. <<>> \in Seq(Nat) /\ DOMAIN <<>> = {}
    OBVIOUS
  <2>2. QED BY <1>2, <2>1
<1>4. RpcType
  BY <1>1, <1>3 DEF RpcType
<1>5. NumbersApart
  BY <1>3 DEF NumbersApart
<1>6. GotItsOwn
  BY <1>2 DEF GotItsOwn
<1>7. QED BY <1>4, <1>5, <1>6 DEF RpcInv

(* A step of one caller whose numbers are his own. *)
LEMMA StepOfCaller ==
  ASSUME RpcInv, NEW k \in Caller, rpc' = [rpc EXCEPT ![k] = rpc'[k]],
         http' \in 0..made', shut' \subseteq 1..made', made' \in Nat,
         sent' \in Nat, sent <= sent',
         rpc'[k].ids \in Seq(Nat), \A j \in DOMAIN rpc'[k].ids : rpc'[k].ids[j] \in 1..sent',
         \A o \in Caller \ {k} : \A j \in DOMAIN rpc'[k].ids, i \in DOMAIN rpc[o].ids :
           rpc'[k].ids[j] # rpc[o].ids[i],
         rpc'[k].pc = "answered" =>
           /\ DOMAIN rpc'[k].got = DOMAIN rpc'[k].ids
           /\ \A j \in DOMAIN rpc'[k].got : rpc'[k].got[j] \in {rpc'[k].ids[j], Error}
  PROVE  RpcInv'
<1>1. rpc = [o \in Caller |-> rpc[o]]
  BY DEF RpcInv, RpcType
<1>2. rpc' = [o \in Caller |-> rpc'[o]] /\ \A o \in Caller \ {k} : rpc'[o] = rpc[o]
  BY <1>1
<1>3. ASSUME NEW o \in Caller
      PROVE  /\ rpc'[o].ids \in Seq(Nat)
             /\ \A j \in DOMAIN rpc'[o].ids : rpc'[o].ids[j] \in 1..sent'
  <2>1. CASE o = k
    BY <1>2, <2>1
  <2>2. CASE o # k
    <3>1. rpc[o].ids \in Seq(Nat) /\ \A j \in DOMAIN rpc[o].ids : rpc[o].ids[j] \in 1..sent
      BY DEF RpcInv, RpcType
    <3>2. \A i \in 1..sent : i \in 1..sent'
      BY DEF RpcInv, RpcType
    <3>3. QED BY <1>2, <2>2, <3>1, <3>2
  <2>3. QED BY <2>1, <2>2
<1>4. RpcType'
  BY <1>2, <1>3 DEF RpcType
<1>5. NumbersApart'
  <2>1. ASSUME NEW a \in Caller, NEW o \in Caller, a # o,
               NEW j \in DOMAIN rpc'[a].ids, NEW i \in DOMAIN rpc'[o].ids
        PROVE  rpc'[a].ids[j] # rpc'[o].ids[i]
    <3>1. CASE a = k
      BY <1>2, <2>1, <3>1
    <3>2. CASE o = k
      BY <1>2, <2>1, <3>2
    <3>3. CASE a # k /\ o # k
      BY <1>2, <2>1, <3>3 DEF RpcInv, NumbersApart
    <3>4. QED BY <3>1, <3>2, <3>3
  <2>2. QED BY <2>1, Zenon DEF NumbersApart
<1>6. GotItsOwn'
  BY <1>2 DEF RpcInv, GotItsOwn
<1>7. QED BY <1>4, <1>5, <1>6 DEF RpcInv

LEMMA PostingStep ==
  ASSUME RpcInv, NEW k \in Caller, Post(k)
  PROVE  RpcInv'
<1>1. /\ http \in 0..made /\ shut \subseteq 1..made /\ made \in Nat /\ sent \in Nat
      /\ Ensured \in Nat
  BY DEF RpcInv, RpcType, Ensured
<1>2. PICK n \in BatchSizes :
        /\ sent' = sent + n
        /\ rpc' = [rpc EXCEPT ![k] = [NewRpc EXCEPT !.pc = "posted", !.on = Ensured,
                                        !.ids = [i \in 1..n |-> sent + i]]]
  BY DEF Post
<1>3. n \in Nat
  BY RpcClientAssumption
<1>4. /\ http' = Ensured /\ shut' = shut
      /\ made' = IF Ensured > made THEN Ensured ELSE made
  BY DEF Post
<1>5. http' \in 0..made' /\ shut' \subseteq 1..made' /\ made' \in Nat
  <2>1. made' \in Nat /\ made <= made' /\ Ensured <= made'
    BY <1>1, <1>4
  <2>2. \A i \in 1..made : i \in 1..made'
    BY <1>1, <2>1
  <2>3. QED BY <1>1, <1>4, <2>1, <2>2
<1>6. sent' \in Nat /\ sent <= sent'
  BY <1>1, <1>2, <1>3
<1> DEFINE ids == [i \in 1..n |-> sent + i]
<1>7. rpc'[k].ids = ids /\ rpc'[k].pc = "posted" /\ rpc' = [rpc EXCEPT ![k] = rpc'[k]]
  BY <1>2 DEF NewRpc, RpcInv, RpcType
<1>8. /\ ids \in Seq(Nat) /\ DOMAIN ids = 1..n
      /\ \A j \in 1..n : ids[j] = sent + j
  BY <1>1, <1>3
<1>9. \A j \in DOMAIN ids : ids[j] \in 1..sent' /\ ids[j] > sent
  BY <1>1, <1>2, <1>3, <1>8
<1>10. ASSUME NEW o \in Caller \ {k}, NEW j \in DOMAIN ids, NEW i \in DOMAIN rpc[o].ids
       PROVE  ids[j] # rpc[o].ids[i]
  <2>1. rpc[o].ids[i] \in 1..sent
    BY DEF RpcInv, RpcType
  <2>2. QED BY <1>1, <1>9, <2>1
<1> HIDE DEF ids
<1>11. /\ rpc'[k].ids \in Seq(Nat) /\ \A j \in DOMAIN rpc'[k].ids : rpc'[k].ids[j] \in 1..sent'
       /\ \A o \in Caller \ {k} : \A j \in DOMAIN rpc'[k].ids, i \in DOMAIN rpc[o].ids :
            rpc'[k].ids[j] # rpc[o].ids[i]
  BY <1>7, <1>8, <1>9, <1>10, Zenon
<1>12. QED BY <1>5, <1>6, <1>7, <1>11, StepOfCaller

LEMMA RespondingStep ==
  ASSUME RpcInv, NEW k \in Caller, Respond(k)
  PROVE  RpcInv'
<1>1. /\ http \in 0..made /\ shut \subseteq 1..made /\ made \in Nat /\ sent \in Nat
      /\ rpc[k].ids \in Seq(Nat)
      /\ \A j \in DOMAIN rpc[k].ids : rpc[k].ids[j] \in 1..sent
  BY DEF RpcInv, RpcType
<1>2. PICK items \in Responses(rpc[k].ids) :
        rpc' = [rpc EXCEPT ![k] = [NewRpc EXCEPT !.pc = "answered", !.ids = rpc[k].ids,
                                     !.got = ById(rpc[k].ids, items)]]
  BY DEF Respond
<1>3. UNCHANGED <<http, shut, made, sent>>
  BY DEF Respond
<1>4. PICK got : /\ got = ById(rpc[k].ids, items)
                 /\ DOMAIN got = DOMAIN rpc[k].ids
                 /\ \A j \in DOMAIN rpc[k].ids : got[j] \in {rpc[k].ids[j], Error}
  BY <1>1, ByIdGivesItsOwn
<1>5. rpc'[k].ids = rpc[k].ids /\ rpc'[k].got = got /\ rpc' = [rpc EXCEPT ![k] = rpc'[k]]
  BY <1>2, <1>4 DEF NewRpc, RpcInv, RpcType
<1>6. \A o \in Caller \ {k} : \A j \in DOMAIN rpc'[k].ids, i \in DOMAIN rpc[o].ids :
        rpc'[k].ids[j] # rpc[o].ids[i]
  BY <1>5 DEF RpcInv, NumbersApart
<1>7. http' \in 0..made' /\ shut' \subseteq 1..made' /\ made' \in Nat
  BY <1>1, <1>3
<1>8. sent' \in Nat /\ sent <= sent'
  BY <1>1, <1>3
<1>9. rpc'[k].ids \in Seq(Nat) /\ \A j \in DOMAIN rpc'[k].ids : rpc'[k].ids[j] \in 1..sent'
  BY <1>1, <1>3, <1>5
<1>10. /\ DOMAIN rpc'[k].got = DOMAIN rpc'[k].ids
       /\ \A j \in DOMAIN rpc'[k].got : rpc'[k].got[j] \in {rpc'[k].ids[j], Error}
  BY <1>4, <1>5
<1>11. QED BY <1>5, <1>6, <1>7, <1>8, <1>9, <1>10, StepOfCaller

LEMMA RpcStays == RpcInv /\ [Next]_vars => RpcInv'
<1> SUFFICES ASSUME RpcInv, [Next]_vars PROVE RpcInv'
  OBVIOUS
<1>1. /\ http \in 0..made /\ shut \subseteq 1..made /\ made \in Nat /\ sent \in Nat
  BY DEF RpcInv, RpcType
<1>2. ASSUME NEW k \in Caller, PostFails(k)
      PROVE  RpcInv'
  <2>1. /\ rpc' = [rpc EXCEPT ![k] = [NewRpc EXCEPT !.pc = "failed"]]
        /\ UNCHANGED <<http, shut, made, sent>>
    BY <1>2 DEF PostFails
  <2>2. rpc'[k].ids = <<>> /\ rpc'[k].pc = "failed" /\ rpc' = [rpc EXCEPT ![k] = rpc'[k]]
    BY <2>1 DEF NewRpc, RpcInv, RpcType
  <2>3. <<>> \in Seq(Nat) /\ DOMAIN <<>> = {}
    OBVIOUS
  <2>4. rpc'[k].ids \in Seq(Nat) /\ DOMAIN rpc'[k].ids = {}
    BY <2>2, <2>3
  <2>5. /\ http' \in 0..made' /\ shut' \subseteq 1..made' /\ made' \in Nat
        /\ sent' \in Nat /\ sent <= sent'
    BY <1>1, <2>1
  <2>6. QED BY <2>1, <2>2, <2>4, <2>5, StepOfCaller
<1>3. ASSUME BeginReconnect \/ EndReconnect
      PROVE  RpcInv'
  <2>1. UNCHANGED <<made, sent, rpc>>
    BY <1>3 DEF BeginReconnect, EndReconnect
  <2>2. http' \in 0..made' /\ shut' \subseteq 1..made'
    <3>1. CASE BeginReconnect
      <4>1. http # 0 /\ http' = http /\ shut' = shut \cup {http} /\ made' = made
        BY <3>1 DEF BeginReconnect
      <4>2. http \in 1..made
        BY <1>1, <4>1
      <4>3. QED BY <1>1, <4>1, <4>2
    <3>2. CASE EndReconnect
      <4>1. http' = 0 /\ shut' = shut /\ made' = made
        BY <3>2 DEF EndReconnect
      <4>2. 0 \in 0..made
        BY <1>1
      <4>3. QED BY <1>1, <4>1, <4>2
    <3>3. QED BY <1>3, <3>1, <3>2
  <2>3. RpcType'
    BY <2>1, <2>2 DEF RpcInv, RpcType
  <2>4. QED BY <2>1, <2>3 DEF RpcInv, NumbersApart, GotItsOwn
<1>4. CASE UNCHANGED rpcClient
  BY <1>4 DEF rpcClient, RpcInv, RpcType, NumbersApart, GotItsOwn
<1>5. CASE RpcNext
  BY <1>2, <1>3, <1>5, PostingStep, RespondingStep DEF RpcNext, RpcStep
<1>6. QED BY <1>4, <1>5 DEF Next, vars, Others

-----------------------------------------------------------------------------
(* The ElectrumX client.  A number is used once, so a question, asked or
   answered and wherever it is on its way, is that of the only call that may
   still wait under its number. *)
Awaits == {"waiting", "shaking"}

CallType ==
  [pc : {"idle", "ensure", "opening", "shaking", "send", "waiting", "answered", "failed"},
   id : Nat, on : Nat, answer : Nat]

Question == Nat \X Call

ConnectionType == [open : BOOLEAN, asked : SUBSET Question, inbox : Seq(Question)]

LoopType == [pc : {"start", "top", "read", "cleanup", "closing", "ended"}, on : Nat]

EndsType ==
  /\ conns \in Seq(ConnectionType) /\ loops \in Seq(LoopType)
  /\ closed \in BOOLEAN /\ reader = writer /\ writer \in 0..Len(conns)
  /\ \A l \in DOMAIN loops : loops[l].pc = "read" => loops[l].on \in DOMAIN conns

CallsType ==
  /\ reqId \in Nat /\ pending \subseteq 1..reqId
  /\ calls \in [Call -> CallType]
  /\ \A k \in Call : calls[k].id <= reqId

LockIsHeld == lock = 0 \/ (lock \in Call /\ calls[lock].pc \in {"opening", "shaking"})

Questions ==
  UNION {conns[c].asked \cup {conns[c].inbox[j] : j \in DOMAIN conns[c].inbox} : c \in DOMAIN conns}

QuestionsKnown ==
  \A q \in Questions :
    /\ q[1] <= reqId
    /\ \A k \in Call : calls[k].pc \in Awaits /\ calls[k].id = q[1] => k = q[2]

ElectrumInv == EndsType /\ CallsType /\ LockIsHeld /\ QuestionsKnown /\ AnswersAreTheirOwn

LEMMA ElectrumStarts == Init => ElectrumInv
<1> SUFFICES ASSUME Init PROVE ElectrumInv
  OBVIOUS
<1>1. /\ closed = TRUE /\ reader = 0 /\ writer = 0 /\ lock = 0 /\ reqId = 0 /\ pending = {}
      /\ conns = <<>> /\ loops = <<>> /\ calls = [k \in Call |-> NewCall]
  BY DEF Init, ElectrumInit
<1>2. DOMAIN conns = {} /\ DOMAIN loops = {} /\ Len(conns) = 0
  BY <1>1
<1>3. conns \in Seq(ConnectionType) /\ loops \in Seq(LoopType)
  BY <1>1
<1>4. EndsType
  BY <1>1, <1>2, <1>3 DEF EndsType
<1>5. NewCall \in CallType
  BY DEF NewCall, CallType
<1>6. CallsType
  BY <1>1, <1>5 DEF CallsType, NewCall
<1>7. Questions = {}
  BY <1>2 DEF Questions
<1>8. AnswersAreTheirOwn
  BY <1>1 DEF AnswersAreTheirOwn, NewCall
<1>9. QED BY <1>1, <1>4, <1>6, <1>7, <1>8 DEF ElectrumInv, LockIsHeld, QuestionsKnown

(* A step that asks nothing, or asks under a new number, and hands out no
   answer but the right one. *)
LEMMA ElectrumKept ==
  ASSUME ElectrumInv, EndsType', CallsType', LockIsHeld', reqId <= reqId',
         NEW E \in SUBSET Question, Questions' \subseteq Questions \cup E,
         \A q \in E : /\ q[1] > reqId /\ q[1] <= reqId'
                      /\ \A k \in Call : calls'[k].pc \in Awaits /\ calls'[k].id = q[1] => k = q[2],
         \A k \in Call : calls'[k].pc \in Awaits =>
           \/ calls[k].pc \in Awaits /\ calls'[k].id = calls[k].id
           \/ calls'[k].id > reqId,
         \A k \in Call : calls'[k].pc = "answered" => calls'[k].answer = k
  PROVE  ElectrumInv'
<1>1. Questions \subseteq Question
  <2>1. ASSUME NEW c \in DOMAIN conns
        PROVE  conns[c].asked \cup {conns[c].inbox[j] : j \in DOMAIN conns[c].inbox} \subseteq Question
    <3>1. conns[c] \in ConnectionType
      BY DEF ElectrumInv, EndsType
    <3>2. conns[c].asked \subseteq Question /\ conns[c].inbox \in Seq(Question)
      BY <3>1 DEF ConnectionType
    <3>3. \A j \in DOMAIN conns[c].inbox : conns[c].inbox[j] \in Question
      BY <3>2
    <3>4. QED BY <3>2, <3>3
  <2>2. QED BY <2>1 DEF Questions
<1>2. ASSUME NEW q \in Questions'
      PROVE  /\ q[1] <= reqId'
             /\ \A k \in Call : calls'[k].pc \in Awaits /\ calls'[k].id = q[1] => k = q[2]
  <2>1. CASE q \in E
    BY <2>1
  <2>2. CASE q \in Questions
    <3>1. /\ q[1] <= reqId /\ q[1] \in Nat
          /\ \A k \in Call : calls[k].pc \in Awaits /\ calls[k].id = q[1] => k = q[2]
      BY <1>1, <2>2 DEF ElectrumInv, QuestionsKnown, Question
    <3>2. reqId \in Nat /\ reqId' \in Nat
      BY DEF ElectrumInv, CallsType
    <3>3. q[1] <= reqId'
      BY <3>1, <3>2
    <3>4. ASSUME NEW k \in Call, calls'[k].pc \in Awaits, calls'[k].id = q[1]
          PROVE  k = q[2]
      <4>1. ~ (calls'[k].id > reqId)
        BY <3>1, <3>2, <3>4
      <4>2. calls[k].pc \in Awaits /\ calls[k].id = q[1]
        BY <3>4, <4>1
      <4>3. QED BY <3>1, <4>2
    <3>5. QED BY <3>3, <3>4
  <2>3. QED BY <1>2, <2>1, <2>2
<1>3. QuestionsKnown'
  BY <1>2 DEF QuestionsKnown
<1>4. QED BY <1>3 DEF ElectrumInv, AnswersAreTheirOwn

(* What is on its way on a connection is a question. *)
LEMMA OnItsWay ==
  ASSUME ElectrumInv, NEW c \in DOMAIN conns
  PROVE  /\ conns[c] \in ConnectionType /\ conns[c].asked \subseteq Questions
         /\ \A j \in DOMAIN conns[c].inbox : conns[c].inbox[j] \in Questions
<1> DEFINE on(o) == conns[o].asked \cup {conns[o].inbox[j] : j \in DOMAIN conns[o].inbox}
<1>1. conns[c] \in ConnectionType
  BY DEF ElectrumInv, EndsType
<1>2. on(c) \in {on(o) : o \in DOMAIN conns}
  OBVIOUS
<1>3. Questions = UNION {on(o) : o \in DOMAIN conns}
  BY DEF Questions
<1>4. on(c) \subseteq Questions
  <2> HIDE DEF on
  <2>1. QED BY <1>2, <1>3
<1>5. \A j \in DOMAIN conns[c].inbox : conns[c].inbox[j] \in on(c)
  OBVIOUS
<1>6. QED BY <1>1, <1>4, <1>5

(* One connection is changed: what is on its way elsewhere stays. *)
LEMMA OneConnectionChanges ==
  ASSUME ElectrumInv, NEW c \in DOMAIN conns, DOMAIN conns' = DOMAIN conns,
         \A o \in DOMAIN conns : o # c => conns'[o] = conns[o],
         NEW E \in SUBSET Question, conns'[c].asked \subseteq Questions \cup E,
         \A j \in DOMAIN conns'[c].inbox : conns'[c].inbox[j] \in Questions \cup E
  PROVE  Questions' \subseteq Questions \cup E
<1>1. ASSUME NEW q \in Questions' PROVE q \in Questions \cup E
  <2>1. PICK o \in DOMAIN conns :
          q \in conns'[o].asked \cup {conns'[o].inbox[j] : j \in DOMAIN conns'[o].inbox}
    BY <1>1 DEF Questions
  <2>2. CASE o = c
    BY <2>1, <2>2
  <2>3. CASE o # c
    <3>1. q \in conns[o].asked \cup {conns[o].inbox[j] : j \in DOMAIN conns[o].inbox}
      BY <2>1, <2>3
    <3>2. q \in Questions
      BY <3>1, OnItsWay
    <3>3. QED BY <3>2
  <2>4. QED BY <2>2, <2>3
<1>2. QED BY <1>1

LEMMA NothingAsked ==
  ASSUME ElectrumInv, EndsType', CallsType', LockIsHeld', reqId <= reqId',
         Questions' \subseteq Questions,
         \A k \in Call : calls'[k].pc \in Awaits =>
           \/ calls[k].pc \in Awaits /\ calls'[k].id = calls[k].id
           \/ calls'[k].id > reqId,
         \A k \in Call : calls'[k].pc = "answered" => calls'[k].answer = k
  PROVE  ElectrumInv'
<1>1. PICK E \in SUBSET Question : E = {}
  OBVIOUS
<1>2. /\ Questions' \subseteq Questions \cup E
      /\ \A q \in E :
           /\ q[1] > reqId /\ q[1] <= reqId'
           /\ \A k \in Call : calls'[k].pc \in Awaits /\ calls'[k].id = q[1] => k = q[2]
  BY <1>1
<1>3. QED BY <1>2, ElectrumKept

(* A call goes on, or ends, without a question. *)
LEMMA CallGoesOn ==
  ASSUME ElectrumInv, NEW k \in Call,
         NEW pc \in {"ensure", "opening", "send", "failed"},
         At(k, pc), UNCHANGED <<conns, loops, reader, writer>>,
         closed' \in BOOLEAN, reqId' \in Nat, reqId <= reqId', pending' \subseteq 1..reqId',
         \/ lock' = 0
         \/ lock' = lock /\ (lock # k \/ pc = "opening")
         \/ lock' = k /\ pc = "opening"
  PROVE  ElectrumInv'
<1>1. /\ calls \in [Call -> CallType] /\ reqId \in Nat /\ \A o \in Call : calls[o].id <= reqId
      /\ LockIsHeld /\ AnswersAreTheirOwn
  BY DEF ElectrumInv, CallsType
<1>2. calls' = [calls EXCEPT ![k] = [NewCall EXCEPT !.pc = pc]]
  BY DEF At
<1>3. /\ [NewCall EXCEPT !.pc = pc] \in CallType
      /\ [NewCall EXCEPT !.pc = pc].pc = pc /\ [NewCall EXCEPT !.pc = pc].id = 0
  BY DEF NewCall, CallType
<1>4. /\ calls' \in [Call -> CallType] /\ calls'[k].pc = pc /\ calls'[k].id = 0
      /\ \A o \in Call \ {k} : calls'[o] = calls[o]
  BY <1>1, <1>2, <1>3
<1>5. CallsType'
  <2>1. \A o \in Call : calls'[o].id <= reqId'
    <3>1. \A o \in Call : calls[o].id \in Nat
      BY <1>1 DEF CallType
    <3>2. QED BY <1>1, <1>4, <3>1
  <2>2. QED BY <1>4, <2>1 DEF CallsType
<1>6. EndsType'
  BY DEF ElectrumInv, EndsType
<1>7. LockIsHeld'
  BY <1>1, <1>4 DEF LockIsHeld
<1>8. Questions' = Questions
  BY DEF Questions
<1>9. \A o \in Call : calls'[o].pc \in Awaits => calls[o].pc \in Awaits /\ calls'[o].id = calls[o].id
  BY <1>4 DEF Awaits
<1>10. \A o \in Call : calls'[o].pc = "answered" => calls'[o].answer = o
  BY <1>1, <1>4 DEF AnswersAreTheirOwn
<1>11. Questions' \subseteq Questions
  BY <1>8
<1>12. QED BY <1>5, <1>6, <1>7, <1>9, <1>10, <1>11, NothingAsked

LEMMA HolderOfLock ==
  ASSUME ElectrumInv, NEW k \in Call, calls[k].pc \notin {"opening", "shaking"}
  PROVE  lock # k
BY ElectrumClientAssumption DEF ElectrumInv, LockIsHeld

LEMMA CallsWithoutQuestion ==
  ASSUME ElectrumInv, NEW k \in Call,
         Begin(k) \/ Ensure(k) \/ OpenFails(k) \/ SendBreaks(k) \/ Timeout(k) \/ Cancel(k)
  PROVE  ElectrumInv'
<1>1. closed \in BOOLEAN /\ reqId \in Nat /\ pending \subseteq 1..reqId /\ reqId <= reqId
  <2>1. closed \in BOOLEAN /\ reqId \in Nat /\ pending \subseteq 1..reqId
    BY DEF ElectrumInv, EndsType, CallsType
  <2>2. QED BY <2>1
<1>2. Fails(k) <=> At(k, "failed")
  BY DEF Fails, At
<1>3. Release(k) => lock' = 0 \/ (lock' = lock /\ lock # k)
  BY DEF Release
<1>4. CASE Begin(k)
  <2>1. lock # k /\ lock' = lock
    BY <1>4, HolderOfLock DEF Begin
  <2>2. /\ At(k, "ensure") /\ UNCHANGED <<conns, loops, reader, writer>>
        /\ UNCHANGED <<closed, reqId, pending>>
    BY <1>4 DEF Begin
  <2>3. QED BY <1>1, <2>1, <2>2, CallGoesOn
<1>5. CASE Ensure(k)
  <2>1. /\ UNCHANGED <<conns, loops, reader, writer>> /\ UNCHANGED <<closed, reqId, pending>>
        /\ lock = 0
    BY <1>5 DEF Ensure
  <2>2. CASE At(k, "opening") /\ lock' = k
    BY <1>1, <2>1, <2>2, CallGoesOn
  <2>3. CASE At(k, "send") /\ lock' = lock
    BY <1>1, <2>1, <2>3, CallGoesOn
  <2>4. QED BY <1>5, <2>2, <2>3 DEF Ensure
<1>6. CASE OpenFails(k) \/ Cancel(k)
  <2>1. /\ UNCHANGED <<conns, loops, reader, writer>> /\ UNCHANGED <<closed, reqId, pending>>
        /\ At(k, "failed") /\ Release(k)
    BY <1>2, <1>6 DEF OpenFails, Cancel
  <2>2. QED BY <1>1, <1>3, <2>1, CallGoesOn
<1>7. CASE SendBreaks(k) \/ Timeout(k)
  <2>1. /\ UNCHANGED <<conns, loops, reader, writer>> /\ reqId' = reqId
        /\ pending' = pending \ {calls[k].id} /\ closed' \in BOOLEAN
        /\ At(k, "send") \/ At(k, "failed")
        /\ Release(k)
    BY <1>1, <1>2, <1>7 DEF SendBreaks, Timeout
  <2>2. pending' \subseteq 1..reqId' /\ reqId' \in Nat /\ reqId <= reqId'
    BY <1>1, <2>1
  <2>3. QED BY <1>3, <2>1, <2>2, CallGoesOn
<1>8. QED BY <1>4, <1>5, <1>6, <1>7

(* A question is asked under a new number. *)
LEMMA NewNumber ==
  ASSUME ElectrumInv, NEW k \in Call, NEW c \in Nat, NEW pc \in Awaits, Ask(k, c, pc),
         EndsType', Questions' \subseteq Questions \cup {<<reqId', k>>},
         lock' = lock, lock # k \/ pc = "shaking"
  PROVE  ElectrumInv'
<1>1. /\ calls \in [Call -> CallType] /\ reqId \in Nat /\ \A o \in Call : calls[o].id <= reqId
      /\ LockIsHeld /\ AnswersAreTheirOwn /\ pending \subseteq 1..reqId
  BY DEF ElectrumInv, CallsType
<1>2. reqId' = reqId + 1 /\ pending' = pending \cup {reqId'}
  BY DEF Ask
<1>3. reqId' \in Nat /\ reqId <= reqId' /\ reqId' > reqId /\ reqId' \in 1..reqId'
  BY <1>1, <1>2
<1>4. /\ calls' \in [Call -> CallType]
      /\ calls'[k].pc = pc /\ calls'[k].id = reqId'
      /\ \A o \in Call \ {k} : calls'[o] = calls[o]
  <2>1. calls' = [calls EXCEPT ![k] = [calls[k] EXCEPT !.pc = pc, !.id = reqId', !.on = c]]
    BY <1>1 DEF Ask
  <2>2. calls[k] \in CallType
    BY <1>1
  <2>3. /\ [calls[k] EXCEPT !.pc = pc, !.id = reqId', !.on = c] \in CallType
        /\ [calls[k] EXCEPT !.pc = pc, !.id = reqId', !.on = c].pc = pc
        /\ [calls[k] EXCEPT !.pc = pc, !.id = reqId', !.on = c].id = reqId'
    BY <1>3, <2>2 DEF CallType, Awaits
  <2>4. QED BY <1>1, <2>1, <2>3
<1>5. CallsType'
  <2>1. \A o \in Call : calls'[o].id <= reqId'
    <3>1. \A o \in Call : calls[o].id \in Nat
      BY <1>1 DEF CallType
    <3>2. QED BY <1>1, <1>3, <1>4, <3>1
  <2>2. pending' \subseteq 1..reqId'
    <3>1. \A i \in 1..reqId : i \in 1..reqId'
      BY <1>1, <1>3
    <3>2. QED BY <1>1, <1>2, <1>3, <3>1
  <2>3. QED BY <1>3, <1>4, <2>1, <2>2 DEF CallsType
<1>6. LockIsHeld'
  BY <1>1, <1>4 DEF LockIsHeld
<1>7. PICK n \in Nat : n = reqId' /\ n > reqId
  BY <1>3
<1>8. {<<n, k>>} \in SUBSET Question /\ Questions' \subseteq Questions \cup {<<n, k>>}
  BY <1>7 DEF Question
<1>9. \A q \in {<<n, k>>} :
        /\ q[1] > reqId /\ q[1] <= reqId'
        /\ \A o \in Call : calls'[o].pc \in Awaits /\ calls'[o].id = q[1] => o = q[2]
  <2>1. \A o \in Call \ {k} : calls'[o].id # n
    <3>1. \A o \in Call : calls[o].id \in Nat
      BY <1>1 DEF CallType
    <3>2. QED BY <1>1, <1>4, <1>7, <3>1
  <2>2. n <= reqId'
    BY <1>7
  <2>3. QED BY <1>7, <2>1, <2>2
<1>10. \A o \in Call : calls'[o].pc \in Awaits =>
         \/ calls[o].pc \in Awaits /\ calls'[o].id = calls[o].id
         \/ calls'[o].id > reqId
  BY <1>3, <1>4
<1>11. \A o \in Call : calls'[o].pc = "answered" => calls'[o].answer = o
  BY <1>1, <1>4 DEF AnswersAreTheirOwn, Awaits
<1>12. QED BY <1>3, <1>5, <1>6, <1>8, <1>9, <1>10, <1>11, ElectrumKept

LEMMA OpeningStep ==
  ASSUME ElectrumInv, NEW k \in Call, Open(k)
  PROVE  ElectrumInv'
<1>1. /\ conns \in Seq(ConnectionType) /\ loops \in Seq(LoopType) /\ reqId \in Nat
      /\ \A l \in DOMAIN loops : loops[l].pc = "read" => loops[l].on \in DOMAIN conns
  BY DEF ElectrumInv, EndsType, CallsType
<1>2. PICK c \in Nat : c = Len(conns) + 1
  BY <1>1
<1>3. /\ calls[k].pc = "opening" /\ Ask(k, c, "shaking")
      /\ reader' = c /\ writer' = c /\ closed' = FALSE /\ lock' = lock
  BY <1>2 DEF Open
<1>4. PICK n \in Nat : n = reqId'
  BY <1>1, <1>3 DEF Ask
<1>5. PICK conn \in ConnectionType : conn = [open |-> TRUE, asked |-> {<<n, k>>}, inbox |-> <<>>]
  <2>1. <<n, k>> \in Question /\ <<>> \in Seq(Question)
    BY DEF Question
  <2>2. QED BY <2>1 DEF ConnectionType
<1>6. conns' = Append(conns, conn)
  BY <1>4, <1>5 DEF Open
<1>7. /\ conns' \in Seq(ConnectionType) /\ DOMAIN conns' = 1..(Len(conns) + 1)
      /\ Len(conns') = Len(conns) + 1 /\ DOMAIN conns = 1..Len(conns) /\ Len(conns) \in Nat
      /\ \A o \in 1..Len(conns) : conns'[o] = conns[o]
      /\ conns'[Len(conns) + 1] = conn
  BY <1>1, <1>6
<1>8. PICK loop \in LoopType : loop = [pc |-> "start", on |-> 0]
  BY DEF LoopType
<1>9. loops' = Append(loops, loop)
  BY <1>8 DEF Open
<1>10. /\ loops' \in Seq(LoopType) /\ DOMAIN loops' = 1..(Len(loops) + 1)
       /\ DOMAIN loops = 1..Len(loops) /\ Len(loops) \in Nat
       /\ \A l \in 1..Len(loops) : loops'[l] = loops[l]
       /\ loops'[Len(loops) + 1] = loop
  BY <1>1, <1>9
<1>11. EndsType'
  <2>1. c \in 0..Len(conns')
    BY <1>2, <1>7
  <2>2. ASSUME NEW l \in DOMAIN loops', loops'[l].pc = "read"
        PROVE  loops'[l].on \in DOMAIN conns'
    <3>1. l \in 1..Len(loops) \/ l = Len(loops) + 1
      BY <1>10
    <3>2. l \in 1..Len(loops)
      BY <1>8, <1>10, <2>2, <3>1
    <3>3. loops[l].on \in 1..Len(conns)
      BY <1>1, <1>7, <1>10, <2>2, <3>2
    <3>4. loops'[l].on \in 1..Len(conns)
      BY <1>10, <3>2, <3>3
    <3>5. QED BY <1>7, <3>4
  <2>3. QED BY <1>3, <1>7, <1>10, <2>1, <2>2 DEF EndsType
<1>12. Questions' \subseteq Questions \cup {<<reqId', k>>}
  <2>1. ASSUME NEW q \in Questions' PROVE q \in Questions \cup {<<n, k>>}
    <3>1. PICK o \in DOMAIN conns' :
            q \in conns'[o].asked \cup {conns'[o].inbox[j] : j \in DOMAIN conns'[o].inbox}
      BY <2>1 DEF Questions
    <3>2. CASE o \in DOMAIN conns
      <4>1. q \in conns[o].asked \cup {conns[o].inbox[j] : j \in DOMAIN conns[o].inbox}
        BY <1>7, <3>1, <3>2
      <4>2. QED BY <3>2, <4>1, OnItsWay
    <3>3. CASE o = Len(conns) + 1
      <4>1. conns'[o] = conn /\ DOMAIN conn.inbox = {} /\ conn.asked = {<<n, k>>}
        BY <1>5, <1>7, <3>3
      <4>2. QED BY <3>1, <4>1
    <3>4. o \in DOMAIN conns \/ o = Len(conns) + 1
      BY <1>7
    <3>5. QED BY <3>2, <3>3, <3>4
  <2>2. QED BY <1>4, <2>1
<1>13. PICK pc \in Awaits : pc = "shaking"
  BY DEF Awaits
<1>14. Ask(k, c, pc)
  BY <1>3, <1>13
<1>15. QED BY <1>3, <1>11, <1>12, <1>13, <1>14, NewNumber

LEMMA SendingStep ==
  ASSUME ElectrumInv, NEW k \in Call, Send(k)
  PROVE  ElectrumInv'
<1>1. /\ conns \in Seq(ConnectionType) /\ DOMAIN conns = 1..Len(conns) /\ Len(conns) \in Nat
      /\ reqId \in Nat /\ pending \subseteq 1..reqId /\ writer \in 0..Len(conns)
      /\ closed \in BOOLEAN /\ EndsType
  BY DEF ElectrumInv, EndsType, CallsType
<1>2. /\ calls[k].pc = "send" /\ UNCHANGED <<reader, writer, lock, loops>>
  BY DEF Send
<1>3. lock # k
  BY <1>2, HolderOfLock
<1>4. CASE /\ writer # 0
           /\ Ask(k, writer, "waiting")
           /\ conns' = IF conns[writer].open
                       THEN [conns EXCEPT ![writer].asked = @ \cup {<<reqId', k>>}] ELSE conns
           /\ UNCHANGED closed
  <2>1. PICK c \in DOMAIN conns : c = writer
    BY <1>1, <1>4
  <2>2. PICK n \in Nat : n = reqId'
    BY <1>1, <1>4 DEF Ask
  <2>3. PICK E \in SUBSET Question : E = {<<n, k>>}
    <3>1. {<<n, k>>} \in SUBSET Question
      BY DEF Question
    <3>2. QED BY <3>1
  <2>4. /\ conns' \in Seq(ConnectionType) /\ DOMAIN conns' = DOMAIN conns
        /\ Len(conns') = Len(conns) /\ Questions' \subseteq Questions \cup E
    <3>1. CASE conns[c].open
      <4>1. conns[c] \in ConnectionType
        BY <1>1
      <4>2. PICK conn \in ConnectionType :
              conn = [conns[c] EXCEPT !.asked = @ \cup E] /\ conn.asked = conns[c].asked \cup E
              /\ conn.inbox = conns[c].inbox
        <5> DEFINE r == [conns[c] EXCEPT !.asked = conns[c].asked \cup E]
        <5>1. r \in ConnectionType /\ r.asked = conns[c].asked \cup E /\ r.inbox = conns[c].inbox
          BY <4>1 DEF ConnectionType
        <5>2. QED BY <5>1
      <4>3. /\ conns' \in Seq(ConnectionType) /\ DOMAIN conns' = DOMAIN conns
            /\ Len(conns') = Len(conns) /\ conns'[c] = conn
            /\ \A o \in DOMAIN conns : o # c => conns'[o] = conns[o]
        BY <1>1, <1>4, <2>1, <2>2, <2>3, <3>1, <4>2
      <4>4. conns'[c].asked \subseteq Questions \cup E
        BY <4>2, <4>3, OnItsWay
      <4>5. \A j \in DOMAIN conns'[c].inbox : conns'[c].inbox[j] \in Questions \cup E
        BY <4>2, <4>3, OnItsWay
      <4>6. QED BY <4>3, <4>4, <4>5, OneConnectionChanges
    <3>2. CASE ~conns[c].open
      <4>1. conns' = conns
        BY <1>4, <2>1, <3>2
      <4>2. Questions' = Questions
        BY <4>1 DEF Questions
      <4>3. QED BY <1>1, <4>1, <4>2
    <3>3. QED BY <3>1, <3>2
  <2>5. EndsType'
    BY <1>1, <1>2, <1>4, <2>4 DEF EndsType
  <2>6. PICK pc \in Awaits : pc = "waiting"
    BY DEF Awaits
  <2>7. Ask(k, c, pc) /\ c \in Nat
    BY <1>1, <1>4, <2>1, <2>6
  <2>8. Questions' \subseteq Questions \cup {<<reqId', k>>}
    BY <2>2, <2>3, <2>4
  <2>9. QED BY <1>2, <1>3, <2>5, <2>6, <2>7, <2>8, NewNumber
<1>5. CASE /\ writer # 0 /\ ~conns[writer].open
           /\ reqId' = reqId + 1 /\ closed' = TRUE /\ Fails(k)
           /\ UNCHANGED <<pending, conns>>
  <2>1. At(k, "failed") /\ reqId' \in Nat /\ reqId <= reqId' /\ closed' \in BOOLEAN
    BY <1>1, <1>5 DEF Fails, At
  <2>2. pending' \subseteq 1..reqId'
    <3>1. \A i \in 1..reqId : i \in 1..reqId'
      BY <1>1, <2>1
    <3>2. QED BY <1>1, <1>5, <3>1
  <2>3. UNCHANGED <<conns, loops, reader, writer>>
    BY <1>2, <1>5
  <2>4. QED BY <1>2, <1>3, <2>1, <2>2, <2>3, CallGoesOn
<1>6. CASE /\ writer = 0
           /\ Fails(k)
           /\ UNCHANGED <<closed, reqId, pending, conns>>
  <2>1. At(k, "failed") /\ reqId' \in Nat /\ reqId <= reqId' /\ closed' \in BOOLEAN
    BY <1>1, <1>6 DEF Fails, At
  <2>2. pending' \subseteq 1..reqId' /\ UNCHANGED <<conns, loops, reader, writer>>
    BY <1>1, <1>2, <1>6
  <2>3. QED BY <1>2, <1>3, <2>1, <2>2, CallGoesOn
<1>7. QED BY <1>4, <1>5, <1>6 DEF Send

LEMMA NothingNewOnOne ==
  ASSUME ElectrumInv, NEW c \in DOMAIN conns, DOMAIN conns' = DOMAIN conns,
         \A o \in DOMAIN conns : o # c => conns'[o] = conns[o],
         conns'[c].asked \subseteq Questions,
         \A j \in DOMAIN conns'[c].inbox : conns'[c].inbox[j] \in Questions
  PROVE  Questions' \subseteq Questions
<1>1. PICK E \in SUBSET Question : E = {}
  OBVIOUS
<1>2. /\ conns'[c].asked \subseteq Questions \cup E
      /\ \A j \in DOMAIN conns'[c].inbox : conns'[c].inbox[j] \in Questions \cup E
  BY <1>1
<1>3. Questions' \subseteq Questions \cup E
  BY <1>2, OneConnectionChanges
<1>4. QED BY <1>1, <1>3

(* The server's answers and lost connections. *)
LEMMA NetworkSteps ==
  ASSUME ElectrumInv, NEW c \in DOMAIN conns, ServerAnswers(c) \/ Drop(c)
  PROVE  ElectrumInv'
<1>1. /\ UNCHANGED <<closed, reader, writer, lock, reqId, pending, loops, calls>>
      /\ conns \in Seq(ConnectionType) /\ EndsType /\ CallsType /\ LockIsHeld
      /\ AnswersAreTheirOwn
  BY DEF ServerAnswers, Drop, ElectrumInv, EndsType
<1>2. conns[c].asked \in SUBSET Question /\ conns[c].inbox \in Seq(Question)
  <2>1. conns[c] \in ConnectionType
    BY OnItsWay
  <2>2. QED BY <2>1 DEF ConnectionType
<1> DEFINE NothingNew ==
             /\ conns' \in Seq(ConnectionType) /\ DOMAIN conns' = DOMAIN conns
             /\ Len(conns') = Len(conns)
             /\ \A o \in DOMAIN conns : o # c => conns'[o] = conns[o]
             /\ conns'[c].asked \subseteq Questions
             /\ \A j \in DOMAIN conns'[c].inbox : conns'[c].inbox[j] \in Questions
<1>3. NothingNew
  <2>1. ASSUME NEW q \in conns[c].asked,
               conns' = [conns EXCEPT ![c].asked = @ \ {q}, ![c].inbox = Append(@, q)]
        PROVE  NothingNew
    <3>1. PICK conn \in ConnectionType :
            conn = [conns[c] EXCEPT !.asked = @ \ {q}, !.inbox = Append(@, q)]
            /\ conn.asked = conns[c].asked \ {q} /\ conn.inbox = Append(conns[c].inbox, q)
      <4> DEFINE r == [conns[c] EXCEPT !.asked = conns[c].asked \ {q},
                                       !.inbox = Append(conns[c].inbox, q)]
      <4>1. Append(conns[c].inbox, q) \in Seq(Question) /\ conns[c].asked \ {q} \in SUBSET Question
        BY <1>2
      <4>2. conns[c] \in ConnectionType
        BY <1>1
      <4>3. /\ r \in ConnectionType /\ r.asked = conns[c].asked \ {q}
            /\ r.inbox = Append(conns[c].inbox, q)
        BY <4>1, <4>2 DEF ConnectionType
      <4>4. QED BY <4>3
    <3>2. conns' = [conns EXCEPT ![c] = conn]
      BY <1>1, <2>1, <3>1
    <3>3. conns'[c] = conn
      BY <1>1, <3>2
    <3>4. conn.asked \subseteq Questions
      BY <3>1, OnItsWay
    <3>5. \A j \in DOMAIN conn.inbox : conn.inbox[j] \in Questions
      <4>1. q \in Questions /\ \A j \in DOMAIN conns[c].inbox : conns[c].inbox[j] \in Questions
        BY OnItsWay
      <4>2. \A j \in DOMAIN conn.inbox : \/ j \in DOMAIN conns[c].inbox
                                            /\ conn.inbox[j] = conns[c].inbox[j]
                                         \/ conn.inbox[j] = q
        BY <1>2, <3>1
      <4>3. QED BY <4>1, <4>2
    <3>6. QED BY <1>1, <3>2, <3>3, <3>4, <3>5
  <2>2. ASSUME conns' = [conns EXCEPT ![c].open = FALSE, ![c].asked = {}]
        PROVE  NothingNew
    <3>1. PICK conn \in ConnectionType :
            conn = [conns[c] EXCEPT !.open = FALSE, !.asked = {}]
            /\ conn.asked = {} /\ conn.inbox = conns[c].inbox
      <4> DEFINE r == [conns[c] EXCEPT !.open = FALSE, !.asked = {}]
      <4>1. conns[c] \in ConnectionType
        BY <1>1
      <4>2. r \in ConnectionType /\ r.asked = {} /\ r.inbox = conns[c].inbox
        BY <4>1 DEF ConnectionType
      <4>3. QED BY <4>2
    <3>2. conns' = [conns EXCEPT ![c] = conn]
      BY <1>1, <2>2, <3>1
    <3>3. /\ conns' \in Seq(ConnectionType) /\ DOMAIN conns' = DOMAIN conns
          /\ Len(conns') = Len(conns) /\ conns'[c] = conn
          /\ \A o \in DOMAIN conns : o # c => conns'[o] = conns[o]
      BY <1>1, <3>2
    <3>4. \A j \in DOMAIN conns'[c].inbox : conns'[c].inbox[j] \in Questions
      BY <3>1, <3>3, OnItsWay
    <3>5. conns'[c].asked \subseteq Questions
      BY <3>1, <3>3
    <3>6. QED BY <3>3, <3>4, <3>5, Zenon
  <2>3. QED BY <2>1, <2>2 DEF ServerAnswers, Drop
<1>4. Questions' \subseteq Questions
  BY <1>3, NothingNewOnOne
<1>5. EndsType' /\ CallsType' /\ LockIsHeld'
  BY <1>1, <1>3 DEF EndsType, CallsType, LockIsHeld
<1>6. reqId <= reqId'
  BY <1>1 DEF CallsType
<1>7. /\ \A k \in Call : calls'[k].pc \in Awaits => calls[k].pc \in Awaits /\ calls'[k].id = calls[k].id
      /\ \A k \in Call : calls'[k].pc = "answered" => calls'[k].answer = k
  BY <1>1 DEF AnswersAreTheirOwn
<1>8. QED BY <1>4, <1>5, <1>6, <1>7, NothingAsked

(* The calls that a read loop or a cleanup wakes have no question left. *)
LEMMA CallsWake ==
  ASSUME ElectrumInv, NEW ids, ShakenOff(ids),
         DOMAIN calls' = Call, calls' = [k \in Call |-> calls'[k]],
         \A k \in Call :
           \/ calls'[k] = calls[k]
           \/ /\ calls[k].pc \in Awaits /\ calls[k].id \in ids \cap pending
              /\ calls'[k] \in CallType /\ calls'[k].id = 0
              /\ calls'[k].pc \in {"answered", "failed", "send"}
              /\ calls'[k].pc = "answered" => calls'[k].answer = k,
         pending' \subseteq pending, reqId' = reqId,
         EndsType', Questions' \subseteq Questions
  PROVE  ElectrumInv'
<1>1. CallsType /\ LockIsHeld /\ AnswersAreTheirOwn
  BY DEF ElectrumInv
<1>2. reqId \in Nat /\ reqId <= reqId'
  BY <1>1 DEF CallsType
<1>3. CallsType'
  <2>1. ASSUME NEW k \in Call PROVE calls'[k] \in CallType /\ calls'[k].id <= reqId'
    <3>1. calls[k] \in CallType /\ calls[k].id <= reqId' /\ 0 <= reqId'
      BY <1>1, <1>2 DEF CallsType
    <3>2. QED BY <3>1
  <2>2. calls' \in [Call -> CallType]
    BY <2>1
  <2>3. QED BY <1>1, <2>1, <2>2 DEF CallsType
<1>4. LockIsHeld'
  <2>1. lock' = 0 \/ (lock' = lock /\ lock # 0 /\ ~(calls[lock].pc = "shaking" /\ calls[lock].id \in ids \cap pending))
    BY DEF ShakenOff
  <2>2. ASSUME lock' = lock, lock # 0,
               ~(calls[lock].pc = "shaking" /\ calls[lock].id \in ids \cap pending)
        PROVE  lock \in Call /\ calls'[lock].pc \in {"opening", "shaking"}
    <3>1. lock \in Call /\ calls[lock].pc \in {"opening", "shaking"}
      BY <1>1, <2>2 DEF LockIsHeld
    <3>2. ~(calls[lock].pc \in Awaits /\ calls[lock].id \in ids \cap pending)
      BY <2>2, <3>1 DEF Awaits
    <3>3. QED BY <3>1, <3>2
  <2>3. QED BY <2>1, <2>2 DEF LockIsHeld
<1>5. \A k \in Call : calls'[k].pc \in Awaits => calls[k].pc \in Awaits /\ calls'[k].id = calls[k].id
  BY DEF Awaits
<1>6. \A k \in Call : calls'[k].pc = "answered" => calls'[k].answer = k
  BY <1>1 DEF AnswersAreTheirOwn
<1>7. QED BY <1>2, <1>3, <1>4, <1>5, <1>6, NothingAsked

(* One read loop goes on. *)
LEMMA OneLoopChanges ==
  ASSUME EndsType, NEW l \in DOMAIN loops, NEW loop \in LoopType,
         loops' = [loops EXCEPT ![l] = loop],
         loop.pc = "read" => loop.on \in DOMAIN conns,
         DOMAIN conns' = DOMAIN conns
  PROVE  /\ loops' \in Seq(LoopType)
         /\ \A o \in DOMAIN loops' : loops'[o].pc = "read" => loops'[o].on \in DOMAIN conns'
<1>1. /\ loops \in Seq(LoopType)
      /\ \A o \in DOMAIN loops : loops[o].pc = "read" => loops[o].on \in DOMAIN conns
  BY DEF EndsType
<1>2. /\ loops' \in Seq(LoopType) /\ DOMAIN loops' = DOMAIN loops /\ loops'[l] = loop
      /\ \A o \in DOMAIN loops : o # l => loops'[o] = loops[o]
  BY <1>1
<1>3. QED BY <1>1, <1>2

LEMMA LoopSteps ==
  ASSUME ElectrumInv, NEW l \in DOMAIN loops,
         LoopStart(l) \/ LoopTop(l) \/ LoopEnd(l) \/ Forget(l)
  PROVE  ElectrumInv'
<1>1. /\ EndsType /\ CallsType /\ LockIsHeld /\ AnswersAreTheirOwn
      /\ loops[l] \in LoopType /\ reader \in 0..Len(conns) /\ DOMAIN conns = 1..Len(conns)
      /\ Len(conns) \in Nat /\ loops \in Seq(LoopType)
  BY DEF ElectrumInv, EndsType
<1>2. UNCHANGED <<closed, lock, reqId, pending, conns, calls>>
  BY DEF LoopStart, LoopTop, LoopEnd, Forget
<1>3. reader' = writer' /\ writer' \in 0..Len(conns)
  <2>1. 0 \in 0..Len(conns)
    BY <1>1
  <2>2. QED BY <1>1, <2>1 DEF LoopStart, LoopTop, LoopEnd, Forget, EndsType
<1>4. PICK loop \in LoopType : /\ loops' = [loops EXCEPT ![l] = loop]
                               /\ loop.pc = "read" => loop.on \in DOMAIN conns
  <2>1. ASSUME NEW pc \in {"start", "top", "read", "cleanup", "closing", "ended"}, pc # "read",
               loops' = [loops EXCEPT ![l].pc = pc]
        PROVE  \E loop \in LoopType : /\ loops' = [loops EXCEPT ![l] = loop]
                                      /\ loop.pc = "read" => loop.on \in DOMAIN conns
    <3> DEFINE r == [loops[l] EXCEPT !.pc = pc]
    <3>1. r \in LoopType /\ r.pc # "read"
      BY <1>1, <2>1 DEF LoopType
    <3>2. loops' = [loops EXCEPT ![l] = r]
      BY <1>1, <2>1
    <3> HIDE DEF r
    <3>3. QED BY <3>1, <3>2
  <2>2. CASE LoopStart(l)
    <3>1. PICK pc \in {"ended", "top"} : loops' = [loops EXCEPT ![l].pc = pc]
      BY <2>2 DEF LoopStart
    <3>2. QED BY <2>1, <3>1
  <2>3. CASE LoopTop(l)
    <3>1. CASE loops' = [loops EXCEPT ![l] = [pc |-> "cleanup", on |-> 0]]
      <4>1. [pc |-> "cleanup", on |-> 0] \in LoopType
        BY DEF LoopType
      <4>2. QED BY <3>1, <4>1
    <3>2. CASE reader # 0 /\ loops' = [loops EXCEPT ![l] = [pc |-> "read", on |-> reader]]
      <4>1. reader \in DOMAIN conns /\ reader \in Nat
        BY <1>1, <3>2
      <4>2. [pc |-> "read", on |-> reader] \in LoopType
        BY <4>1 DEF LoopType
      <4>3. QED BY <3>2, <4>1, <4>2
    <3>3. QED BY <2>3, <3>1, <3>2 DEF LoopTop
  <2>4. CASE LoopEnd(l)
    <3>1. loops' = [loops EXCEPT ![l] = [pc |-> "cleanup", on |-> 0]]
      BY <2>4 DEF LoopEnd
    <3>2. [pc |-> "cleanup", on |-> 0] \in LoopType
      BY DEF LoopType
    <3>3. QED BY <3>1, <3>2
  <2>5. CASE Forget(l)
    <3>1. loops' = [loops EXCEPT ![l].pc = "ended"]
      BY <2>5 DEF Forget
    <3>2. QED BY <2>1, <3>1
  <2>6. QED BY <2>2, <2>3, <2>4, <2>5
<1>5. /\ loops' \in Seq(LoopType)
      /\ \A o \in DOMAIN loops' : loops'[o].pc = "read" => loops'[o].on \in DOMAIN conns'
  BY <1>1, <1>2, <1>4, OneLoopChanges
<1>6. EndsType'
  BY <1>1, <1>2, <1>3, <1>5 DEF EndsType
<1>7. CallsType' /\ LockIsHeld'
  BY <1>1, <1>2 DEF CallsType, LockIsHeld
<1>8. Questions' = Questions
  BY <1>2 DEF Questions
<1>9. Questions' \subseteq Questions /\ reqId <= reqId'
  BY <1>1, <1>2, <1>8 DEF CallsType
<1>10. /\ \A k \in Call : calls'[k].pc \in Awaits => calls[k].pc \in Awaits /\ calls'[k].id = calls[k].id
       /\ \A k \in Call : calls'[k].pc = "answered" => calls'[k].answer = k
  BY <1>1, <1>2 DEF AnswersAreTheirOwn
<1>11. QED BY <1>6, <1>7, <1>9, <1>10, NothingAsked

(* An answer is handed to the call that waits under its number, if any does. *)
LEMMA ReadingLoopStep ==
  ASSUME ElectrumInv, NEW l \in DOMAIN loops, LoopRead(l)
  PROVE  ElectrumInv'
<1>1. EndsType /\ CallsType /\ QuestionsKnown /\ conns \in Seq(ConnectionType)
  BY DEF ElectrumInv, EndsType
<1>2. PICK c \in DOMAIN conns : c = loops[l].on
  BY DEF LoopRead, ElectrumInv, EndsType
<1>3. conns[c] \in ConnectionType /\ conns[c].inbox \in Seq(Question) /\ conns[c].inbox # <<>>
  BY <1>2, OnItsWay DEF ConnectionType, LoopRead
<1>4. PICK i \in Nat, said \in Call : conns[c].inbox[1] = <<i, said>>
  <2>1. 1 \in DOMAIN conns[c].inbox
    BY <1>3
  <2>2. conns[c].inbox[1] \in Question
    BY <1>3, <2>1
  <2>3. QED BY <2>2 DEF Question
<1>5. <<i, said>> \in Questions
  <2>1. 1 \in DOMAIN conns[c].inbox
    BY <1>3
  <2>2. QED BY <1>4, <2>1, OnItsWay
<1>6. /\ conns' = [conns EXCEPT ![c].inbox = Tail(@)]
      /\ Resolve(i, said) /\ ShakenOff({i}) /\ pending' = pending \ {i}
      /\ loops' = [loops EXCEPT ![l] = [pc |-> "top", on |-> 0]]
      /\ UNCHANGED <<closed, reader, writer, reqId>>
  BY <1>2, <1>4 DEF LoopRead
<1>7. PICK conn \in ConnectionType :
        conn = [conns[c] EXCEPT !.inbox = Tail(conns[c].inbox)]
        /\ conn.asked = conns[c].asked /\ conn.inbox = Tail(conns[c].inbox)
  <2> DEFINE r == [conns[c] EXCEPT !.inbox = Tail(conns[c].inbox)]
  <2>1. Tail(conns[c].inbox) \in Seq(Question)
    BY <1>3
  <2>2. r \in ConnectionType /\ r.asked = conns[c].asked /\ r.inbox = Tail(conns[c].inbox)
    BY <1>3, <2>1 DEF ConnectionType
  <2>3. QED BY <2>2
<1>8. conns' = [conns EXCEPT ![c] = conn]
  BY <1>1, <1>6, <1>7
<1>9. /\ conns' \in Seq(ConnectionType) /\ DOMAIN conns' = DOMAIN conns
      /\ Len(conns') = Len(conns) /\ conns'[c] = conn
      /\ \A o \in DOMAIN conns : o # c => conns'[o] = conns[o]
  BY <1>1, <1>8
<1>10. Questions' \subseteq Questions
  <2>1. \A j \in DOMAIN conn.inbox : conn.inbox[j] \in Questions
    <3>1. \A j \in DOMAIN Tail(conns[c].inbox) :
            j + 1 \in DOMAIN conns[c].inbox /\ Tail(conns[c].inbox)[j] = conns[c].inbox[j + 1]
      BY <1>3
    <3>2. QED BY <1>7, <3>1, OnItsWay
  <2>2. \A j \in DOMAIN conns'[c].inbox : conns'[c].inbox[j] \in Questions
    BY <1>9, <2>1
  <2>3. conns'[c].asked \subseteq Questions
    BY <1>7, <1>9, OnItsWay
  <2>4. QED BY <1>9, <2>2, <2>3, NothingNewOnOne
<1>11. EndsType'
  <2>1. PICK loop \in LoopType : loop = [pc |-> "top", on |-> 0]
    BY DEF LoopType
  <2>2. loops' = [loops EXCEPT ![l] = loop] /\ loop.pc # "read"
    BY <1>6, <2>1
  <2>3. /\ loops' \in Seq(LoopType)
        /\ \A o \in DOMAIN loops' : loops'[o].pc = "read" => loops'[o].on \in DOMAIN conns'
    BY <1>1, <1>9, <2>2, OneLoopChanges
  <2>4. QED BY <1>1, <1>6, <1>9, <2>3 DEF EndsType
<1>12. \A k \in Call : calls[k].pc \in Awaits /\ calls[k].id = i => k = said
  <2>1. <<i, said>>[1] = i /\ <<i, said>>[2] = said
    OBVIOUS
  <2>2. QED BY <1>1, <1>5, <2>1 DEF QuestionsKnown
<1>13. DOMAIN calls' = Call /\ calls' = [k \in Call |-> calls'[k]]
  BY <1>6, Zenon DEF Resolve
<1>14. ASSUME NEW k \in Call
       PROVE  \/ calls'[k] = calls[k]
              \/ /\ calls[k].pc \in Awaits /\ calls[k].id \in {i} \cap pending
                 /\ calls'[k] \in CallType /\ calls'[k].id = 0
                 /\ calls'[k].pc \in {"answered", "failed", "send"}
                 /\ calls'[k].pc = "answered" => calls'[k].answer = k
  <2>1. calls'[k] = CASE i \in pending /\ calls[k].id = i /\ calls[k].pc = "waiting" ->
                           [NewCall EXCEPT !.pc = "answered", !.answer = said]
                      [] i \in pending /\ calls[k].id = i /\ calls[k].pc = "shaking" ->
                           [NewCall EXCEPT !.pc = "send"]
                      [] OTHER -> calls[k]
    BY <1>6 DEF Resolve
  <2>2. CASE i \in pending /\ calls[k].id = i /\ calls[k].pc = "waiting"
    <3>1. k = said
      BY <1>12, <2>2 DEF Awaits
    <3>2. calls'[k] = [pc |-> "answered", id |-> 0, on |-> 0, answer |-> said]
      <4>1. calls'[k] = [NewCall EXCEPT !.pc = "answered", !.answer = said]
        BY <2>1, <2>2
      <4>2. QED BY <4>1 DEF NewCall
    <3>3. said \in Nat
      BY ElectrumClientAssumption
    <3>4. /\ calls'[k] \in CallType /\ calls'[k].id = 0
          /\ calls'[k].pc = "answered" /\ calls'[k].answer = said
      BY <3>2, <3>3 DEF CallType
    <3>5. QED BY <2>2, <3>1, <3>4 DEF Awaits
  <2>3. CASE i \in pending /\ calls[k].id = i /\ calls[k].pc = "shaking"
    <3>1. calls'[k] = [NewCall EXCEPT !.pc = "send"]
      BY <2>1, <2>3
    <3>2. calls'[k] \in CallType /\ calls'[k].id = 0 /\ calls'[k].pc = "send"
      BY <3>1 DEF NewCall, CallType
    <3>3. QED BY <2>3, <3>2 DEF Awaits
  <2>4. CASE /\ ~(i \in pending /\ calls[k].id = i /\ calls[k].pc = "waiting")
             /\ ~(i \in pending /\ calls[k].id = i /\ calls[k].pc = "shaking")
    BY <2>1, <2>4
  <2>5. QED BY <2>2, <2>3, <2>4
<1>15. pending' \subseteq pending /\ reqId' = reqId /\ ShakenOff({i})
  BY <1>6
<1>16. QED BY <1>10, <1>11, <1>13, <1>14, <1>15, CallsWake

(* A cleanup fails the futures there are and closes whatever writer there is. *)
LEMMA CleanupStep ==
  ASSUME ElectrumInv, NEW l \in DOMAIN loops, Cleanup(l)
  PROVE  ElectrumInv'
<1>1. EndsType /\ CallsType /\ conns \in Seq(ConnectionType)
  BY DEF ElectrumInv, EndsType
<1>2. /\ closed' = TRUE /\ ShakenOff(pending) /\ pending' = {}
      /\ loops' = [loops EXCEPT ![l].pc = "closing"]
      /\ UNCHANGED <<reader, writer, reqId>>
  BY DEF Cleanup
<1>3. /\ conns' \in Seq(ConnectionType) /\ DOMAIN conns' = DOMAIN conns
      /\ Len(conns') = Len(conns) /\ Questions' \subseteq Questions
  <2>1. CASE writer = 0
    <3>1. conns' = conns
      BY <2>1 DEF Cleanup
    <3>2. Questions' = Questions
      BY <3>1 DEF Questions
    <3>3. QED BY <1>1, <3>1, <3>2
  <2>2. CASE writer # 0
    <3>1. PICK c \in DOMAIN conns : c = writer
      BY <1>1, <2>2 DEF EndsType
    <3>2. conns' = [conns EXCEPT ![c].open = FALSE, ![c].asked = {}]
      BY <2>2, <3>1 DEF Cleanup
    <3>3. PICK conn \in ConnectionType :
            conn = [conns[c] EXCEPT !.open = FALSE, !.asked = {}]
            /\ conn.asked = {} /\ conn.inbox = conns[c].inbox
      <4> DEFINE r == [conns[c] EXCEPT !.open = FALSE, !.asked = {}]
      <4>1. conns[c] \in ConnectionType
        BY <1>1
      <4>2. r \in ConnectionType /\ r.asked = {} /\ r.inbox = conns[c].inbox
        BY <4>1 DEF ConnectionType
      <4>3. QED BY <4>2
    <3>4. conns' = [conns EXCEPT ![c] = conn]
      BY <1>1, <3>2, <3>3
    <3>5. /\ conns' \in Seq(ConnectionType) /\ DOMAIN conns' = DOMAIN conns
          /\ Len(conns') = Len(conns) /\ conns'[c] = conn
          /\ \A o \in DOMAIN conns : o # c => conns'[o] = conns[o]
      BY <1>1, <3>4
    <3>6. \A j \in DOMAIN conns'[c].inbox : conns'[c].inbox[j] \in Questions
      BY <3>3, <3>5, OnItsWay
    <3>7. conns'[c].asked \subseteq Questions
      BY <3>3, <3>5
    <3>8. QED BY <3>5, <3>6, <3>7, NothingNewOnOne
  <2>3. QED BY <2>1, <2>2
<1>4. EndsType'
  <2>1. PICK loop \in LoopType : loop = [loops[l] EXCEPT !.pc = "closing"] /\ loop.pc # "read"
    <3> DEFINE r == [loops[l] EXCEPT !.pc = "closing"]
    <3>1. loops[l] \in LoopType
      BY <1>1 DEF EndsType
    <3>2. r \in LoopType /\ r.pc # "read"
      BY <3>1 DEF LoopType
    <3>3. QED BY <3>2
  <2>2. loops' = [loops EXCEPT ![l] = loop]
    BY <1>1, <1>2, <2>1 DEF EndsType
  <2>3. /\ loops' \in Seq(LoopType)
        /\ \A o \in DOMAIN loops' : loops'[o].pc = "read" => loops'[o].on \in DOMAIN conns'
    BY <1>1, <1>3, <2>1, <2>2, OneLoopChanges
  <2>4. QED BY <1>1, <1>2, <1>3, <2>3 DEF EndsType
<1>5. DOMAIN calls' = Call /\ calls' = [k \in Call |-> calls'[k]]
  BY Zenon DEF Cleanup
<1>6. ASSUME NEW k \in Call
      PROVE  \/ calls'[k] = calls[k]
             \/ /\ calls[k].pc \in Awaits /\ calls[k].id \in pending \cap pending
                /\ calls'[k] \in CallType /\ calls'[k].id = 0
                /\ calls'[k].pc \in {"answered", "failed", "send"}
                /\ calls'[k].pc = "answered" => calls'[k].answer = k
  <2>1. calls'[k] = CASE calls[k].id \in pending /\ calls[k].pc = "waiting" ->
                           [NewCall EXCEPT !.pc = "failed"]
                      [] calls[k].id \in pending /\ calls[k].pc = "shaking" ->
                           [NewCall EXCEPT !.pc = "send"]
                      [] OTHER -> calls[k]
    BY DEF Cleanup
  <2>2. ASSUME NEW pc \in {"failed", "send"}, calls'[k] = [NewCall EXCEPT !.pc = pc]
        PROVE  /\ calls'[k] \in CallType /\ calls'[k].id = 0
               /\ calls'[k].pc \in {"answered", "failed", "send"}
               /\ calls'[k].pc # "answered"
    BY <2>2 DEF NewCall, CallType
  <2>3. CASE calls[k].id \in pending /\ calls[k].pc = "waiting"
    <3>1. calls'[k] = [NewCall EXCEPT !.pc = "failed"]
      BY <2>1, <2>3
    <3>2. QED BY <2>2, <2>3, <3>1 DEF Awaits
  <2>4. CASE calls[k].id \in pending /\ calls[k].pc = "shaking"
    <3>1. calls'[k] = [NewCall EXCEPT !.pc = "send"]
      BY <2>1, <2>4
    <3>2. QED BY <2>2, <2>4, <3>1 DEF Awaits
  <2>5. CASE /\ ~(calls[k].id \in pending /\ calls[k].pc = "waiting")
             /\ ~(calls[k].id \in pending /\ calls[k].pc = "shaking")
    BY <2>1, <2>5
  <2>6. QED BY <2>3, <2>4, <2>5
<1>7. pending' \subseteq pending /\ reqId' = reqId
  BY <1>2
<1>8. QED BY <1>2, <1>3, <1>4, <1>5, <1>6, <1>7, CallsWake

LEMMA ElectrumStays == ElectrumInv /\ [Next]_vars => ElectrumInv'
<1> SUFFICES ASSUME ElectrumInv, [Next]_vars PROVE ElectrumInv'
  OBVIOUS
<1>1. CASE ElectrumNext
  <2>1. ASSUME NEW k \in Call, Begin(k) \/ CallStep(k) \/ Cancel(k)
        PROVE  ElectrumInv'
    BY <2>1, CallsWithoutQuestion, OpeningStep, SendingStep DEF CallStep
  <2>2. ASSUME NEW l \in DOMAIN loops, LoopStep(l)
        PROVE  ElectrumInv'
    BY <2>2, LoopSteps, ReadingLoopStep, CleanupStep DEF LoopStep
  <2>3. QED BY <1>1, <2>1, <2>2, NetworkSteps DEF ElectrumNext
<1>2. CASE UNCHANGED electrum
  <2>1. UNCHANGED <<closed, reader, writer, lock, reqId, pending, conns, loops, calls>>
    BY <1>2 DEF electrum
  <2>2. EndsType' /\ CallsType' /\ LockIsHeld'
    BY <2>1 DEF ElectrumInv, EndsType, CallsType, LockIsHeld
  <2>3. Questions' = Questions
    BY <2>1 DEF Questions
  <2>4. QuestionsKnown' /\ AnswersAreTheirOwn'
    BY <2>1, <2>3 DEF ElectrumInv, QuestionsKnown, AnswersAreTheirOwn
  <2>5. QED BY <2>2, <2>4 DEF ElectrumInv
<1>3. QED BY <1>1, <1>2 DEF Next, vars, Others

(* Over one ElectrumX connection, replaced, cleaned up and read by more than one
   loop, and in one batch to the node, everyone is given the answer to what he
   asked. *)
THEOREM AnswersReachTheirCallers == Spec => []AnswersMatch
<1>1. ElectrumInv /\ RpcInv => AnswersMatch
  BY ResultsFollow DEF ElectrumInv, AnswersMatch
<1>2. QED BY ElectrumStarts, ElectrumStays, RpcStarts, RpcStays, <1>1, PTL DEF Spec

-----------------------------------------------------------------------------
(* The types of all parts together. *)
Codes == {0, 200, 404, 409, 500}

RegistryBounds ==
  /\ Len(pools) <= MaxPools
  /\ \A r \in Applicant \cup Admin : request[r].code \in Codes

LEMMA RegistryBoundsStay ==
  ASSUME RegistryInv, RegistryBounds, [Next]_vars
  PROVE  RegistryBounds'
<1>1. /\ request \in [Applicant \cup Admin -> RequestType] /\ pools \in Seq(PoolRow)
      /\ Len(pools) \in Nat /\ Len(pools) <= MaxPools /\ MaxPools \in Nat
  BY PoolRegistryAssumption DEF RegistryInv, RegistryType, RegistryBounds
<1>2. ASSUME NEW r \in Applicant \cup Admin, NEW code \in Codes, Answers(r, code)
      PROVE  \A s \in Applicant \cup Admin : request'[s].code \in Codes
  <2>1. [Idle EXCEPT !.pc = "done", !.code = code].code = code
    BY DEF Idle
  <2>2. request' = [request EXCEPT ![r] = [Idle EXCEPT !.pc = "done", !.code = code]]
    BY <1>2 DEF Answers
  <2>3. QED BY <1>1, <2>1, <2>2 DEF RegistryBounds
<1>3. 200 \in Codes /\ 404 \in Codes /\ 409 \in Codes /\ 500 \in Codes /\ 0 \in Codes
  BY DEF Codes
<1>4. ASSUME NEW r \in Applicant \cup Admin, NEW q, q.code = 0,
             request' = [request EXCEPT ![r] = q]
      PROVE  \A s \in Applicant \cup Admin : request'[s].code \in Codes
  BY <1>1, <1>3, <1>4 DEF RegistryBounds
<1>5. ASSUME NEW r \in Admin, BeginCreate(r)
      PROVE  RegistryBounds'
  <2>1. PICK a \in Address \cup {NoAddress}, s \in PoolStatus, blank \in BOOLEAN :
          request' = [request EXCEPT ![r] =
            [Idle EXCEPT !.pc = "check", !.address = a, !.status = s, !.blank = blank,
                         !.sought = [address |-> a, status |-> s]]]
    BY <1>5 DEF BeginCreate
  <2>2. [Idle EXCEPT !.pc = "check", !.address = a, !.status = s, !.blank = blank,
                     !.sought = [address |-> a, status |-> s]].code = 0
    BY DEF Idle
  <2>3. \A s1 \in Applicant \cup Admin : request'[s1].code \in Codes
    BY <1>4, <2>1, <2>2
  <2>4. pools' = pools
    BY <1>5 DEF BeginCreate
  <2>5. QED BY <1>1, <2>3, <2>4 DEF RegistryBounds
<1>6. ASSUME NEW r \in Admin, BeginUpdate(r)
      PROVE  RegistryBounds'
  <2>1. pools' = pools
    BY <1>6 DEF BeginUpdate
  <2>2. PICK id \in Ids, a \in Address \cup {NoAddress, NotGiven},
             s \in PoolStatus \cup {NotGiven}, blank \in BOOLEAN :
          IF id \notin DOMAIN pools
          THEN Answers(r, 404)
          ELSE request' = [request EXCEPT ![r] =
              [Idle EXCEPT !.pc = "check", !.id = id, !.address = a, !.status = s, !.blank = blank,
                 !.sought = [address |-> IF a = NotGiven THEN pools[id].address ELSE a,
                             status  |-> IF s = NotGiven THEN pools[id].status ELSE s]]]
    BY <1>6 DEF BeginUpdate
  <2>3. CASE id \notin DOMAIN pools
    <3>1. Answers(r, 404)
      BY <2>2, <2>3
    <3>2. QED BY <1>1, <1>2, <1>3, <2>1, <3>1 DEF RegistryBounds
  <2>4. CASE id \in DOMAIN pools
    <3>1. PICK sought : request' = [request EXCEPT ![r] =
              [Idle EXCEPT !.pc = "check", !.id = id, !.address = a, !.status = s, !.blank = blank,
                           !.sought = sought]]
      BY <2>2, <2>4
    <3>2. [Idle EXCEPT !.pc = "check", !.id = id, !.address = a, !.status = s, !.blank = blank,
                       !.sought = sought].code = 0
      BY DEF Idle
    <3>3. \A s1 \in Applicant \cup Admin : request'[s1].code \in Codes
      BY <1>4, <3>1, <3>2
    <3>4. QED BY <1>1, <2>1, <3>3 DEF RegistryBounds
  <2>5. QED BY <2>3, <2>4
<1>7. ASSUME NEW r \in Admin, CheckUnique(r)
      PROVE  RegistryBounds'
  <2>1. pools' = pools
    BY <1>7 DEF CheckUnique
  <2>2. CASE Answers(r, 409)
    BY <1>1, <1>2, <1>3, <2>1, <2>2 DEF RegistryBounds
  <2>3. CASE Proceeds(r)
    <3>1. \A s \in Applicant \cup Admin : request'[s].code = request[s].code
      BY <1>1, <2>3 DEF Proceeds, RequestType
    <3>2. QED BY <1>1, <2>1, <3>1 DEF RegistryBounds
  <2>4. QED BY <1>7, <2>2, <2>3 DEF CheckUnique
<1>8. ASSUME NEW r \in Applicant, Apply(r)
      PROVE  RegistryBounds'
  <2>1. pools' = pools
    BY <1>8 DEF Apply
  <2>2. CASE Answers(r, 409)
    BY <1>1, <1>2, <1>3, <2>1, <2>2 DEF RegistryBounds
  <2>3. ASSUME NEW a \in Address,
               request' = [request EXCEPT ![r] = [Idle EXCEPT !.pc = "write", !.address = a]]
        PROVE  RegistryBounds'
    <3>1. [Idle EXCEPT !.pc = "write", !.address = a].code = 0
      BY DEF Idle
    <3>2. \A s \in Applicant \cup Admin : request'[s].code \in Codes
      BY <1>4, <2>3, <3>1
    <3>3. QED BY <1>1, <2>1, <3>2 DEF RegistryBounds
  <2>4. PICK a \in Address :
          \/ Answers(r, 409)
          \/ request' = [request EXCEPT ![r] = [Idle EXCEPT !.pc = "write", !.address = a]]
    BY Zenon, <1>8 DEF Apply
  <2>5. QED BY Zenon, <2>2, <2>3, <2>4
<1>9. ASSUME NEW r \in Applicant \cup Admin, NEW row,
             \/ Answers(r, 200) /\ Len(pools) < MaxPools /\ pools' = Append(pools, row)
             \/ Answers(r, 409) /\ UNCHANGED pools
             \/ Answers(r, 500) /\ UNCHANGED pools
      PROVE  RegistryBounds'
  <2>1. \A s \in Applicant \cup Admin : request'[s].code \in Codes
    BY <1>2, <1>3, <1>9
  <2>2. Len(pools') <= MaxPools
    <3>1. CASE Len(pools) < MaxPools /\ pools' = Append(pools, row)
      <4>1. Len(pools') = Len(pools) + 1
        BY <1>1, <3>1
      <4>2. QED BY <1>1, <3>1, <4>1
    <3>2. CASE UNCHANGED pools
      BY <1>1, <3>2
    <3>3. QED BY <1>9, <3>1, <3>2
  <2>3. QED BY <2>1, <2>2 DEF RegistryBounds
<1>10. ASSUME NEW r \in Admin, Create(r) PROVE RegistryBounds'
  BY <1>9, <1>10 DEF Create
<1>11. ASSUME NEW r \in Admin, Update(r) PROVE RegistryBounds'
  <2>1. PICK row :
          \/ Answers(r, 200) /\ pools' = [pools EXCEPT ![request[r].id] = row]
          \/ Answers(r, 409) /\ UNCHANGED pools
          \/ Answers(r, 500) /\ UNCHANGED pools
    BY Zenon, <1>11 DEF Update
  <2>2. r \in Applicant \cup Admin
    OBVIOUS
  <2>3. \A s \in Applicant \cup Admin : request'[s].code \in Codes
    BY <1>2, <1>3, <2>1, <2>2
  <2>4. Len(pools') = Len(pools)
    BY <1>1, <2>1
  <2>5. QED BY <1>1, <2>3, <2>4 DEF RegistryBounds
<1>12. ASSUME NEW r \in Applicant, Register(r) PROVE RegistryBounds'
  BY <1>9, <1>12 DEF Register
<1>13. CASE UNCHANGED registry
  BY <1>1, <1>13 DEF registry, RegistryBounds
<1>14. CASE RegistryNext
  BY <1>5, <1>6, <1>7, <1>8, <1>10, <1>11, <1>12, <1>14 DEF RegistryNext, RegistryStep
<1>15. QED BY <1>13, <1>14 DEF Next, vars, Others

(* The lock of the connection is held only by a call that opens one, the scan
   of the supply only by a request that makes it, and what is read of a minute
   is never more than there are requests. *)
THEOREM ServicesTyped == Spec => []TypeOK
<1>1. Init => RegistryBounds
  <2>1. SUFFICES ASSUME Init PROVE RegistryBounds
    OBVIOUS
  <2>2. pools = <<>> /\ request = [r \in Applicant \cup Admin |-> Idle]
    BY <2>1 DEF Init, RegistryInit
  <2>3. Len(pools) = 0 /\ MaxPools \in Nat
    BY <2>2, PoolRegistryAssumption
  <2>4. \A r \in Applicant \cup Admin : request[r].code = 0
    BY <2>2 DEF Idle
  <2>5. QED BY <2>3, <2>4 DEF RegistryBounds, Codes
<1>2. RegistryInv /\ RegistryBounds /\ [Next]_vars => RegistryBounds'
  BY RegistryBoundsStay
<1>3. RegistryInv /\ RegistryBounds /\ LimiterInv /\ ElectrumInv /\ RpcInv /\ SupplyInv => TypeOK
  <2>1. SUFFICES ASSUME RegistryInv, RegistryBounds, LimiterInv, ElectrumInv, RpcInv, SupplyInv
                 PROVE  TypeOK
    OBVIOUS
  <2>2. /\ Len(pools) <= MaxPools
        /\ \A r \in Applicant \cup Admin : request[r].code \in {0, 200, 404, 409, 500}
    BY <2>1 DEF RegistryBounds, Codes
  <2>8. ASSUME NEW i \in DOMAIN pools
        PROVE  /\ pools[i].address \in Address \cup {NoAddress}
               /\ pools[i].status \in PoolStatus
               /\ pools[i].by \in Applicant \cup {"admin"}
    <3>1. pools \in Seq(PoolRow)
      BY <2>1 DEF RegistryInv, RegistryType
    <3>2. pools[i] \in PoolRow
      BY <3>1
    <3>3. QED BY <3>2 DEF PoolRow
  <2>3. ASSUME NEW m \in Minutes PROVE counter[m].count <= Cardinality(Visit)
    <3>1. Past(m) \in SUBSET Visit /\ Visit \in SUBSET Visit
      BY DEF Past
    <3>2. /\ Cardinality(Past(m)) \in Nat /\ Cardinality(Visit) \in Nat
          /\ Cardinality(Past(m)) <= Cardinality(Visit)
      BY <3>1, SetsOfVisits
    <3>3. counter[m].count <= Cardinality(Past(m)) /\ counter[m].count \in Nat
      BY <2>1 DEF LimiterInv, LimiterType, CountsWereRaised
    <3>4. QED BY <3>2, <3>3
  <2>4. /\ closed \in BOOLEAN /\ reader = writer /\ writer \in 0..Len(conns)
        /\ lock = 0 \/ calls[lock].pc \in {"opening", "shaking"}
        /\ pending \subseteq 1..reqId
    BY <2>1 DEF ElectrumInv, EndsType, CallsType, LockIsHeld
  <2>5. http \in 0..made /\ shut \subseteq 1..made
    BY <2>1 DEF RpcInv, RpcType
  <2>6. /\ scanning = Nobody \/ asking[scanning].pc \in {"scan", "fallback"}
        /\ supply.computedAt <= supply.made /\ supply.made <= time
    BY <2>1 DEF SupplyInv, ScanIsHeld, RowInStep
  <2>7. QED BY <2>2, <2>8, <2>3, <2>4, <2>5, <2>6 DEF TypeOK
<1>4. QED
  BY RegistryStarts, RegistryStays, LimiterStarts, LimiterStays, ElectrumStarts, ElectrumStays,
     RpcStarts, RpcStays, SupplyStarts, SupplyStays, <1>1, <1>2, <1>3, PTL DEF Spec
=============================================================================
