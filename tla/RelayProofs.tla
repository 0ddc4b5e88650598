---------------------------- MODULE RelayProofs ----------------------------
(* Proofs about Relay, for any number of requests, clients and limits.      *)
EXTENDS Relay, FiniteSetTheorems, TLAPS

(***************************************************************************)
(* Where a request stands: it has asked for its days, it is no fallback     *)
(* before the gate says so, and it is booked as a cost only if it is live.  *)
(***************************************************************************)
StageInv ==
  \A r \in Requests :
    /\ pc[r] \notin {"idle", "rejected"} => checked[r] \in Days
    /\ pc[r] \in {"idle", "rejected", "check_ip", "check_session", "check_cost"} =>
         reason[r] = "none"
    /\ pc[r] \in {"read_ip", "write_ip"} \cup IpBooked => booked[r] \in Days
    /\ pc[r] \in {"read_cost", "write_cost"} => reason[r] = "none"

(* A thread about to write a counter has not read more than is booked.      *)
SeenInv ==
  \A r \in Requests :
    /\ pc[r] = "write_ip" => seen[r] <= Cardinality(InIpBook(ip[r], booked[r]))
    /\ pc[r] = "write_session" => seen[r] <= Cardinality(InSessionBook(session[r]))
    /\ pc[r] = "write_cost" =>
         seen[r] <= CostPerRun * Cardinality(InCostBook(booked[r]))

IInv == TypeOK /\ StageInv /\ SeenInv /\ NeverOvercount /\ RefusalsAreBooked

(* Of two sets of requests, the larger has at least as many; one more       *)
(* request makes one more.                                                  *)
LEMMA Counting ==
  ASSUME NEW S \in SUBSET Requests, NEW T \in SUBSET Requests, S \subseteq T
  PROVE  /\ Cardinality(S) \in Nat /\ Cardinality(T) \in Nat
         /\ Cardinality(S) <= Cardinality(T)
         /\ \A r \in T \ S : Cardinality(S) + 1 <= Cardinality(T)
<1>1. IsFiniteSet(T) /\ IsFiniteSet(S)
  BY RequestAssumption, FS_Subset
<1>2. Cardinality(S) \in Nat /\ Cardinality(T) \in Nat /\ Cardinality(S) <= Cardinality(T)
  BY <1>1, FS_Subset, FS_CardinalityType
<1>3. ASSUME NEW r \in T \ S PROVE Cardinality(S) + 1 <= Cardinality(T)
  <2>1. Cardinality(S \cup {r}) = Cardinality(S) + 1
    BY <1>1, FS_AddElement
  <2>2. S \cup {r} \subseteq T
    BY <1>3
  <2>3. Cardinality(S \cup {r}) <= Cardinality(T)
    BY <1>1, <2>2, FS_Subset
  <2>4. QED BY <2>1, <2>3
<1>4. QED BY <1>2, <1>3

(* Costs grow with the number of runs.                                      *)
LEMMA Costs ==
  ASSUME NEW m \in Nat, NEW n \in Nat
  PROVE  /\ m <= n => CostPerRun * m <= CostPerRun * n
         /\ CostPerRun * (m + 1) = CostPerRun * m + CostPerRun
         /\ CostPerRun * m \in Nat
BY ConfigAssumption

(* A table of counts stays one when an entry is replaced by a count.        *)
LEMMA Update ==
  ASSUME NEW D, NEW f \in [D -> Nat], NEW k, NEW n \in Nat
  PROVE  [f EXCEPT ![k] = n] \in [D -> Nat]
OBVIOUS

(* Every step keeps the types. *)
LEMMA TypeStep == ASSUME TypeOK, StageInv, [Next]_vars PROVE TypeOK'
<1> USE ConfigAssumption, DayAssumption DEF TypeOK, Goto, books
<1>1. CASE UNCHANGED vars
  BY <1>1 DEF vars
<1>2. ASSUME NEW r \in Requests, NEW scenario \in Scenarios, NEW length \in Lengths,
             Arrive(r, scenario, length)
      PROVE  TypeOK'
  BY <1>2 DEF Arrive, Labels
<1>3. ASSUME NEW r \in Requests, CheckIp(r) \/ CheckSession(r) \/ CheckCost(r)
      PROVE  TypeOK'
  BY <1>3 DEF CheckIp, CheckSession, CheckCost, Gate, Labels, Reasons
<1>4. ASSUME NEW r \in Requests, Book(r) \/ Respond(r) PROVE TypeOK'
  BY <1>4 DEF Book, Respond, Labels
<1>5. ASSUME NEW r \in Requests, ReadIp(r) \/ ReadSession(r) \/ ReadCost(r)
      PROVE  TypeOK'
  <2>1. pc[r] = "read_ip" => <<ip[r], booked[r]>> \in Ips \X Days
    BY DEF StageInv
  <2>2. pc[r] = "read_cost" => booked[r] \in Days
    BY DEF StageInv, IpBooked
  <2>3. QED BY <1>5, <2>1, <2>2 DEF ReadIp, ReadSession, ReadCost, Read, Labels
<1>6. ASSUME NEW r \in Requests, WriteIp(r) PROVE TypeOK'
  <2>1. ip_counts' \in [Ips \X Days -> Nat]
    <3>1. seen[r] + 1 \in Nat
      OBVIOUS
    <3>2. ip_counts' = [ip_counts EXCEPT ![<<ip[r], booked[r]>>] = seen[r] + 1]
      BY <1>6 DEF WriteIp
    <3>3. [ip_counts EXCEPT ![<<ip[r], booked[r]>>] = seen[r] + 1] \in [Ips \X Days -> Nat]
      BY <3>1, Update
    <3>4. QED BY <3>2, <3>3
  <2>2. QED BY <1>6, <2>1 DEF WriteIp, Labels
<1>7. ASSUME NEW r \in Requests, WriteSession(r) PROVE TypeOK'
  BY <1>7 DEF WriteSession, Labels
<1>8. ASSUME NEW r \in Requests, WriteCost(r) PROVE TypeOK'
  <2>1. seen[r] + CostPerRun \in Nat
    OBVIOUS
  <2>2. cost_by_day' \in [Days -> Nat]
    BY <1>8, <2>1 DEF WriteCost
  <2>3. QED BY <1>8, <2>2 DEF WriteCost, Labels
<1>9. CASE Midnight
  BY <1>9 DEF Midnight, Days
<1>10. QED
  BY <1>1, <1>2, <1>3, <1>4, <1>5, <1>6, <1>7, <1>8, <1>9 DEF Next, Serve

(* Every step keeps the stages. *)
LEMMA StageStep == ASSUME TypeOK, StageInv, [Next]_vars PROVE StageInv'
<1> USE DEF TypeOK, Goto, books, StageInv, IpBooked
<1>1. CASE UNCHANGED vars
  BY <1>1 DEF vars
<1>2. ASSUME NEW r \in Requests, NEW scenario \in Scenarios, NEW length \in Lengths,
             Arrive(r, scenario, length)
      PROVE  StageInv'
  BY <1>2 DEF Arrive
<1>3. ASSUME NEW r \in Requests, CheckIp(r) \/ CheckSession(r) \/ CheckCost(r)
      PROVE  StageInv'
  BY <1>3 DEF CheckIp, CheckSession, CheckCost, Gate
<1>4. ASSUME NEW r \in Requests, Book(r) \/ Respond(r) PROVE StageInv'
  BY <1>4 DEF Book, Respond
<1>5. ASSUME NEW r \in Requests, ReadIp(r) \/ ReadSession(r) \/ ReadCost(r)
      PROVE  StageInv'
  BY <1>5 DEF ReadIp, ReadSession, ReadCost, Read
<1>6. ASSUME NEW r \in Requests, WriteIp(r) \/ WriteSession(r) \/ WriteCost(r)
      PROVE  StageInv'
  BY <1>6 DEF WriteIp, WriteSession, WriteCost
<1>7. CASE Midnight
  BY <1>7 DEF Midnight
<1>8. QED BY <1>1, <1>2, <1>3, <1>4, <1>5, <1>6, <1>7 DEF Next, Serve

(* No request leaves a book in this step.                                   *)
Growth ==
  /\ \A i \in Ips, d \in Days : InIpBook(i, d) \subseteq InIpBook(i, d)'
  /\ \A s \in Sessions : InSessionBook(s) \subseteq InSessionBook(s)'
  /\ \A d \in Days : InCostBook(d) \subseteq InCostBook(d)'

(* No step takes a request out of a book. *)
LEMMA BooksGrow ==
  ASSUME TypeOK, StageInv, [Next]_vars
  PROVE  Growth
<1> USE DEF Growth, TypeOK, Goto, books, StageInv, IpBooked, SessionBooked, CostBooked,
            InIpBook, InSessionBook, InCostBook
<1>1. CASE UNCHANGED vars
  BY <1>1 DEF vars
<1>2. ASSUME NEW r \in Requests, NEW scenario \in Scenarios, NEW length \in Lengths,
             Arrive(r, scenario, length)
      PROVE  Growth
  BY <1>2 DEF Arrive
<1>3. ASSUME NEW r \in Requests, CheckIp(r) \/ CheckSession(r) \/ CheckCost(r)
      PROVE  Growth
  BY <1>3 DEF CheckIp, CheckSession, CheckCost, Gate
<1>4. ASSUME NEW r \in Requests, Book(r) \/ Respond(r)
      PROVE  Growth
  BY <1>4 DEF Book, Respond
<1>5. ASSUME NEW r \in Requests, ReadIp(r) \/ ReadSession(r) \/ ReadCost(r)
      PROVE  Growth
  BY <1>5 DEF ReadIp, ReadSession, ReadCost, Read
<1>6. ASSUME NEW r \in Requests, WriteIp(r) \/ WriteSession(r) \/ WriteCost(r)
      PROVE  Growth
  BY <1>6 DEF WriteIp, WriteSession, WriteCost
<1>7. CASE Midnight
  BY <1>7 DEF Midnight
<1>8. QED BY <1>1, <1>2, <1>3, <1>4, <1>5, <1>6, <1>7 DEF Next, Serve

(* So no book gets smaller, nor the cost it stands for.                     *)
LEMMA CountsGrow ==
  ASSUME TypeOK, StageInv, [Next]_vars
  PROVE  /\ \A i \in Ips, d \in Days :
              Cardinality(InIpBook(i, d)) <= Cardinality(InIpBook(i, d))'
         /\ \A s \in Sessions :
              Cardinality(InSessionBook(s)) <= Cardinality(InSessionBook(s))'
         /\ \A d \in Days :
              /\ Cardinality(InCostBook(d)) <= Cardinality(InCostBook(d))'
              /\ CostPerRun * Cardinality(InCostBook(d))
                   <= CostPerRun * Cardinality(InCostBook(d))'
<1>1. ASSUME NEW i \in Ips, NEW d \in Days
      PROVE  Cardinality(InIpBook(i, d)) <= Cardinality(InIpBook(i, d))'
  <2>1. InIpBook(i, d) \in SUBSET Requests /\ InIpBook(i, d)' \in SUBSET Requests
    BY DEF InIpBook
  <2>2. QED BY <2>1, BooksGrow, Counting DEF Growth
<1>2. ASSUME NEW s \in Sessions
      PROVE  Cardinality(InSessionBook(s)) <= Cardinality(InSessionBook(s))'
  <2>1. InSessionBook(s) \in SUBSET Requests /\ InSessionBook(s)' \in SUBSET Requests
    BY DEF InSessionBook
  <2>2. QED BY <2>1, BooksGrow, Counting DEF Growth
<1>3. ASSUME NEW d \in Days
      PROVE  /\ Cardinality(InCostBook(d)) <= Cardinality(InCostBook(d))'
             /\ CostPerRun * Cardinality(InCostBook(d))
                  <= CostPerRun * Cardinality(InCostBook(d))'
  <2>1. InCostBook(d) \in SUBSET Requests /\ InCostBook(d)' \in SUBSET Requests
    BY DEF InCostBook
  <2>2. /\ Cardinality(InCostBook(d)) \in Nat /\ Cardinality(InCostBook(d))' \in Nat
        /\ Cardinality(InCostBook(d)) <= Cardinality(InCostBook(d))'
    BY <2>1, BooksGrow, Counting DEF Growth
  <2>3. QED BY <2>2, Costs
<1>4. QED BY <1>1, <1>2, <1>3

(* Sizes of books, and the costs they stand for, are natural numbers.       *)
SizesOK ==
  /\ \A i, d : Cardinality(InIpBook(i, d)) \in Nat
  /\ \A s : Cardinality(InSessionBook(s)) \in Nat
  /\ \A d : /\ Cardinality(InCostBook(d)) \in Nat
            /\ CostPerRun * Cardinality(InCostBook(d)) \in Nat
            /\ CostPerRun * (Cardinality(InCostBook(d)) + 1)
                 = CostPerRun * Cardinality(InCostBook(d)) + CostPerRun

(* They are, before and after any step. *)
LEMMA Sizes == SizesOK /\ SizesOK'
<1>1. SizesOK
  <2>1. /\ \A i, d : InIpBook(i, d) \in SUBSET Requests
        /\ \A s : InSessionBook(s) \in SUBSET Requests
        /\ \A d : InCostBook(d) \in SUBSET Requests
    BY DEF InIpBook, InSessionBook, InCostBook
  <2>2. \A d : Cardinality(InCostBook(d)) \in Nat
    BY <2>1, Counting
  <2>3. QED BY <2>1, <2>2, Counting, Costs DEF SizesOK
<1>2. SizesOK'
  <2>1. /\ \A i, d : InIpBook(i, d)' \in SUBSET Requests
        /\ \A s : InSessionBook(s)' \in SUBSET Requests
        /\ \A d : InCostBook(d)' \in SUBSET Requests
    BY DEF InIpBook, InSessionBook, InCostBook
  <2>2. \A d : Cardinality(InCostBook(d))' \in Nat
    BY <2>1, Counting
  <2>3. QED BY <2>1, <2>2, Counting, Costs DEF SizesOK
<1>3. QED BY <1>1, <1>2

(* What may make a thread have read a counter: it had, or it does now.      *)
ReadBy(q) ==
  /\ ip' = ip /\ session' = session
  /\ pc'[q] = "write_ip" =>
       /\ booked'[q] = booked[q] /\ booked[q] \in Days
       /\ \/ pc[q] = "write_ip" /\ seen'[q] = seen[q]
          \/ seen'[q] = ip_counts[<<ip[q], booked[q]>>]
  /\ pc'[q] = "write_session" =>
       \/ pc[q] = "write_session" /\ seen'[q] = seen[q]
       \/ seen'[q] = session_counts[session[q]]
  /\ pc'[q] = "write_cost" =>
       /\ booked'[q] = booked[q] /\ booked[q] \in Days
       /\ \/ pc[q] = "write_cost" /\ seen'[q] = seen[q]
          \/ seen'[q] = cost_by_day[booked[q]]

(* Every step is like that. *)
LEMMA Reading ==
  ASSUME TypeOK, StageInv, [Next]_vars, NEW q \in Requests
  PROVE  ReadBy(q)
<1> USE DEF ReadBy, TypeOK, Goto, books, StageInv, IpBooked
<1>1. CASE UNCHANGED vars
  BY <1>1 DEF vars
<1>2. ASSUME NEW r \in Requests, NEW scenario \in Scenarios, NEW length \in Lengths,
             Arrive(r, scenario, length)
      PROVE  ReadBy(q)
  BY <1>2 DEF Arrive
<1>3. ASSUME NEW r \in Requests, CheckIp(r) \/ CheckSession(r) \/ CheckCost(r)
      PROVE  ReadBy(q)
  BY <1>3 DEF CheckIp, CheckSession, CheckCost, Gate
<1>4. ASSUME NEW r \in Requests, Book(r) \/ Respond(r)
      PROVE  ReadBy(q)
  BY <1>4 DEF Book, Respond
<1>5. ASSUME NEW r \in Requests, ReadIp(r) \/ ReadSession(r) \/ ReadCost(r)
      PROVE  ReadBy(q)
  BY <1>5 DEF ReadIp, ReadSession, ReadCost, Read
<1>6. ASSUME NEW r \in Requests, WriteIp(r) \/ WriteSession(r) \/ WriteCost(r)
      PROVE  ReadBy(q)
  BY <1>6 DEF WriteIp, WriteSession, WriteCost
<1>7. CASE Midnight
  BY <1>7 DEF Midnight
<1>8. QED BY <1>1, <1>2, <1>3, <1>4, <1>5, <1>6, <1>7 DEF Next, Serve

(* A thread that is about to write has not read more than is booked now.    *)
LEMMA SeenStep == ASSUME IInv, [Next]_vars PROVE SeenInv'
<1> SUFFICES ASSUME NEW q \in Requests
    PROVE /\ pc'[q] = "write_ip" => seen'[q] <= Cardinality(InIpBook(ip[q], booked[q]))'
          /\ pc'[q] = "write_session" => seen'[q] <= Cardinality(InSessionBook(session[q]))'
          /\ pc'[q] = "write_cost" =>
               seen'[q] <= CostPerRun * Cardinality(InCostBook(booked[q]))'
    BY DEF SeenInv
<1> USE DEF IInv
<1>1. ReadBy(q)
  BY Reading
<1>2. ip[q] \in Ips /\ session[q] \in Sessions /\ seen'[q] \in Nat
  BY TypeStep DEF TypeOK
<1>3. ASSUME pc'[q] = "write_ip"
      PROVE  seen'[q] <= Cardinality(InIpBook(ip[q], booked[q]))'
  <2>1. PICK d \in Days : d = booked[q] /\ d = booked'[q]
    BY <1>1, <1>3 DEF ReadBy
  <2>2. seen'[q] <= Cardinality(InIpBook(ip[q], d))
    BY <1>1, <1>2, <1>3, <2>1 DEF ReadBy, SeenInv, NeverOvercount
  <2>3. PICK i \in Ips : i = ip[q] /\ i = ip'[q]
    BY <1>1, <1>2 DEF ReadBy
  <2>4. seen'[q] <= Cardinality(InIpBook(i, d))'
    BY <1>2, <2>2, <2>3, CountsGrow, Sizes DEF SizesOK
  <2>5. InIpBook(ip[q], booked[q])' = InIpBook(i, d)'
    BY <2>1, <2>3 DEF InIpBook
  <2>6. QED BY <2>4, <2>5
<1>4. ASSUME pc'[q] = "write_session"
      PROVE  seen'[q] <= Cardinality(InSessionBook(session[q]))'
  <2>1. PICK s \in Sessions : s = session[q] /\ s = session'[q]
    BY <1>1, <1>2 DEF ReadBy
  <2>2. seen'[q] <= Cardinality(InSessionBook(s))
    BY <1>1, <1>2, <1>4, <2>1 DEF ReadBy, SeenInv, NeverOvercount
  <2>3. seen'[q] <= Cardinality(InSessionBook(s))'
    BY <1>2, <2>2, CountsGrow, Sizes DEF SizesOK
  <2>4. InSessionBook(session[q])' = InSessionBook(s)'
    BY <2>1 DEF InSessionBook
  <2>5. QED BY <2>3, <2>4
<1>5. ASSUME pc'[q] = "write_cost"
      PROVE  seen'[q] <= CostPerRun * Cardinality(InCostBook(booked[q]))'
  <2>1. PICK d \in Days : d = booked[q] /\ d = booked'[q]
    BY <1>1, <1>5 DEF ReadBy
  <2>2. seen'[q] <= CostPerRun * Cardinality(InCostBook(d))
    BY <1>1, <1>2, <1>5, <2>1 DEF ReadBy, SeenInv, NeverOvercount
  <2>3. seen'[q] <= CostPerRun * Cardinality(InCostBook(d))'
    BY <1>2, <2>2, CountsGrow, Sizes DEF SizesOK
  <2>4. InCostBook(booked[q])' = InCostBook(d)'
    BY <2>1 DEF InCostBook
  <2>5. QED BY <2>3, <2>4
<1>6. QED BY <1>3, <1>4, <1>5

(* What may make a counter what it is: it was so, or a thread wrote it.      *)
Written ==
  /\ \A i \in Ips, d \in Days :
       \/ ip_counts'[<<i, d>>] = ip_counts[<<i, d>>]
       \/ \E r \in Requests :
            /\ pc[r] = "write_ip" /\ ip[r] = i /\ booked[r] = d
            /\ ip_counts'[<<i, d>>] = seen[r] + 1
            /\ r \in InIpBook(i, d)' \ InIpBook(i, d)
  /\ \A s \in Sessions :
       \/ session_counts'[s] = session_counts[s]
       \/ \E r \in Requests :
            /\ pc[r] = "write_session" /\ session[r] = s
            /\ session_counts'[s] = seen[r] + 1
            /\ r \in InSessionBook(s)' \ InSessionBook(s)
  /\ \A d \in Days :
       \/ cost_by_day'[d] = cost_by_day[d]
       \/ \E r \in Requests :
            /\ pc[r] = "write_cost" /\ booked[r] = d
            /\ cost_by_day'[d] = seen[r] + CostPerRun
            /\ r \in InCostBook(d)' \ InCostBook(d)

(* Every step is like that. *)
LEMMA Writing == ASSUME TypeOK, StageInv, [Next]_vars PROVE Written
<1> USE DEF Written, TypeOK, Goto, books, StageInv
<1>1. ASSUME ip_counts' = ip_counts, session_counts' = session_counts,
             cost_by_day' = cost_by_day
      PROVE  Written
  BY <1>1
<1>2. ASSUME NEW r \in Requests, WriteIp(r) PROVE Written
  <2>1. ASSUME NEW i \in Ips, NEW d \in Days, ip[r] = i, booked[r] = d
        PROVE  r \in InIpBook(i, d)' \ InIpBook(i, d)
    BY <1>2, <2>1 DEF WriteIp, InIpBook, IpBooked
  <2>2. QED BY <1>2, <2>1 DEF WriteIp
<1>3. ASSUME NEW r \in Requests, WriteSession(r) PROVE Written
  BY <1>3 DEF WriteSession, InSessionBook, SessionBooked
<1>4. ASSUME NEW r \in Requests, WriteCost(r) PROVE Written
  BY <1>4 DEF WriteCost, InCostBook, CostBooked
<1>5. QED
  BY <1>1, <1>2, <1>3, <1>4 DEF vars, Next, Serve, Midnight, Arrive, CheckIp,
     CheckSession, CheckCost, Gate, Book, Respond, ReadIp, ReadSession, ReadCost, Read

(* A counter goes up by what its writer adds, and the writer joins the book. *)
LEMMA CountStep == ASSUME IInv, [Next]_vars PROVE NeverOvercount'
<1> USE DEF IInv
<1>1. Written
  BY Writing
<1>2. ASSUME NEW i \in Ips, NEW d \in Days
      PROVE  ip_counts'[<<i, d>>] <= Cardinality(InIpBook(i, d))'
  <2>1. CASE ip_counts'[<<i, d>>] = ip_counts[<<i, d>>]
    <3>1. ip_counts[<<i, d>>] \in Nat /\ ip_counts[<<i, d>>] <= Cardinality(InIpBook(i, d))
      BY DEF NeverOvercount, TypeOK
    <3>2. QED BY <2>1, <3>1, CountsGrow, Sizes DEF SizesOK
  <2>2. ASSUME NEW r \in Requests, pc[r] = "write_ip", ip[r] = i, booked[r] = d,
               ip_counts'[<<i, d>>] = seen[r] + 1,
               r \in InIpBook(i, d)' \ InIpBook(i, d)
        PROVE  ip_counts'[<<i, d>>] <= Cardinality(InIpBook(i, d))'
    <3>1. seen[r] \in Nat /\ seen[r] <= Cardinality(InIpBook(i, d))
      BY <2>2 DEF SeenInv, TypeOK
    <3>2. InIpBook(i, d) \in SUBSET Requests /\ InIpBook(i, d)' \in SUBSET Requests
      BY DEF InIpBook
    <3>3. Cardinality(InIpBook(i, d)) + 1 <= Cardinality(InIpBook(i, d))'
      BY <2>2, <3>2, BooksGrow, Counting DEF Growth
    <3>4. QED BY <2>2, <3>1, <3>3, Sizes DEF SizesOK
  <2>3. QED BY <1>1, <2>1, <2>2 DEF Written
<1>3. ASSUME NEW s \in Sessions
      PROVE  session_counts'[s] <= Cardinality(InSessionBook(s))'
  <2>1. CASE session_counts'[s] = session_counts[s]
    <3>1. session_counts[s] \in Nat /\ session_counts[s] <= Cardinality(InSessionBook(s))
      BY DEF NeverOvercount, TypeOK
    <3>2. QED BY <2>1, <3>1, CountsGrow, Sizes DEF SizesOK
  <2>2. ASSUME NEW r \in Requests, pc[r] = "write_session", session[r] = s,
               session_counts'[s] = seen[r] + 1,
               r \in InSessionBook(s)' \ InSessionBook(s)
        PROVE  session_counts'[s] <= Cardinality(InSessionBook(s))'
    <3>1. seen[r] \in Nat /\ seen[r] <= Cardinality(InSessionBook(s))
      BY <2>2 DEF SeenInv, TypeOK
    <3>2. InSessionBook(s) \in SUBSET Requests /\ InSessionBook(s)' \in SUBSET Requests
      BY DEF InSessionBook
    <3>3. Cardinality(InSessionBook(s)) + 1 <= Cardinality(InSessionBook(s))'
      BY <2>2, <3>2, BooksGrow, Counting DEF Growth
    <3>4. QED BY <2>2, <3>1, <3>3, Sizes DEF SizesOK
  <2>3. QED BY <1>1, <2>1, <2>2 DEF Written
<1>4. ASSUME NEW d \in Days
      PROVE  cost_by_day'[d] <= CostPerRun * Cardinality(InCostBook(d))'
  <2>1. CASE cost_by_day'[d] = cost_by_day[d]
    <3>1. cost_by_day[d] \in Nat /\ cost_by_day[d] <= CostPerRun * Cardinality(InCostBook(d))
      BY DEF NeverOvercount, TypeOK
    <3>2. QED BY <2>1, <3>1, CountsGrow, Sizes DEF SizesOK
  <2>2. ASSUME NEW r \in Requests, pc[r] = "write_cost", booked[r] = d,
               cost_by_day'[d] = seen[r] + CostPerRun,
               r \in InCostBook(d)' \ InCostBook(d)
        PROVE  cost_by_day'[d] <= CostPerRun * Cardinality(InCostBook(d))'
    <3>1. seen[r] \in Nat /\ seen[r] <= CostPerRun * Cardinality(InCostBook(d))
      BY <2>2 DEF SeenInv, TypeOK
    <3>2. InCostBook(d) \in SUBSET Requests /\ InCostBook(d)' \in SUBSET Requests
      BY DEF InCostBook
    <3>3. /\ Cardinality(InCostBook(d)) \in Nat /\ Cardinality(InCostBook(d))' \in Nat
          /\ Cardinality(InCostBook(d)) + 1 <= Cardinality(InCostBook(d))'
      BY <2>2, <3>2, BooksGrow, Counting DEF Growth
    <3>4. Cardinality(InCostBook(d)) + 1 \in Nat
      BY <3>3
    <3>5. /\ CostPerRun * (Cardinality(InCostBook(d)) + 1)
               <= CostPerRun * Cardinality(InCostBook(d))'
          /\ CostPerRun * (Cardinality(InCostBook(d)) + 1)
               = CostPerRun * Cardinality(InCostBook(d)) + CostPerRun
      BY <3>3, <3>4, Costs
    <3>6. QED BY <2>2, <3>1, <3>5, Sizes, ConfigAssumption DEF SizesOK
  <2>3. QED BY <1>1, <2>1, <2>2 DEF Written
<1>5. QED BY <1>2, <1>3, <1>4 DEF NeverOvercount

(* What may make an answer a fallback: it was one, or a counter says so now. *)
RefusedBy(q) ==
  /\ ip' = ip /\ session' = session
  /\ reason'[q] # "none" => checked'[q] = checked[q] /\ checked[q] \in Days
  /\ reason'[q] = reason[q]
     \/ /\ reason'[q] = "ip" => ip_counts[<<ip[q], checked[q]>>] >= PerIpLimit
        /\ reason'[q] = "session" => session_counts[session[q]] >= PerSessionLimit
        /\ reason'[q] = "cost" => cost_by_day[checked[q]] + CostPerRun > CostCap

(* Every step is like that. *)
LEMMA Refusing ==
  ASSUME TypeOK, StageInv, [Next]_vars, NEW q \in Requests PROVE RefusedBy(q)
<1> USE DEF RefusedBy, TypeOK, Goto, books, StageInv
<1>1. ASSUME ip' = ip, session' = session, reason' = reason, checked' = checked
      PROVE  RefusedBy(q)
  BY <1>1
<1>2. ASSUME NEW r \in Requests, NEW scenario \in Scenarios, NEW length \in Lengths,
             Arrive(r, scenario, length)
      PROVE  RefusedBy(q)
  BY <1>2 DEF Arrive
<1>3. ASSUME NEW r \in Requests, CheckIp(r) PROVE RefusedBy(q)
  BY <1>3 DEF CheckIp, Gate
<1>4. ASSUME NEW r \in Requests, CheckSession(r) PROVE RefusedBy(q)
  BY <1>4 DEF CheckSession, Gate
<1>5. ASSUME NEW r \in Requests, CheckCost(r) PROVE RefusedBy(q)
  BY <1>5 DEF CheckCost, CostExceeded
<1>6. QED
  BY <1>1, <1>2, <1>3, <1>4, <1>5 DEF vars, Next, Serve, Midnight, Book, Respond,
     ReadIp, ReadSession, ReadCost, Read, WriteIp, WriteSession, WriteCost

(* A refusal has its cause in the books when it is made, and keeps it.      *)
LEMMA FallbackStep == ASSUME IInv, [Next]_vars PROVE RefusalsAreBooked'
<1> SUFFICES ASSUME NEW q \in Requests
    PROVE /\ reason'[q] = "ip" =>
               Cardinality(InIpBook(ip[q], checked[q]))' >= PerIpLimit
          /\ reason'[q] = "session" =>
               Cardinality(InSessionBook(session[q]))' >= PerSessionLimit
          /\ reason'[q] = "cost" =>
               CostPerRun * (Cardinality(InCostBook(checked[q]))' + 1) > CostCap
    BY DEF RefusalsAreBooked
<1> USE DEF IInv
<1>1. RefusedBy(q)
  BY Refusing
<1>2. ip[q] \in Ips /\ session[q] \in Sessions
  BY DEF TypeOK
<1>3. ASSUME reason'[q] = "ip"
      PROVE  Cardinality(InIpBook(ip[q], checked[q]))' >= PerIpLimit
  <2>1. PICK i \in Ips, d \in Days : /\ i = ip[q] /\ i = ip'[q]
                                     /\ d = checked[q] /\ d = checked'[q]
    BY <1>1, <1>2, <1>3 DEF RefusedBy
  <2>2. /\ ip_counts[<<i, d>>] \in Nat
        /\ ip_counts[<<i, d>>] <= Cardinality(InIpBook(i, d))
    BY DEF NeverOvercount, TypeOK
  <2>3. Cardinality(InIpBook(i, d)) >= PerIpLimit
    <3>1. CASE reason'[q] = reason[q]
      BY <1>3, <2>1, <3>1 DEF RefusalsAreBooked
    <3>2. CASE ip_counts[<<i, d>>] >= PerIpLimit
      BY <2>2, <3>2, Sizes, ConfigAssumption DEF SizesOK
    <3>3. QED BY <1>1, <1>3, <2>1, <3>1, <3>2 DEF RefusedBy
  <2>4. Cardinality(InIpBook(i, d))' >= PerIpLimit
    BY <2>3, CountsGrow, Sizes, ConfigAssumption DEF SizesOK
  <2>5. InIpBook(ip[q], checked[q])' = InIpBook(i, d)'
    BY <2>1 DEF InIpBook
  <2>6. QED BY <2>4, <2>5
<1>4. ASSUME reason'[q] = "session"
      PROVE  Cardinality(InSessionBook(session[q]))' >= PerSessionLimit
  <2>1. PICK s \in Sessions : s = session[q] /\ s = session'[q]
    BY <1>1, <1>2 DEF RefusedBy
  <2>2. /\ session_counts[s] \in Nat
        /\ session_counts[s] <= Cardinality(InSessionBook(s))
    BY DEF NeverOvercount, TypeOK
  <2>3. Cardinality(InSessionBook(s)) >= PerSessionLimit
    BY <1>1, <1>4, <2>1, <2>2, Sizes, ConfigAssumption
    DEF RefusedBy, RefusalsAreBooked, SizesOK
  <2>4. Cardinality(InSessionBook(s))' >= PerSessionLimit
    BY <2>3, CountsGrow, Sizes, ConfigAssumption DEF SizesOK
  <2>5. InSessionBook(session[q])' = InSessionBook(s)'
    BY <2>1 DEF InSessionBook
  <2>6. QED BY <2>4, <2>5
<1>5. ASSUME reason'[q] = "cost"
      PROVE  CostPerRun * (Cardinality(InCostBook(checked[q]))' + 1) > CostCap
  <2>1. PICK d \in Days : d = checked[q] /\ d = checked'[q]
    BY <1>1, <1>5 DEF RefusedBy
  <2>2. /\ cost_by_day[d] \in Nat
        /\ cost_by_day[d] <= CostPerRun * Cardinality(InCostBook(d))
    BY DEF NeverOvercount, TypeOK
  <2>3. CostPerRun * Cardinality(InCostBook(d)) + CostPerRun > CostCap
    <3>1. CASE reason'[q] = reason[q]
      BY <1>5, <2>1, <3>1, Sizes DEF RefusalsAreBooked, SizesOK
    <3>2. CASE cost_by_day[d] + CostPerRun > CostCap
      BY <2>2, <3>2, Sizes, ConfigAssumption DEF SizesOK
    <3>3. QED BY <1>1, <1>5, <2>1, <3>1, <3>2 DEF RefusedBy
  <2>4. CostPerRun * Cardinality(InCostBook(d))' + CostPerRun > CostCap
    BY <2>3, CountsGrow, Sizes, ConfigAssumption DEF SizesOK
  <2>5. CostPerRun * (Cardinality(InCostBook(d))' + 1)
          = CostPerRun * Cardinality(InCostBook(d))' + CostPerRun
    BY Sizes DEF SizesOK
  <2>6. InCostBook(checked[q])' = InCostBook(d)'
    BY <2>1 DEF InCostBook
  <2>7. QED BY <2>4, <2>5, <2>6
<1>6. QED BY <1>3, <1>4, <1>5

(* Nothing is booked or refused at the start. *)
LEMMA Start == ASSUME Init PROVE IInv
<1> USE ConfigAssumption, DayAssumption
<1>1. TypeOK
  <2>1. overlap \in BOOLEAN
    BY Zenon DEF Init
  <2>2. QED BY <2>1 DEF Init, TypeOK, Days, Labels, Reasons
<1>2. StageInv /\ SeenInv /\ RefusalsAreBooked
  BY DEF Init, StageInv, SeenInv, RefusalsAreBooked, IpBooked
<1>3. NeverOvercount
  <2>1. ASSUME NEW i \in Ips, NEW d \in Days PROVE ip_counts[<<i, d>>] = 0
    BY DEF Init
  <2>2. /\ \A s \in Sessions : session_counts[s] = 0
        /\ \A d \in Days : cost_by_day[d] = 0
    BY DEF Init
  <2>3. QED BY <2>1, <2>2, Sizes DEF NeverOvercount, SizesOK
<1>4. QED BY <1>1, <1>2, <1>3 DEF IInv

(* The inductive invariant. *)
THEOREM Invariance == Spec => []IInv
<1>1. IInv /\ [Next]_vars => IInv'
  BY TypeStep, StageStep, SeenStep, CountStep, FallbackStep DEF IInv
<1>2. QED BY <1>1, Start, PTL DEF Spec

(* Counters count and days are days of the bounded calendar. *)
THEOREM TypeCorrect == Spec => []TypeOK
BY Invariance, PTL DEF IInv

(***************************************************************************)
(* The shared counters never count more than was booked, with any number of *)
(* threads that lose each other's updates.                                  *)
(***************************************************************************)
THEOREM NoOvercount == Spec => []NeverOvercount
BY Invariance, PTL DEF IInv

(* Every refusal by a limit stands in the books, whatever updates are lost. *)
THEOREM Justified == Spec => []RefusalsAreBooked
BY Invariance, PTL DEF IInv

-----------------------------------------------------------------------------
(***************************************************************************)
(* LimitsHold: requests that do not overlap never get past a limit, for any *)
(* number of requests, clients, days and limits.                            *)
(***************************************************************************)

AtGate == {"check_ip", "check_session", "check_cost", "book"}

(* At most one request is being served.                                     *)
Alone == \A q, r \in Requests : pc[q] \in AtRest \/ pc[r] \in AtRest \/ q = r

(* Nothing is booked ahead of the calendar, nor, while a request is at the  *)
(* gate, after the day it asked for there.                                  *)
Dates ==
  \A r \in Requests :
    /\ booked[r] <= day
    /\ pc[r] \in AtGate =>
         checked[r] <= day /\ \A q \in Requests : booked[q] <= checked[r]

(* No update has been lost, nor is one about to be.                         *)
Exact ==
  /\ \A i \in Ips, d \in Days : Cardinality(InIpBook(i, d)) <= ip_counts[<<i, d>>]
  /\ \A s \in Sessions : Cardinality(InSessionBook(s)) <= session_counts[s]
  /\ \A d \in Days : CostPerRun * Cardinality(InCostBook(d)) <= cost_by_day[d]
  /\ \A r \in Requests :
       /\ pc[r] = "write_ip" => seen[r] = ip_counts[<<ip[r], booked[r]>>]
       /\ pc[r] = "write_session" => seen[r] = session_counts[session[r]]
       /\ pc[r] = "write_cost" => seen[r] = cost_by_day[booked[r]]

(* A request that passed a test of the gate has room in that book, at the   *)
(* gate on the day it was checked for, afterwards on the day it is booked.  *)
HasRoom(r) ==
  reason[r] = "none" =>
    /\ pc[r] \in {"check_session", "check_cost", "book"} =>
         Cardinality(InIpBook(ip[r], checked[r])) < PerIpLimit
    /\ pc[r] \in {"read_ip", "write_ip"} =>
         Cardinality(InIpBook(ip[r], booked[r])) < PerIpLimit
    /\ pc[r] \in {"check_cost", "book", "read_ip", "write_ip", "read_session",
                  "write_session"} =>
         Cardinality(InSessionBook(session[r])) < PerSessionLimit
    /\ pc[r] = "book" =>
         CostPerRun * (Cardinality(InCostBook(checked[r])) + 1) <= CostCap
    /\ pc[r] \in {"read_ip", "write_ip", "read_session", "write_session",
                  "read_cost", "write_cost"} =>
         CostPerRun * (Cardinality(InCostBook(booked[r])) + 1) <= CostCap
Room == \A r \in Requests : HasRoom(r)

(* The live runs of an address and a day, and of a session.                 *)
LiveOfIp(i, d) == {r \in InIpBook(i, d) : reason[r] = "none"}
LiveOfSession(s) == {r \in InSessionBook(s) : reason[r] = "none"}

Kept ==
  /\ \A i \in Ips, d \in Days : Cardinality(LiveOfIp(i, d)) <= PerIpLimit
  /\ \A s \in Sessions : Cardinality(LiveOfSession(s)) <= PerSessionLimit
  /\ \A d \in Days : CostPerRun * Cardinality(InCostBook(d)) <= CostCap

SerialInv == ~overlap => Alone /\ Dates /\ Exact /\ Room /\ Kept

-----------------------------------------------------------------------------
(* What a step that writes no counter leaves alone.                         *)
BooksSame ==
  /\ ip' = ip /\ session' = session
  /\ \A i, d : InIpBook(i, d)' = InIpBook(i, d)
  /\ \A s : InSessionBook(s)' = InSessionBook(s)
  /\ \A d : InCostBook(d)' = InCostBook(d)
  /\ \A i, d : LiveOfIp(i, d)' = LiveOfIp(i, d)
  /\ \A s : LiveOfSession(s)' = LiveOfSession(s)

(* Nobody joins a book, or becomes a live run of it, but by a write.        *)
LEMMA Unwritten ==
  ASSUME TypeOK, StageInv, [Next]_vars,
         ~ \E r \in Requests : WriteIp(r) \/ WriteSession(r) \/ WriteCost(r)
  PROVE  BooksSame /\ UNCHANGED books
<1> USE DEF BooksSame, TypeOK, StageInv, Goto, books, IpBooked, SessionBooked, CostBooked,
            InIpBook, InSessionBook, InCostBook, LiveOfIp, LiveOfSession
<1>1. CASE UNCHANGED vars
  BY <1>1 DEF vars
<1>2. ASSUME NEW r \in Requests, NEW scenario \in Scenarios, NEW length \in Lengths,
             Arrive(r, scenario, length)
      PROVE  BooksSame /\ UNCHANGED books
  BY <1>2 DEF Arrive
<1>3. ASSUME NEW r \in Requests, CheckIp(r) \/ CheckSession(r) \/ CheckCost(r)
      PROVE  BooksSame /\ UNCHANGED books
  BY <1>3 DEF CheckIp, CheckSession, CheckCost, Gate
<1>4. ASSUME NEW r \in Requests, Book(r) \/ Respond(r)
      PROVE  BooksSame /\ UNCHANGED books
  BY <1>4 DEF Book, Respond
<1>5. ASSUME NEW r \in Requests, ReadIp(r) \/ ReadSession(r) \/ ReadCost(r)
      PROVE  BooksSame /\ UNCHANGED books
  BY <1>5 DEF ReadIp, ReadSession, ReadCost, Read
<1>6. CASE Midnight
  BY <1>6 DEF Midnight
<1>7. QED BY <1>1, <1>2, <1>3, <1>4, <1>5, <1>6 DEF Next, Serve

(* A write puts its own request in the one book, and changes no other.      *)
LEMMA Joining ==
  ASSUME TypeOK, StageInv, NEW r \in Requests
  PROVE  /\ WriteIp(r) =>
              /\ ip' = ip /\ session' = session
              /\ \A i \in Ips, d \in Days :
                   IF i = ip[r] /\ d = booked[r]
                     THEN /\ InIpBook(i, d)' = InIpBook(i, d) \cup {r}
                          /\ LiveOfIp(i, d)' \subseteq LiveOfIp(i, d) \cup {r}
                          /\ reason[r] # "none" => LiveOfIp(i, d)' = LiveOfIp(i, d)
                     ELSE InIpBook(i, d)' = InIpBook(i, d) /\ LiveOfIp(i, d)' = LiveOfIp(i, d)
              /\ \A s : InSessionBook(s)' = InSessionBook(s) /\ LiveOfSession(s)' = LiveOfSession(s)
              /\ \A d : InCostBook(d)' = InCostBook(d)
         /\ WriteSession(r) =>
              /\ ip' = ip /\ session' = session
              /\ \A s \in Sessions :
                   IF s = session[r]
                     THEN /\ InSessionBook(s)' = InSessionBook(s) \cup {r}
                          /\ LiveOfSession(s)' \subseteq LiveOfSession(s) \cup {r}
                          /\ reason[r] # "none" => LiveOfSession(s)' = LiveOfSession(s)
                     ELSE InSessionBook(s)' = InSessionBook(s) /\ LiveOfSession(s)' = LiveOfSession(s)
              /\ \A i, d : InIpBook(i, d)' = InIpBook(i, d) /\ LiveOfIp(i, d)' = LiveOfIp(i, d)
              /\ \A d : InCostBook(d)' = InCostBook(d)
         /\ WriteCost(r) =>
              /\ ip' = ip /\ session' = session
              /\ \A d \in Days :
                   InCostBook(d)' = IF d = booked[r] THEN InCostBook(d) \cup {r}
                                                     ELSE InCostBook(d)
              /\ \A i, d : InIpBook(i, d)' = InIpBook(i, d) /\ LiveOfIp(i, d)' = LiveOfIp(i, d)
              /\ \A s : InSessionBook(s)' = InSessionBook(s) /\ LiveOfSession(s)' = LiveOfSession(s)
<1> USE DEF TypeOK, StageInv, Goto, IpBooked, SessionBooked, CostBooked,
            InIpBook, InSessionBook, InCostBook, LiveOfIp, LiveOfSession
<1>1. ASSUME WriteIp(r), NEW i \in Ips, NEW d \in Days
      PROVE  IF i = ip[r] /\ d = booked[r]
               THEN /\ InIpBook(i, d)' = InIpBook(i, d) \cup {r}
                    /\ LiveOfIp(i, d)' \subseteq LiveOfIp(i, d) \cup {r}
                    /\ reason[r] # "none" => LiveOfIp(i, d)' = LiveOfIp(i, d)
               ELSE InIpBook(i, d)' = InIpBook(i, d) /\ LiveOfIp(i, d)' = LiveOfIp(i, d)
  BY <1>1 DEF WriteIp
<1>2. ASSUME WriteIp(r)
      PROVE  /\ ip' = ip /\ session' = session
             /\ \A s : InSessionBook(s)' = InSessionBook(s) /\ LiveOfSession(s)' = LiveOfSession(s)
             /\ \A d : InCostBook(d)' = InCostBook(d)
  BY <1>2 DEF WriteIp
<1>3. ASSUME WriteSession(r), NEW s \in Sessions
      PROVE  IF s = session[r]
               THEN /\ InSessionBook(s)' = InSessionBook(s) \cup {r}
                    /\ LiveOfSession(s)' \subseteq LiveOfSession(s) \cup {r}
                    /\ reason[r] # "none" => LiveOfSession(s)' = LiveOfSession(s)
               ELSE InSessionBook(s)' = InSessionBook(s) /\ LiveOfSession(s)' = LiveOfSession(s)
  BY <1>3 DEF WriteSession
<1>4. ASSUME WriteSession(r)
      PROVE  /\ ip' = ip /\ session' = session
             /\ \A i, d : InIpBook(i, d)' = InIpBook(i, d) /\ LiveOfIp(i, d)' = LiveOfIp(i, d)
             /\ \A d : InCostBook(d)' = InCostBook(d)
  BY <1>4 DEF WriteSession
<1>5. ASSUME WriteCost(r)
      PROVE  /\ ip' = ip /\ session' = session
             /\ \A d \in Days :
                  InCostBook(d)' = IF d = booked[r] THEN InCostBook(d) \cup {r}
                                                    ELSE InCostBook(d)
             /\ \A i, d : InIpBook(i, d)' = InIpBook(i, d) /\ LiveOfIp(i, d)' = LiveOfIp(i, d)
             /\ \A s : InSessionBook(s)' = InSessionBook(s) /\ LiveOfSession(s)' = LiveOfSession(s)
  BY <1>5 DEF WriteCost
<1>6. QED BY <1>1, <1>2, <1>3, <1>4, <1>5

(* Sizes of the live parts; one more request makes at most one more.        *)
LEMMA OneMore ==
  ASSUME NEW S \in SUBSET Requests, NEW T \in SUBSET Requests, NEW r, T \subseteq S \cup {r}
  PROVE  Cardinality(S) \in Nat /\ Cardinality(T) \in Nat /\ Cardinality(T) <= Cardinality(S) + 1
<1>1. IsFiniteSet(S) /\ IsFiniteSet(S \cup {r})
  BY RequestAssumption, FS_Subset, FS_AddElement
<1>2. Cardinality(S) \in Nat /\ Cardinality(S \cup {r}) \in Nat
  BY <1>1, FS_CardinalityType
<1>3. Cardinality(S \cup {r}) <= Cardinality(S) + 1
  BY <1>1, <1>2, FS_AddElement
<1>4. Cardinality(T) \in Nat /\ Cardinality(T) <= Cardinality(S \cup {r})
  BY <1>1, FS_Subset, FS_CardinalityType
<1>5. QED BY <1>2, <1>3, <1>4

-----------------------------------------------------------------------------
(* A request that comes while another is served makes an overlap.           *)
LEMMA AloneStep ==
  ASSUME IInv, [Next]_vars, ~overlap', ~overlap => Alone
  PROVE  ~overlap /\ Alone /\ Alone'
<1> USE DEF IInv, TypeOK, Goto, books, Alone, AtRest
<1>1. CASE UNCHANGED vars
  BY <1>1 DEF vars
<1>2. ASSUME NEW r \in Requests, NEW scenario \in Scenarios, NEW length \in Lengths,
             Arrive(r, scenario, length)
      PROVE  ~overlap /\ Alone /\ Alone'
  <2>1. ~overlap /\ \A q \in Requests : pc[q] \in AtRest
    BY <1>2, Zenon DEF Arrive
  <2>2. \A q \in Requests \ {r} : pc'[q] = pc[q]
    BY <1>2 DEF Arrive
  <2>3. QED BY <2>1, <2>2
<1>3. ASSUME NEW r \in Requests, CheckIp(r) \/ CheckSession(r) \/ CheckCost(r)
      PROVE  ~overlap /\ Alone /\ Alone'
  BY <1>3 DEF CheckIp, CheckSession, CheckCost, Gate
<1>4. ASSUME NEW r \in Requests, Book(r) \/ Respond(r)
      PROVE  ~overlap /\ Alone /\ Alone'
  BY <1>4 DEF Book, Respond
<1>5. ASSUME NEW r \in Requests, ReadIp(r) \/ ReadSession(r) \/ ReadCost(r)
      PROVE  ~overlap /\ Alone /\ Alone'
  BY <1>5 DEF ReadIp, ReadSession, ReadCost, Read
<1>6. ASSUME NEW r \in Requests, WriteIp(r) \/ WriteSession(r) \/ WriteCost(r)
      PROVE  ~overlap /\ Alone /\ Alone'
  BY <1>6 DEF WriteIp, WriteSession, WriteCost
<1>7. CASE Midnight
  BY <1>7 DEF Midnight
<1>8. QED BY <1>1, <1>2, <1>3, <1>4, <1>5, <1>6, <1>7 DEF Next, Serve

(* The days only go forward. *)
LEMMA DatesStep ==
  ASSUME IInv, [Next]_vars, Alone, Dates
  PROVE  Dates'
<1> USE DEF IInv, Goto, books
<1>1. day \in Int /\ \A r \in Requests : checked[r] \in Int /\ booked[r] \in Int
  BY DEF TypeOK, Days
<1>2. day <= day'
  <2>1. Midnight => day' = day + 1
    BY DEF Midnight
  <2>2. Midnight \/ day' = day
    BY DEF vars, Next, Serve, Arrive, CheckIp, CheckSession, CheckCost,
       Gate, Book, Respond, ReadIp, ReadSession, ReadCost, Read, WriteIp, WriteSession,
       WriteCost
  <2>3. QED BY <1>1, <2>1, <2>2
<1>3. day' \in Int
  BY TypeStep DEF TypeOK, Days
<1>4. ASSUME NEW r \in Requests, NEW scenario \in Scenarios, NEW length \in Lengths,
             Arrive(r, scenario, length)
      PROVE  Dates'
  <2>1. /\ day' = day /\ booked' = booked
        /\ \A q \in Requests : pc'[q] \in AtGate =>
             checked'[q] = day \/ (pc[q] \in AtGate /\ checked'[q] = checked[q])
    BY <1>4 DEF Arrive, AtGate, TypeOK
  <2>2. QED BY <1>1, <2>1 DEF Dates
<1>5. ASSUME NEW r \in Requests, Book(r) PROVE Dates'
  <2>1. /\ day' = day
        /\ \A q \in Requests : booked'[q] = day \/ booked'[q] = booked[q]
    BY <1>5 DEF Book, TypeOK
  <2>2. \A q \in Requests : pc'[q] \notin AtGate
    BY <1>5 DEF Book, Alone, AtRest, AtGate, TypeOK
  <2>3. QED BY <1>1, <2>1, <2>2 DEF Dates
<1>6. ASSUME booked' = booked, checked' = checked,
             \A q \in Requests : pc'[q] \in AtGate => pc[q] \in AtGate
      PROVE  Dates'
  BY <1>1, <1>2, <1>3, <1>6 DEF Dates
<1>7. CASE Midnight \/ UNCHANGED vars
  BY <1>6, <1>7 DEF Midnight, vars
<1>8. ASSUME NEW r \in Requests, CheckIp(r) \/ CheckSession(r) \/ CheckCost(r)
      PROVE  Dates'
  BY <1>6, <1>8 DEF CheckIp, CheckSession, CheckCost, Gate, AtGate, TypeOK
<1>9. ASSUME NEW r \in Requests, ReadIp(r) \/ ReadSession(r) \/ ReadCost(r) \/ Respond(r)
      PROVE  Dates'
  BY <1>6, <1>9 DEF ReadIp, ReadSession, ReadCost, Read, Respond, AtGate, TypeOK
<1>10. ASSUME NEW r \in Requests, WriteIp(r) \/ WriteSession(r) \/ WriteCost(r)
      PROVE  Dates'
  BY <1>6, <1>10 DEF WriteIp, WriteSession, WriteCost, AtGate, TypeOK
<1>11. QED BY <1>4, <1>5, <1>7, <1>8, <1>9, <1>10 DEF Next, Serve

(* While a request writes, no other is under way, nor is it about to write again. *)
LEMMA WriterAlone ==
  ASSUME IInv, Alone, NEW r \in Requests, WriteIp(r) \/ WriteSession(r) \/ WriteCost(r),
         NEW q \in Requests
  PROVE  /\ q # r => pc'[q] \in AtRest
         /\ pc'[r] \in {"read_session", "read_cost", "respond"}
BY DEF IInv, TypeOK, Goto, Alone, AtRest, WriteIp, WriteSession, WriteCost

(* One write at a time adds to a counter what joins its book.               *)
LEMMA ExactStep ==
  ASSUME IInv, [Next]_vars, Alone, Exact
  PROVE  Exact'
<1> USE DEF IInv
<1>1. CASE ~ \E r \in Requests : WriteIp(r) \/ WriteSession(r) \/ WriteCost(r)
  <2>1. BooksSame /\ UNCHANGED <<ip_counts, session_counts, cost_by_day>>
    BY <1>1, Unwritten DEF books
  <2>2. \A q \in Requests : ReadBy(q)
    BY Reading
  <2>3. ASSUME NEW q \in Requests
        PROVE  /\ pc'[q] = "write_ip" => seen'[q] = ip_counts'[<<ip'[q], booked'[q]>>]
               /\ pc'[q] = "write_session" => seen'[q] = session_counts'[session'[q]]
               /\ pc'[q] = "write_cost" => seen'[q] = cost_by_day'[booked'[q]]
    BY <2>1, <2>2 DEF ReadBy, Exact
  <2>4. \A i \in Ips, d \in Days : Cardinality(InIpBook(i, d))' <= ip_counts'[<<i, d>>]
    BY <2>1 DEF BooksSame, Exact
  <2>5. \A s \in Sessions : Cardinality(InSessionBook(s))' <= session_counts'[s]
    BY <2>1 DEF BooksSame, Exact
  <2>6. \A d \in Days : CostPerRun * Cardinality(InCostBook(d))' <= cost_by_day'[d]
    BY <2>1 DEF BooksSame, Exact
  <2>7. QED BY <2>3, <2>4, <2>5, <2>6 DEF Exact
<1>2. ASSUME NEW r \in Requests, WriteIp(r) \/ WriteSession(r) \/ WriteCost(r)
      PROVE  Exact'
  <2>1. \A q \in Requests : pc'[q] \notin {"write_ip", "write_session", "write_cost"}
    BY <1>2, WriterAlone DEF AtRest
  <2>2. \A i \in Ips, d \in Days : Cardinality(InIpBook(i, d))' <= ip_counts'[<<i, d>>]
    <3> SUFFICES ASSUME NEW i \in Ips, NEW d \in Days
                 PROVE  Cardinality(InIpBook(i, d)') <= ip_counts'[<<i, d>>]
      OBVIOUS
    <3>1. CASE WriteIp(r) /\ i = ip[r] /\ d = booked[r]
      <4>1. InIpBook(i, d)' = InIpBook(i, d) \cup {r}
        BY <3>1, Joining
      <4>2. InIpBook(i, d) \in SUBSET Requests /\ InIpBook(i, d)' \in SUBSET Requests
        BY DEF InIpBook
      <4>3. /\ Cardinality(InIpBook(i, d)) \in Nat /\ Cardinality(InIpBook(i, d)') \in Nat
            /\ Cardinality(InIpBook(i, d)') <= Cardinality(InIpBook(i, d)) + 1
        BY <4>1, <4>2, OneMore
      <4>4. ip_counts'[<<i, d>>] = ip_counts[<<i, d>>] + 1 /\ ip_counts[<<i, d>>] \in Nat
        BY <3>1 DEF WriteIp, TypeOK, Exact
      <4>5. QED BY <4>3, <4>4 DEF Exact
    <3>2. CASE ~(WriteIp(r) /\ i = ip[r] /\ d = booked[r])
      <4>1. InIpBook(i, d)' = InIpBook(i, d)
        BY <1>2, <3>2, Joining
      <4>2. ip_counts'[<<i, d>>] = ip_counts[<<i, d>>]
        BY <1>2, <3>2 DEF WriteIp, WriteSession, WriteCost, TypeOK
      <4>3. QED BY <4>1, <4>2 DEF Exact
    <3>3. QED BY <3>1, <3>2
  <2>3. \A s \in Sessions : Cardinality(InSessionBook(s))' <= session_counts'[s]
    <3> SUFFICES ASSUME NEW s \in Sessions
                 PROVE  Cardinality(InSessionBook(s)') <= session_counts'[s]
      OBVIOUS
    <3>1. CASE WriteSession(r) /\ s = session[r]
      <4>1. InSessionBook(s)' = InSessionBook(s) \cup {r}
        BY <3>1, Joining
      <4>2. InSessionBook(s) \in SUBSET Requests /\ InSessionBook(s)' \in SUBSET Requests
        BY DEF InSessionBook
      <4>3. /\ Cardinality(InSessionBook(s)) \in Nat /\ Cardinality(InSessionBook(s)') \in Nat
            /\ Cardinality(InSessionBook(s)') <= Cardinality(InSessionBook(s)) + 1
        BY <4>1, <4>2, OneMore
      <4>4. session_counts'[s] = session_counts[s] + 1 /\ session_counts[s] \in Nat
        BY <3>1 DEF WriteSession, TypeOK, Exact
      <4>5. QED BY <4>3, <4>4 DEF Exact
    <3>2. CASE ~(WriteSession(r) /\ s = session[r])
      <4>1. InSessionBook(s)' = InSessionBook(s)
        BY <1>2, <3>2, Joining
      <4>2. session_counts'[s] = session_counts[s]
        BY <1>2, <3>2 DEF WriteIp, WriteSession, WriteCost, TypeOK
      <4>3. QED BY <4>1, <4>2 DEF Exact
    <3>3. QED BY <3>1, <3>2
  <2>4. \A d \in Days : CostPerRun * Cardinality(InCostBook(d))' <= cost_by_day'[d]
    <3> SUFFICES ASSUME NEW d \in Days
                 PROVE  CostPerRun * Cardinality(InCostBook(d)') <= cost_by_day'[d]
      OBVIOUS
    <3>1. CASE WriteCost(r) /\ d = booked[r]
      <4>1. InCostBook(d)' = InCostBook(d) \cup {r}
        BY <3>1, Joining
      <4>2. InCostBook(d) \in SUBSET Requests /\ InCostBook(d)' \in SUBSET Requests
        BY DEF InCostBook
      <4>3. /\ Cardinality(InCostBook(d)) \in Nat /\ Cardinality(InCostBook(d)') \in Nat
            /\ Cardinality(InCostBook(d)') <= Cardinality(InCostBook(d)) + 1
        BY <4>1, <4>2, OneMore
      <4>4. /\ CostPerRun * Cardinality(InCostBook(d)')
                 <= CostPerRun * (Cardinality(InCostBook(d)) + 1)
            /\ CostPerRun * (Cardinality(InCostBook(d)) + 1)
                 = CostPerRun * Cardinality(InCostBook(d)) + CostPerRun
        <5>1. Cardinality(InCostBook(d)) + 1 \in Nat
          BY <4>3
        <5>2. QED BY <4>3, <5>1, Costs
      <4>5. cost_by_day'[d] = cost_by_day[d] + CostPerRun /\ cost_by_day[d] \in Nat
        BY <3>1 DEF WriteCost, TypeOK, Exact
      <4>6. /\ CostPerRun * Cardinality(InCostBook(d)) \in Nat
            /\ CostPerRun * Cardinality(InCostBook(d)') \in Nat
        BY <4>3, Costs
      <4>7. CostPerRun * Cardinality(InCostBook(d)) <= cost_by_day[d]
        BY DEF Exact
      <4>8. QED
        <5> DEFINE a == CostPerRun * Cardinality(InCostBook(d))
                   b == CostPerRun * Cardinality(InCostBook(d)')
        <5>1. a \in Nat /\ b \in Nat /\ a <= cost_by_day[d] /\ b <= a + CostPerRun
          BY <4>3, <4>4, <4>6, <4>7
        <5>2. CostPerRun \in Nat
          BY ConfigAssumption
        <5> HIDE DEF a, b
        <5>3. b <= cost_by_day[d] + CostPerRun
          BY <4>5, <5>1, <5>2
        <5>4. QED BY <4>5, <5>3 DEF b
    <3>2. CASE ~(WriteCost(r) /\ d = booked[r])
      <4>1. InCostBook(d)' = InCostBook(d)
        BY <1>2, <3>2, Joining
      <4>2. cost_by_day'[d] = cost_by_day[d]
        BY <1>2, <3>2 DEF WriteIp, WriteSession, WriteCost, TypeOK
      <4>3. QED BY <4>1, <4>2 DEF Exact
    <3>3. QED BY <3>1, <3>2
  <2>5. QED BY <2>1, <2>2, <2>3, <2>4 DEF Exact
<1>3. QED BY <1>1, <1>2

(***************************************************************************)
(* A request that passes a test of the gate has room in that book, and      *)
(* keeps it: nobody else is under way to fill the book.  When midnight falls *)
(* between the gate and the books, the books of the new day are empty.      *)
(***************************************************************************)
LEMMA RoomStep ==
  ASSUME IInv, [Next]_vars, ~overlap', Alone, Dates, Exact, Room
  PROVE  Room'
<1> SUFFICES ASSUME NEW q \in Requests PROVE HasRoom(q)'
  BY DEF Room
<1>0. CASE reason'[q] # "none" \/ pc'[q] \in AtRest
  BY <1>0 DEF HasRoom, AtRest
<1> SUFFICES ASSUME reason'[q] = "none", pc'[q] \notin AtRest PROVE HasRoom(q)'
  BY <1>0
<1> USE DEF IInv
<1>1. PICK i \in Ips, s \in Sessions, c \in Nat, b \in Nat :
        i = ip'[q] /\ s = session'[q] /\ c = checked'[q] /\ b = booked'[q]
  <2>1. TypeOK'
    BY TypeStep
  <2>2. /\ ip'[q] \in Ips /\ session'[q] \in Sessions
        /\ checked'[q] \in Days \cup {0} /\ booked'[q] \in Days \cup {0}
    BY <2>1 DEF TypeOK
  <2>3. Days \cup {0} \subseteq Nat
    BY DEF Days
  <2>4. QED BY <2>2, <2>3
<1>2. /\ InIpBook(ip[q], checked[q])' = InIpBook(i, c)'
      /\ InIpBook(ip[q], booked[q])' = InIpBook(i, b)'
      /\ InSessionBook(session[q])' = InSessionBook(s)'
      /\ InCostBook(checked[q])' = InCostBook(c)'
      /\ InCostBook(booked[q])' = InCostBook(b)'
  BY <1>1 DEF InIpBook, InSessionBook, InCostBook
<1>3. /\ \A d : Cardinality(InIpBook(i, d)) \in Nat
      /\ Cardinality(InSessionBook(s)) \in Nat
      /\ \A d : /\ Cardinality(InCostBook(d)) \in Nat
                /\ CostPerRun * Cardinality(InCostBook(d)) \in Nat
                /\ CostPerRun * (Cardinality(InCostBook(d)) + 1)
                     = CostPerRun * Cardinality(InCostBook(d)) + CostPerRun
  BY Sizes DEF SizesOK
<1>4. CASE UNCHANGED <<pc, ip, session, checked, booked, reason>> /\ BooksSame
  BY <1>1, <1>2, <1>4 DEF Room, HasRoom, BooksSame
<1>5. CASE Midnight \/ UNCHANGED vars
  <2>1. ~ \E r \in Requests : WriteIp(r) \/ WriteSession(r) \/ WriteCost(r)
    BY <1>5 DEF Midnight, vars, WriteIp, WriteSession, WriteCost, Goto, TypeOK
  <2>2. BooksSame
    BY <2>1, Unwritten
  <2>3. QED BY <1>4, <1>5, <2>2 DEF Midnight, vars
<1>6. ASSUME NEW r \in Requests, NEW scenario \in Scenarios, NEW length \in Lengths,
             Arrive(r, scenario, length)
      PROVE  HasRoom(q)'
  <2>1. \A x \in Requests : pc[x] \in AtRest
    BY <1>6, Zenon DEF Arrive
  <2>2. q = r /\ pc'[q] = "check_ip"
    BY <1>6, <2>1 DEF Arrive, Goto, TypeOK, AtRest
  <2>3. QED BY <2>2 DEF HasRoom
<1>7. ASSUME NEW r \in Requests, Serve(r), r # q PROVE HasRoom(q)'
  <2>1. pc[r] \notin AtRest
    BY <1>7 DEF Serve, CheckIp, CheckSession, CheckCost, Gate, Book, Respond, ReadIp,
       ReadSession, ReadCost, Read, WriteIp, WriteSession, WriteCost, AtRest
  <2>2. pc'[q] = pc[q]
    BY <1>7 DEF Serve, CheckIp, CheckSession, CheckCost, Gate, Book, Respond, ReadIp,
       ReadSession, ReadCost, Read, WriteIp, WriteSession, WriteCost, Goto, TypeOK
  <2>3. QED BY <1>7, <2>1, <2>2 DEF Alone
<1>8. CASE CheckIp(q) \/ CheckSession(q) \/ CheckCost(q) \/ Book(q) \/ ReadIp(q)
           \/ ReadSession(q) \/ ReadCost(q) \/ Respond(q)
  <2>1. ~ \E r \in Requests : WriteIp(r) \/ WriteSession(r) \/ WriteCost(r)
    BY <1>8, WriterAlone DEF CheckIp, CheckSession, CheckCost, Gate, Book, ReadIp,
       ReadSession, ReadCost, Read, Respond, WriteIp, WriteSession, WriteCost, Goto,
       TypeOK, Alone, AtRest
  <2>2. BooksSame
    BY <2>1, Unwritten
  <2>3. CASE CheckIp(q)
    <3>1. /\ pc'[q] = "check_session" /\ c = checked[q] /\ i = ip[q]
          /\ ~(ip_counts[<<i, c>>] >= PerIpLimit)
      BY <1>1, <2>3 DEF CheckIp, Gate, Goto, TypeOK
    <3>2. c \in Days
      BY <2>3, <3>1 DEF CheckIp, Gate, StageInv
    <3>3. ip_counts[<<i, c>>] \in Nat /\ Cardinality(InIpBook(i, c)) <= ip_counts[<<i, c>>]
      BY <3>2 DEF TypeOK, Exact
    <3>4. Cardinality(InIpBook(i, c)) < PerIpLimit
      BY <1>3, <3>1, <3>3, ConfigAssumption
    <3>5. QED BY <1>2, <2>2, <3>1, <3>4 DEF HasRoom, BooksSame
  <2>4. CASE CheckSession(q)
    <3>1. /\ pc'[q] = "check_cost" /\ c = checked[q] /\ i = ip[q] /\ s = session[q]
          /\ pc[q] = "check_session" /\ reason[q] = "none"
          /\ ~(session_counts[s] >= PerSessionLimit)
      BY <1>1, <2>4 DEF CheckSession, Gate, Goto, TypeOK
    <3>2. session_counts[s] \in Nat /\ Cardinality(InSessionBook(s)) <= session_counts[s]
      BY DEF TypeOK, Exact
    <3>3. Cardinality(InSessionBook(s)) < PerSessionLimit
      BY <1>3, <3>1, <3>2, ConfigAssumption
    <3>4. Cardinality(InIpBook(i, c)) < PerIpLimit
      BY <3>1 DEF Room, HasRoom
    <3>5. QED BY <1>2, <2>2, <3>1, <3>3, <3>4 DEF HasRoom, BooksSame
  <2>5. CASE CheckCost(q)
    <3>1. /\ pc'[q] = "book" /\ c = checked[q] /\ i = ip[q] /\ s = session[q]
          /\ pc[q] = "check_cost" /\ ~CostExceeded(q)
      BY <1>1, <2>5 DEF CheckCost, Goto, TypeOK
    <3>2. reason[q] = "none" => /\ Cardinality(InIpBook(i, c)) < PerIpLimit
                                /\ Cardinality(InSessionBook(s)) < PerSessionLimit
      BY <3>1 DEF Room, HasRoom
    <3>3. reason[q] = "none"
      BY <3>1 DEF StageInv
    <3>4. c \in Days
      BY <3>1 DEF StageInv
    <3>5. /\ cost_by_day[c] \in Nat
          /\ CostPerRun * Cardinality(InCostBook(c)) <= cost_by_day[c]
          /\ ~(cost_by_day[c] + CostPerRun > CostCap)
      BY <3>1, <3>4 DEF TypeOK, Exact, CostExceeded
    <3>6. CostPerRun * (Cardinality(InCostBook(c)) + 1) <= CostCap
      BY <1>3, <3>5, ConfigAssumption
    <3>7. QED BY <1>2, <2>2, <3>1, <3>2, <3>3, <3>6 DEF HasRoom, BooksSame
  <2>6. CASE Book(q)
    <3>1. /\ pc'[q] = "read_ip" /\ b = day /\ i = ip[q] /\ s = session[q]
          /\ pc[q] = "book" /\ reason[q] = "none" /\ c = checked[q]
      BY <1>1, <2>6 DEF Book, Goto, TypeOK
    <3>2. /\ Cardinality(InIpBook(i, c)) < PerIpLimit
          /\ Cardinality(InSessionBook(s)) < PerSessionLimit
          /\ CostPerRun * (Cardinality(InCostBook(c)) + 1) <= CostCap
      BY <3>1 DEF Room, HasRoom
    <3>3. /\ Cardinality(InIpBook(i, b)) < PerIpLimit
          /\ CostPerRun * (Cardinality(InCostBook(b)) + 1) <= CostCap
      <4>1. CASE b = c
        BY <3>2, <4>1
      <4>2. CASE b # c
        <5>1. \A r \in Requests : booked[r] # b
          <6>1. c <= b /\ \A r \in Requests : booked[r] <= c /\ booked[r] \in Int
            BY <3>1 DEF Dates, AtGate, TypeOK, Days
          <6>2. QED BY <4>2, <6>1
        <5>2. InIpBook(i, b) = {} /\ InCostBook(b) = {}
          BY <5>1 DEF InIpBook, InCostBook
        <5>3. Cardinality(InIpBook(i, b)) = 0 /\ Cardinality(InCostBook(b)) = 0
          BY <5>2, FS_EmptySet
        <5>4. CostPerRun * (0 + 1) = CostPerRun
          BY ConfigAssumption
        <5>5. QED BY <1>3, <3>2, <5>3, <5>4, ConfigAssumption
      <4>3. QED BY <4>1, <4>2
    <3>4. QED BY <1>2, <2>2, <3>1, <3>2, <3>3 DEF HasRoom, BooksSame
  <2>7. CASE ReadIp(q)
    <3>1. /\ pc'[q] = "write_ip" /\ b = booked[q] /\ i = ip[q] /\ s = session[q]
          /\ pc[q] = "read_ip" /\ reason[q] = "none"
      BY <1>1, <2>7 DEF ReadIp, Read, Goto, TypeOK
    <3>2. QED BY <1>2, <2>2, <3>1 DEF Room, HasRoom, BooksSame
  <2>8. CASE ReadSession(q)
    <3>1. /\ pc'[q] = "write_session" /\ b = booked[q] /\ i = ip[q] /\ s = session[q]
          /\ pc[q] = "read_session" /\ reason[q] = "none"
      BY <1>1, <2>8 DEF ReadSession, Read, Goto, TypeOK
    <3>2. QED BY <1>2, <2>2, <3>1 DEF Room, HasRoom, BooksSame
  <2>9. CASE ReadCost(q)
    <3>1. /\ pc'[q] = "write_cost" /\ b = booked[q]
          /\ pc[q] = "read_cost" /\ reason[q] = "none"
      BY <1>1, <2>9 DEF ReadCost, Read, Goto, TypeOK
    <3>2. QED BY <1>2, <2>2, <3>1 DEF Room, HasRoom, BooksSame
  <2>10. CASE Respond(q)
    BY <2>10 DEF Respond, Goto, TypeOK, AtRest
  <2>11. QED BY <1>8, <2>3, <2>4, <2>5, <2>6, <2>7, <2>8, <2>9, <2>10
<1>9. CASE WriteIp(q)
  <2>1. /\ pc'[q] = "read_session" /\ b = booked[q] /\ i = ip[q] /\ s = session[q]
        /\ pc[q] = "write_ip" /\ reason[q] = "none"
    BY <1>1, <1>9 DEF WriteIp, Goto, TypeOK
  <2>2. /\ InSessionBook(s)' = InSessionBook(s) /\ InCostBook(b)' = InCostBook(b)
    BY <1>9, Joining
  <2>3. QED BY <1>2, <2>1, <2>2 DEF Room, HasRoom
<1>10. CASE WriteSession(q)
  <2>1. /\ pc'[q] = "read_cost" /\ b = booked[q]
        /\ pc[q] = "write_session" /\ reason[q] = "none"
    BY <1>1, <1>10 DEF WriteSession, Goto, TypeOK
  <2>2. InCostBook(b)' = InCostBook(b)
    BY <1>10, Joining
  <2>3. QED BY <1>2, <2>1, <2>2 DEF Room, HasRoom
<1>11. CASE WriteCost(q)
  <2>1. pc'[q] = "respond"
    BY <1>11 DEF WriteCost, Goto, TypeOK
  <2>2. QED BY <2>1 DEF HasRoom
<1>12. QED
  BY <1>5, <1>6, <1>7, <1>8, <1>9, <1>10, <1>11 DEF Next, Serve

(* Only a request with room joins the live runs of a book.                  *)
LEMMA KeptStep ==
  ASSUME IInv, [Next]_vars, Dates, Room, Kept
  PROVE  Kept'
<1> USE DEF IInv
<1>1. \A i, d : LiveOfIp(i, d) \in SUBSET Requests /\ LiveOfIp(i, d)' \in SUBSET Requests
      /\ LiveOfIp(i, d) \subseteq InIpBook(i, d) /\ InIpBook(i, d) \in SUBSET Requests
  BY DEF LiveOfIp, InIpBook
<1>2. \A s : LiveOfSession(s) \in SUBSET Requests /\ LiveOfSession(s)' \in SUBSET Requests
      /\ LiveOfSession(s) \subseteq InSessionBook(s) /\ InSessionBook(s) \in SUBSET Requests
  BY DEF LiveOfSession, InSessionBook
<1>3. \A d : InCostBook(d) \in SUBSET Requests /\ InCostBook(d)' \in SUBSET Requests
  BY DEF InCostBook
<1>4. CASE ~ \E r \in Requests : WriteIp(r) \/ WriteSession(r) \/ WriteCost(r)
  <2>1. BooksSame
    BY <1>4, Unwritten
  <2>2. \A i \in Ips, d \in Days : Cardinality(LiveOfIp(i, d)') <= PerIpLimit
    BY <2>1 DEF BooksSame, Kept
  <2>3. \A s \in Sessions : Cardinality(LiveOfSession(s)') <= PerSessionLimit
    BY <2>1 DEF BooksSame, Kept
  <2>4. \A d \in Days : CostPerRun * Cardinality(InCostBook(d)') <= CostCap
    BY <2>1 DEF BooksSame, Kept
  <2>5. QED BY <2>2, <2>3, <2>4 DEF Kept
<1>5. ASSUME NEW r \in Requests, WriteIp(r) PROVE Kept'
  <2>1. pc[r] = "write_ip"
    BY <1>5 DEF WriteIp
  <2>2. ASSUME NEW i \in Ips, NEW d \in Days PROVE Cardinality(LiveOfIp(i, d)') <= PerIpLimit
    <3>1. CASE i = ip[r] /\ d = booked[r] /\ reason[r] = "none"
      <4>1. LiveOfIp(i, d)' \subseteq LiveOfIp(i, d) \cup {r}
        BY <1>5, <3>1, Joining
      <4>2. /\ Cardinality(LiveOfIp(i, d)) \in Nat /\ Cardinality(LiveOfIp(i, d)') \in Nat
            /\ Cardinality(LiveOfIp(i, d)') <= Cardinality(LiveOfIp(i, d)) + 1
        BY <1>1, <4>1, OneMore
      <4>3. /\ Cardinality(InIpBook(i, d)) \in Nat
            /\ Cardinality(LiveOfIp(i, d)) <= Cardinality(InIpBook(i, d))
        BY <1>1, Counting
      <4>4. Cardinality(InIpBook(i, d)) < PerIpLimit
        BY <2>1, <3>1 DEF Room, HasRoom
      <4>5. QED BY <4>2, <4>3, <4>4, ConfigAssumption
    <3>2. CASE ~(i = ip[r] /\ d = booked[r] /\ reason[r] = "none")
      <4>1. LiveOfIp(i, d)' = LiveOfIp(i, d)
        BY <1>5, <3>2, Joining
      <4>2. QED BY <4>1 DEF Kept
    <3>3. QED BY <3>1, <3>2
  <2>3. \A s \in Sessions : Cardinality(LiveOfSession(s)') <= PerSessionLimit
    BY <1>5, Joining DEF Kept
  <2>4. \A d \in Days : CostPerRun * Cardinality(InCostBook(d)') <= CostCap
    BY <1>5, Joining DEF Kept
  <2>5. QED BY <2>2, <2>3, <2>4 DEF Kept
<1>6. ASSUME NEW r \in Requests, WriteSession(r) PROVE Kept'
  <2>1. pc[r] = "write_session"
    BY <1>6 DEF WriteSession
  <2>2. ASSUME NEW s \in Sessions PROVE Cardinality(LiveOfSession(s)') <= PerSessionLimit
    <3>1. CASE s = session[r] /\ reason[r] = "none"
      <4>1. LiveOfSession(s)' \subseteq LiveOfSession(s) \cup {r}
        BY <1>6, <3>1, Joining
      <4>2. /\ Cardinality(LiveOfSession(s)) \in Nat /\ Cardinality(LiveOfSession(s)') \in Nat
            /\ Cardinality(LiveOfSession(s)') <= Cardinality(LiveOfSession(s)) + 1
        BY <1>2, <4>1, OneMore
      <4>3. /\ Cardinality(InSessionBook(s)) \in Nat
            /\ Cardinality(LiveOfSession(s)) <= Cardinality(InSessionBook(s))
        BY <1>2, Counting
      <4>4. Cardinality(InSessionBook(s)) < PerSessionLimit
        BY <2>1, <3>1 DEF Room, HasRoom
      <4>5. QED BY <4>2, <4>3, <4>4, ConfigAssumption
    <3>2. CASE ~(s = session[r] /\ reason[r] = "none")
      <4>1. LiveOfSession(s)' = LiveOfSession(s)
        BY <1>6, <3>2, Joining
      <4>2. QED BY <4>1 DEF Kept
    <3>3. QED BY <3>1, <3>2
  <2>3. \A i \in Ips, d \in Days : Cardinality(LiveOfIp(i, d)') <= PerIpLimit
    BY <1>6, Joining DEF Kept
  <2>4. \A d \in Days : CostPerRun * Cardinality(InCostBook(d)') <= CostCap
    BY <1>6, Joining DEF Kept
  <2>5. QED BY <2>2, <2>3, <2>4 DEF Kept
<1>7. ASSUME NEW r \in Requests, WriteCost(r) PROVE Kept'
  <2>1. pc[r] = "write_cost" /\ reason[r] = "none"
    BY <1>7 DEF WriteCost, StageInv
  <2>2. ASSUME NEW d \in Days PROVE CostPerRun * Cardinality(InCostBook(d)') <= CostCap
    <3>1. CASE d = booked[r]
      <4>1. InCostBook(d)' = InCostBook(d) \cup {r}
        BY <1>7, <3>1, Joining
      <4>2. /\ Cardinality(InCostBook(d)) \in Nat /\ Cardinality(InCostBook(d)') \in Nat
            /\ Cardinality(InCostBook(d)') <= Cardinality(InCostBook(d)) + 1
        BY <1>3, <4>1, OneMore
      <4>3. Cardinality(InCostBook(d)) + 1 \in Nat
        BY <4>2
      <4>4. /\ CostPerRun * Cardinality(InCostBook(d)')
                 <= CostPerRun * (Cardinality(InCostBook(d)) + 1)
            /\ CostPerRun * Cardinality(InCostBook(d)') \in Nat
            /\ CostPerRun * (Cardinality(InCostBook(d)) + 1) \in Nat
        BY <4>2, <4>3, Costs
      <4>5. CostPerRun * (Cardinality(InCostBook(d)) + 1) <= CostCap
        BY <2>1, <3>1 DEF Room, HasRoom
      <4>6. QED BY <4>4, <4>5, ConfigAssumption
    <3>2. CASE d # booked[r]
      <4>1. InCostBook(d)' = InCostBook(d)
        BY <1>7, <3>2, Joining
      <4>2. QED BY <4>1 DEF Kept
    <3>3. QED BY <3>1, <3>2
  <2>3. \A i \in Ips, d \in Days : Cardinality(LiveOfIp(i, d)') <= PerIpLimit
    BY <1>7, Joining DEF Kept
  <2>4. \A s \in Sessions : Cardinality(LiveOfSession(s)') <= PerSessionLimit
    BY <1>7, Joining DEF Kept
  <2>5. QED BY <2>2, <2>3, <2>4 DEF Kept
<1>8. QED BY <1>4, <1>5, <1>6, <1>7

(* The empty books are within their limits and no request is under way.     *)
LEMMA SerialStart == ASSUME Init PROVE SerialInv
<1>1. /\ \A r \in Requests : pc[r] = "idle" /\ booked[r] = 0
      /\ day = 1
  BY DEF Init
<1>2. Alone /\ Dates /\ Room
  BY <1>1 DEF Alone, Dates, Room, HasRoom, AtRest, AtGate
<1>3. /\ \A i, d : InIpBook(i, d) = {} /\ LiveOfIp(i, d) = {}
      /\ \A s : InSessionBook(s) = {} /\ LiveOfSession(s) = {}
      /\ \A d : InCostBook(d) = {}
  BY <1>1 DEF InIpBook, InSessionBook, InCostBook, LiveOfIp, LiveOfSession, IpBooked,
     SessionBooked, CostBooked
<1>4. /\ \A i, d : Cardinality(InIpBook(i, d)) = 0 /\ Cardinality(LiveOfIp(i, d)) = 0
      /\ \A s : Cardinality(InSessionBook(s)) = 0 /\ Cardinality(LiveOfSession(s)) = 0
      /\ \A d : CostPerRun * Cardinality(InCostBook(d)) = 0
  <2>1. \A S : S = {} => Cardinality(S) = 0
    BY FS_EmptySet
  <2>2. \A n : n = 0 => CostPerRun * n = 0
    BY ConfigAssumption
  <2>3. \A d : Cardinality(InCostBook(d)) = 0
    BY <1>3, <2>1
  <2>4. QED BY <1>3, <2>1, <2>2, <2>3
<1>5. Kept
  BY <1>4, ConfigAssumption DEF Kept
<1>6. Exact
  <2>1. ASSUME NEW i \in Ips, NEW d \in Days PROVE ip_counts[<<i, d>>] = 0
    BY DEF Init
  <2>2. /\ \A s \in Sessions : session_counts[s] = 0
        /\ \A d \in Days : cost_by_day[d] = 0
    BY DEF Init
  <2>3. QED BY <1>1, <1>4, <2>1, <2>2 DEF Exact
<1>7. QED BY <1>2, <1>5, <1>6 DEF SerialInv

(* Requests that do not overlap keep the serial invariant. *)
THEOREM SerialInvariance == Spec => []SerialInv
<1>1. IInv /\ SerialInv /\ [Next]_vars => SerialInv'
  <2> SUFFICES ASSUME IInv, SerialInv, [Next]_vars, ~overlap'
               PROVE  Alone' /\ Dates' /\ Exact' /\ Room' /\ Kept'
    BY DEF SerialInv
  <2>1. ~overlap /\ Alone /\ Alone'
    BY AloneStep DEF SerialInv
  <2>2. Dates /\ Exact /\ Room /\ Kept
    BY <2>1 DEF SerialInv
  <2>3. QED BY <2>1, <2>2, DatesStep, ExactStep, RoomStep, KeptStep
<1>2. QED BY <1>1, SerialStart, Invariance, PTL DEF Spec

(***************************************************************************)
(* Requests that do not overlap never get past a limit, though midnight may *)
(* fall between the gate and the books of any of them.                      *)
(***************************************************************************)
THEOREM Limits == Spec => []LimitsHold
<1>1. SerialInv => LimitsHold
  BY DEF SerialInv, Kept, LimitsHold, LiveOfIp, LiveOfSession
<1>2. QED BY <1>1, SerialInvariance, PTL
=============================================================================
