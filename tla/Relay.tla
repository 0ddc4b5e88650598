------------------------------- MODULE Relay -------------------------------
(***************************************************************************)
(* The hosted-demo relay (relay/relay_server.py): each POST /demo-run has   *)
(* a thread of its own (ThreadingHTTPServer), and the threads share the     *)
(* three counters of one RelayState with no lock: a counter is read at one  *)
(* step and written at a later one, and the gate (check) and the books      *)
(* (book) each ask the clock for the day.                                   *)
(* Costs are in whole units: the rounding of the code's floats is left out. *)
(* CostPerRun is not 0, so that `live' tells whether a cost is booked.      *)
(***************************************************************************)
EXTENDS Integers, FiniteSets

CONSTANTS
  Requests,        \* POST /demo-run requests, one thread each
  Ips, Sessions,   \* client addresses, session ids ("anon" is one of them)
  Scenarios, AllowedScenarios,
  Lengths,         \* lengths of payload_text
  MaxInput, PerIpLimit, PerSessionLimit, CostCap, CostPerRun,
  LivePool,        \* TRUE if the pool has an enabled provider that is no mock
  LastDay          \* bound: the days are 1..LastDay

ASSUME RequestAssumption == IsFiniteSet(Requests)
ASSUME ConfigAssumption ==
  /\ LivePool \in BOOLEAN /\ AllowedScenarios \subseteq Scenarios
  /\ Lengths \subseteq Nat /\ MaxInput \in Nat
  /\ PerIpLimit \in Nat /\ PerSessionLimit \in Nat
  /\ CostCap \in Nat /\ CostPerRun \in Nat \ {0}
ASSUME DayAssumption == LastDay \in Nat \ {0}

VARIABLES
  day,            \* the UTC date
  ip_counts, session_counts, cost_by_day,   \* RelayState
  pc, ip, session,          \* of each request: next step, who sends it
  checked, booked,          \* the day that check and book asked for; 0 if not yet
  seen,                     \* the counter value a thread is about to increase
  reason,                   \* why the answer is a fallback; "none" if it is not
  overlap                   \* history: a request came while another was served

vars == <<day, ip_counts, session_counts, cost_by_day, pc, ip, session,
          checked, booked, seen, reason, overlap>>
books == <<ip_counts, session_counts, cost_by_day>>

Days == 1..LastDay
Labels == {"idle", "check_ip", "check_session", "check_cost", "book",
           "read_ip", "write_ip", "read_session", "write_session",
           "read_cost", "write_cost", "respond", "answered", "rejected"}
AtRest == {"idle", "answered", "rejected"}
Reasons == {"none", "ip", "session", "cost", "pool"}

Goto(r, l) == pc' = [pc EXCEPT ![r] = l]

Init ==
  /\ day = 1
  /\ ip_counts = [k \in Ips \X Days |-> 0]
  /\ session_counts = [s \in Sessions |-> 0]
  /\ cost_by_day = [d \in Days |-> 0]
  /\ pc = [r \in Requests |-> "idle"]
  /\ ip \in [Requests -> Ips] /\ session \in [Requests -> Sessions]
  /\ checked = [r \in Requests |-> 0] /\ booked = [r \in Requests |-> 0]
  /\ seen = [r \in Requests |-> 0] /\ reason = [r \in Requests |-> "none"]
  /\ overlap = FALSE

(* do_POST and the first half of check: a request for another scenario, or  *)
(* of the wrong length, is answered 400; any other asks for the day.        *)
Arrive(r, scenario, length) ==
  /\ pc[r] = "idle"
  /\ overlap' = (overlap \/ \E q \in Requests : pc[q] \notin AtRest)
  /\ IF scenario \in AllowedScenarios /\ length \in 1..MaxInput
       THEN checked' = [checked EXCEPT ![r] = day] /\ Goto(r, "check_ip")
       ELSE checked' = checked /\ Goto(r, "rejected")
  /\ UNCHANGED <<books, day, ip, session, booked, seen, reason>>

(* One test of the gate: a limit that is reached makes the answer a fallback. *)
Gate(r, from, reached, why, next) ==
  /\ pc[r] = from
  /\ IF reached
       THEN reason' = [reason EXCEPT ![r] = why] /\ Goto(r, "book")
       ELSE reason' = reason /\ Goto(r, next)
  /\ UNCHANGED <<books, day, ip, session, checked, booked, seen, overlap>>

(* Mutant: the limit of an address is compared over all days. *)
BugAllDays(r) ==
  Gate(r, "check_ip", \E d \in Days : ip_counts[<<ip[r], d>>] >= PerIpLimit,
       "ip", "check_session")

(* Mutant: a limit of n lets n + 1 runs of an address through. *)
BugIpOffByOne(r) ==
  Gate(r, "check_ip", ip_counts[<<ip[r], checked[r]>>] > PerIpLimit,
       "ip", "check_session")

CheckIp(r) ==
  Gate(r, "check_ip", ip_counts[<<ip[r], checked[r]>>] >= PerIpLimit,
       "ip", "check_session")

(* Mutant: a limit of n lets n + 1 runs through. *)
BugOffByOne(r) ==
  Gate(r, "check_session", session_counts[session[r]] > PerSessionLimit,
       "session", "check_cost")

CheckSession(r) ==
  Gate(r, "check_session", session_counts[session[r]] >= PerSessionLimit,
       "session", "check_cost")

(* Mutant: the cap is compared before the run's own cost is added. *)
BugCostOfOthers(r) == cost_by_day[checked[r]] > CostCap

CostExceeded(r) == cost_by_day[checked[r]] + CostPerRun > CostCap

(* The cost cap, then whether a live provider is enabled. *)
CheckCost(r) ==
  /\ pc[r] = "check_cost"
  /\ reason' = [reason EXCEPT ![r] = IF CostExceeded(r) THEN "cost"
                                     ELSE IF LivePool THEN "none" ELSE "pool"]
  /\ Goto(r, "book")
  /\ UNCHANGED <<books, day, ip, session, checked, booked, seen, overlap>>

(* Mutant: book asks for the local date, which is a day ahead of check's. *)
BugLocalDate(r) ==
  /\ pc[r] = "book" /\ Goto(r, "read_ip")
  /\ booked' = [booked EXCEPT ![r] = IF day < LastDay THEN day + 1 ELSE day]
  /\ UNCHANGED <<books, day, ip, session, checked, seen, reason, overlap>>

(* book asks for the day again: midnight may have passed since check. *)
Book(r) ==
  /\ pc[r] = "book" /\ Goto(r, "read_ip")
  /\ booked' = [booked EXCEPT ![r] = day]
  /\ UNCHANGED <<books, day, ip, session, checked, seen, reason, overlap>>

(* The two halves of "counter = counter.get(key, 0) + 1". *)
Read(r, from, value, next) ==
  /\ pc[r] = from /\ Goto(r, next) /\ seen' = [seen EXCEPT ![r] = value]
  /\ UNCHANGED <<books, day, ip, session, checked, booked, reason, overlap>>

ReadIp(r) == Read(r, "read_ip", ip_counts[<<ip[r], booked[r]>>], "write_ip")

(* Mutant: the book of an address counts down. *)
BugCountsDown(r) ==
  /\ pc[r] = "write_ip" /\ Goto(r, "read_session")
  /\ ip_counts' = [ip_counts EXCEPT ![<<ip[r], booked[r]>>] = seen[r] - 1]
  /\ UNCHANGED <<day, session_counts, cost_by_day, ip, session, checked, booked,
                 seen, reason, overlap>>

WriteIp(r) ==
  /\ pc[r] = "write_ip" /\ Goto(r, "read_session")
  /\ ip_counts' = [ip_counts EXCEPT ![<<ip[r], booked[r]>>] = seen[r] + 1]
  /\ UNCHANGED <<day, session_counts, cost_by_day, ip, session, checked, booked,
                 seen, reason, overlap>>

ReadSession(r) ==
  Read(r, "read_session", session_counts[session[r]], "write_session")

(* Mutant: a fallback, too, is booked as a cost. *)
BugFallbackCosts(r) ==
  /\ pc[r] = "write_session" /\ Goto(r, "read_cost")
  /\ session_counts' = [session_counts EXCEPT ![session[r]] = seen[r] + 1]
  /\ UNCHANGED <<day, ip_counts, cost_by_day, ip, session, checked, booked,
                 seen, reason, overlap>>

(* Only a live answer costs. *)
WriteSession(r) ==
  /\ pc[r] = "write_session"
  /\ Goto(r, IF reason[r] = "none" THEN "read_cost" ELSE "respond")
  /\ session_counts' = [session_counts EXCEPT ![session[r]] = seen[r] + 1]
  /\ UNCHANGED <<day, ip_counts, cost_by_day, ip, session, checked, booked,
                 seen, reason, overlap>>

ReadCost(r) == Read(r, "read_cost", cost_by_day[booked[r]], "write_cost")

WriteCost(r) ==
  /\ pc[r] = "write_cost" /\ Goto(r, "respond")
  /\ cost_by_day' = [cost_by_day EXCEPT ![booked[r]] = seen[r] + CostPerRun]
  /\ UNCHANGED <<day, ip_counts, session_counts, ip, session, checked, booked,
                 seen, reason, overlap>>

(* The curated answers, in both modes. *)
Respond(r) ==
  /\ pc[r] = "respond" /\ Goto(r, "answered")
  /\ UNCHANGED <<books, day, ip, session, checked, booked, seen, reason, overlap>>

Midnight ==
  /\ day < LastDay /\ day' = day + 1
  /\ UNCHANGED <<books, pc, ip, session, checked, booked, seen, reason, overlap>>

Serve(r) ==
  \/ CheckIp(r) \/ CheckSession(r) \/ CheckCost(r) \/ Book(r)
  \/ ReadIp(r) \/ WriteIp(r) \/ ReadSession(r) \/ WriteSession(r)
  \/ ReadCost(r) \/ WriteCost(r) \/ Respond(r)
Next ==
  \/ \E r \in Requests :
       \/ \E scenario \in Scenarios, length \in Lengths : Arrive(r, scenario, length)
       \/ Serve(r)
  \/ Midnight
Spec == Init /\ [][Next]_vars

-----------------------------------------------------------------------------
(* Counters count and days are days of the bounded calendar. *)
TypeOK ==
  /\ day \in Days
  /\ ip_counts \in [Ips \X Days -> Nat] /\ session_counts \in [Sessions -> Nat]
  /\ cost_by_day \in [Days -> Nat]
  /\ pc \in [Requests -> Labels] /\ ip \in [Requests -> Ips]
  /\ session \in [Requests -> Sessions]
  /\ checked \in [Requests -> Days \cup {0}] /\ booked \in [Requests -> Days \cup {0}]
  /\ seen \in [Requests -> Nat] /\ reason \in [Requests -> Reasons]
  /\ overlap \in BOOLEAN

(* The requests that stand in each book: their thread is past its write. *)
IpBooked == {"read_session", "write_session", "read_cost", "write_cost",
             "respond", "answered"}
SessionBooked == {"read_cost", "write_cost", "respond", "answered"}
CostBooked == {"respond", "answered"}
InIpBook(i, d) == {r \in Requests : pc[r] \in IpBooked /\ ip[r] = i /\ booked[r] = d}
InSessionBook(s) ==
  {r \in Requests : pc[r] \in SessionBooked /\ session[r] = s}
InCostBook(d) ==
  {r \in Requests : pc[r] \in CostBooked /\ reason[r] = "none" /\ booked[r] = d}

(***************************************************************************)
(* The counters that the threads share never overcount, whatever updates    *)
(* the threads lose to each other and whenever midnight falls: no counter   *)
(* is above the number of runs that were booked in it.                      *)
(***************************************************************************)
NeverOvercount ==
  /\ \A i \in Ips, d \in Days : ip_counts[<<i, d>>] <= Cardinality(InIpBook(i, d))
  /\ \A s \in Sessions : session_counts[s] <= Cardinality(InSessionBook(s))
  /\ \A d \in Days : cost_by_day[d] <= CostPerRun * Cardinality(InCostBook(d))

(***************************************************************************)
(* The gate invents no refusal, although the counts it reads are racy: when  *)
(* a fallback names a limit, as many requests as the limit allows really     *)
(* stand in the book of that address and day, of that session, or of that    *)
(* day's cost (relay_server.py:69-75).  The first two books hold fallbacks   *)
(* like live runs: see LimitsCountLiveRuns.                                  *)
(***************************************************************************)
RefusalsAreBooked ==
  \A r \in Requests :
    /\ reason[r] = "ip" => Cardinality(InIpBook(ip[r], checked[r])) >= PerIpLimit
    /\ reason[r] = "session" =>
         Cardinality(InSessionBook(session[r])) >= PerSessionLimit
    /\ reason[r] = "cost" =>
         CostPerRun * (Cardinality(InCostBook(checked[r])) + 1) > CostCap

(***************************************************************************)
(* "Per-IP daily limit | 3-5 live runs", "Per-session limit | 3 live runs"   *)
(* (docs/hosted_live_demo.md:73-74): a request that a limit turns into a     *)
(* fallback has that many LIVE runs of its address and day, or of its        *)
(* session, behind it.  book counts the fallbacks too                        *)
(* (relay_server.py:80-81).                                                  *)
(***************************************************************************)
LimitsCountLiveRuns ==
  \A r \in Requests :
    /\ reason[r] = "ip" =>
         Cardinality({q \in InIpBook(ip[r], checked[r]) : reason[q] = "none"}) >= PerIpLimit
    /\ reason[r] = "session" =>
         Cardinality({q \in InSessionBook(session[r]) : reason[q] = "none"})
           >= PerSessionLimit

(***************************************************************************)
(* "rate limited; ... daily cost capped" (docs/hosted_live_demo.md:64): as  *)
(* long as no two requests overlap, the live runs of an address and a day,  *)
(* of a session, and the cost of a day, stay within their limits,           *)
(* though the gate may look at one day and the books be those of the next.  *)
(***************************************************************************)
LimitsHold ==
  ~overlap =>
    /\ \A i \in Ips, d \in Days :
         Cardinality({r \in InIpBook(i, d) : reason[r] = "none"}) <= PerIpLimit
    /\ \A s \in Sessions :
         Cardinality({r \in InSessionBook(s) : reason[r] = "none"}) <= PerSessionLimit
    /\ \A d \in Days : CostPerRun * Cardinality(InCostBook(d)) <= CostCap

(***************************************************************************)
(* "daily cost capped" (docs/hosted_live_demo.md:64), for any clients.  Two *)
(* requests pass the gate before either is booked, and both are live.       *)
(***************************************************************************)
CostCapped ==
  \A d \in Days : CostPerRun * Cardinality(InCostBook(d)) <= CostCap
=============================================================================
