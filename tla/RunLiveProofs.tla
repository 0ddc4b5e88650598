---------------------------- MODULE RunLiveProofs ----------------------------
(***************************************************************************)
(* Theorems about RunLive, for every scenario, every set of providers'      *)
(* answers and every number of runs and edits.                              *)
(***************************************************************************)
EXTENDS RunLive, TLAPS

(* The labels of a run, in the order in which it passes them. *)
Loading == {"fragments", "original", "payloads", "local", "plan"}
Gating == {"leaks", "chain", "seats", "preflight", "confirm"}
Telling == {"transmit", "await", "answered", "pubkey", "receipt", "filling"}
Attested == {"selfverify", "combined"}

(* How far load_run_inputs has come, and where the two loops stand. *)
ReadInv ==
  /\ Injective(ids)
  /\ pc = "original" => Len(ids) >= 2
  /\ pc \in {"fragments", "original", "local", "plan"} \cup Gating => i = 1
  /\ pc \in {"payloads", "await", "answered"} => i <= Len(ids)
  /\ pc = "payloads" => \A n \in 1 .. i - 1 : buf.payload[ids[n]] \in Texts
  /\ pc \in {"local", "plan"} \cup Gating \cup Telling \cup Attested =>
       \A n \in DOMAIN ids : buf.payload[ids[n]] \in Texts
  /\ pc \in {"plan"} \cup Gating \cup Telling \cup Attested => buf.local \in Secrets

(* Nothing is sent before the gates and the consent, and only what they saw. *)
WireInv ==
  /\ \A m \in wire : m.run <= run
  /\ pc \in Loading \cup Gating => Sent = {}
  /\ pc \in (Gating \ {"leaks"}) \cup Telling \cup Attested => ~LeakFound
  /\ pc \in Loading \cup (Gating \ {"confirm"}) => shown = {}
  /\ pc \in {"confirm"} \cup Telling \cup Attested =>
       shown = {Description(Message(f)) : f \in Elems(ids)}
  /\ pc \in Telling \cup Attested => \A m \in Sent : \E f \in Elems(ids) : m = Message(f)
  /\ OnlyVettedBytesLeave

(* The seats the transmit loop has not come to were not asked. *)
PostInv ==
  /\ pc \in Loading \cup Gating => \A f \in Fragments : posts[f] = 0
  /\ pc = "transmit" => \A n \in DOMAIN ids : n >= i => posts[ids[n]] = 0
  /\ pc \in {"await", "answered"} => \A n \in DOMAIN ids : n > i => posts[ids[n]] = 0
  /\ OneMessagePerSeat

(* A run has no receipt before it writes one, and no answer without a request. *)
ReceiptInv ==
  /\ \A r \in ledger : r.id <= run
  /\ out.receipt \in ledger \cup {NoReceipt}
  /\ pc # "idle" => run > 0
  /\ pc \in Loading \cup Gating \cup Telling => ~Recorded
  /\ \A f \in Fragments : resp[f].text # EmptyText => \E m \in Sent : m.seat = f
  /\ ReceiptTellsTheWire

-----------------------------------------------------------------------------
(* In the loops, the seat whose turn it is is one of the plan's.           *)
LEMMA SeatType == ASSUME TypeOK, i <= Len(ids) PROVE Seat \in Fragments /\ Seat \in Elems(ids)
BY DEF TypeOK, Seat, Elems

(* An accepted plan declares distinct fragments, one at least.             *)
LEMMA DeclaredIdsType ==
  ASSUME NEW plan \in Plans, FragmentsAccepted(plan)
  PROVE  /\ DeclaredIds(plan) \in Seq(Fragments) /\ Len(DeclaredIds(plan)) >= 2
         /\ Injective(DeclaredIds(plan))
<1>1. plan.fragments \in Seq(Fragments)
  BY PlanAssumption
<1>2. CASE plan.fragments = <<>>
  <2>1. DeclaredIds(plan) = LegacyPair
    BY <1>2 DEF DeclaredIds
  <2> QED BY <2>1, FragmentAssumption DEF Injective
<1>3. CASE plan.fragments # <<>>
  <2>1. DeclaredIds(plan) = plan.fragments
    BY <1>3 DEF DeclaredIds
  <2> QED BY <1>1, <1>3, <2>1 DEF FragmentsAccepted, FRAGMENT_MIN, FRAGMENT_MAX
<1> QED BY <1>2, <1>3

(* What the run signs is a receipt.                                        *)
LEMMA ReceiptType ==
  ASSUME TypeOK, ReadInv, pc = "filling" PROVE IsReceipt(SignedReceipt)
<1>1. Elems(ids) \subseteq Fragments
  BY DEF TypeOK, Elems
<1>2. ASSUME NEW f \in Elems(ids) PROVE Event(f) \in Events
  <2>1. f \in Fragments /\ kind[f] \in Kinds /\ resp[f] \in Responses
    BY <1>1 DEF TypeOK
  <2>2. buf.payload[f] \in Texts
    BY DEF ReadInv, Telling, Elems
  <2> QED BY <2>1, <2>2 DEF Event, Events, Responses
<1>3. [f \in Elems(ids) |-> Event(f)] \in [Elems(ids) -> Events]
  BY <1>1, <1>2
<1>4. buf.local \in Secrets /\ run \in RunNumbers /\ key \in Nat /\ prev \in Nat
  BY BoundAssumption DEF TypeOK, ReadInv, Telling, RunNumbers
<1>5. SignedReceipt.events = [f \in Elems(ids) |-> Event(f)]
  BY DEF SignedReceipt
<1>6. /\ DOMAIN SignedReceipt.events = Elems(ids)
      /\ SignedReceipt.events \in [Elems(ids) -> Events]
  BY <1>3, <1>5
<1>7. SignedReceipt \in [id : RunNumbers, keyId : {LocalKeyId}, signer : Nat, prev : Nat,
                         events : {SignedReceipt.events}, local : Secrets, sawFull : BOOLEAN]
  BY <1>4, <1>5 DEF SignedReceipt
<1> QED BY <1>1, <1>6, <1>7 DEF IsReceipt

(* Every step keeps the types and what the buffers hold by now.            *)
LEMMA Inv1Step == TypeOK /\ ReadInv /\ [Next]_vars => TypeOK' /\ ReadInv'
<1> SUFFICES ASSUME TypeOK, ReadInv, [Next]_vars PROVE TypeOK' /\ ReadInv'
  OBVIOUS
<1> USE DEF world, inputs, loop, history, Goto, End
<1>1. CASE LoadFragments
  <2>1. ids' \in Seq(Fragments) /\ Injective(ids') /\ (pc' = "original" => Len(ids') >= 2)
    <3>1. CASE FragmentsAccepted(disk.plan)
      BY <1>1, <3>1, DeclaredIdsType DEF LoadFragments, TypeOK, Disk, Injective
    <3>2. CASE ~FragmentsAccepted(disk.plan)
      BY <1>1, <3>2 DEF LoadFragments, TypeOK, ReadInv
    <3> QED BY <3>1, <3>2
  <2>2. i' = 1 /\ i' \in 1 .. Len(ids') + 1
    BY <1>1, <2>1 DEF LoadFragments, TypeOK, ReadInv
  <2>3. TypeOK'
    BY <1>1, <2>1, <2>2 DEF LoadFragments, TypeOK, Labels, Exits
  <2>4. ReadInv'
    BY <1>1, <2>1, <2>2 DEF LoadFragments, TypeOK, ReadInv, Loading, Gating, Telling, Attested
  <2> QED BY <2>3, <2>4
<1>2. CASE ReadOriginal
  <2>1. buf' \in Buffers
    BY <1>2 DEF ReadOriginal, TypeOK, Disk, Buffers
  <2>2. TypeOK'
    BY <1>2, <2>1 DEF ReadOriginal, TypeOK, Labels, Exits
  <2>3. ReadInv'
    BY <1>2 DEF ReadOriginal, TypeOK, ReadInv, Gating, Telling, Attested
  <2> QED BY <2>2, <2>3
<1>3. CASE ReadPayload
  <2>1. Seat \in Fragments /\ i \in 1 .. Len(ids) /\ disk.payload[Seat] \in Texts
    BY <1>3, SeatType DEF ReadPayload, ReadInv, TypeOK, Disk
  <2>2. buf' \in Buffers /\ buf'.payload = [buf.payload EXCEPT ![Seat] = disk.payload[Seat]]
    BY <1>3, <2>1 DEF ReadPayload, TypeOK, Buffers
  <2>3. TypeOK'
    BY <1>3, <2>1, <2>2 DEF ReadPayload, TypeOK, Labels, Exits
  <2>4. \A n \in 1 .. i : buf'.payload[ids[n]] \in Texts
    <3> SUFFICES ASSUME NEW n \in 1 .. i PROVE buf'.payload[ids[n]] \in Texts
      OBVIOUS
    <3>1. ids[n] \in Fragments /\ buf.payload \in [Fragments -> Texts \cup {NoText}]
      BY <2>1 DEF TypeOK, Buffers
    <3>2. n < i => buf.payload[ids[n]] \in Texts
      BY <1>3, <2>1 DEF ReadPayload, ReadInv
    <3> QED BY <2>1, <2>2, <3>1, <3>2 DEF Seat
  <2>5. ReadInv'
    <3>1. ids' = ids /\ DOMAIN ids = 1 .. Len(ids)
      BY <1>3 DEF ReadPayload, TypeOK
    <3>4. Len(ids) \in Nat /\ i <= Len(ids) /\ i \in Nat
      BY <1>3 DEF ReadPayload, ReadInv, TypeOK
    <3>2. CASE i < Len(ids)
      BY <1>3, <2>1, <2>4, <3>1, <3>2 DEF ReadPayload, ReadInv, Gating, Telling, Attested
    <3>3. CASE ~(i < Len(ids))
      <4>1. i = Len(ids)
        BY <3>4, <3>3
      <4> QED BY <1>3, <2>1, <2>4, <3>1, <3>3, <4>1 DEF ReadPayload, ReadInv, Gating, Telling, Attested
    <3> QED BY <3>2, <3>3
  <2> QED BY <2>3, <2>5
<1>4. CASE ReadLocalOnly
  <2>1. buf' \in Buffers /\ buf'.payload = buf.payload /\ buf'.local \in Secrets
    BY <1>4 DEF ReadLocalOnly, TypeOK, Disk, Buffers
  <2>2. TypeOK'
    BY <1>4, <2>1 DEF ReadLocalOnly, TypeOK, Labels, Exits
  <2>3. ReadInv'
    BY <1>4, <2>1 DEF ReadLocalOnly, TypeOK, ReadInv, Gating, Telling, Attested
  <2> QED BY <2>2, <2>3
<1>5. CASE ReadPlan
  <2>1. buf' \in Buffers /\ buf'.payload = buf.payload /\ buf'.local = buf.local
    BY <1>5 DEF ReadPlan, TypeOK, Disk, Buffers
  <2>2. TypeOK'
    BY <1>5, <2>1 DEF ReadPlan, TypeOK, Labels, Exits
  <2>3. ReadInv'
    BY <1>5, <2>1 DEF ReadPlan, TypeOK, ReadInv, Gating, Telling, Attested
  <2> QED BY <2>2, <2>3
<1>6. CASE LeakGate
  BY <1>6 DEF LeakGate, TypeOK, ReadInv, Labels, Exits, Loading, Gating, Telling, Attested
<1>7. CASE ChainGate
  <2>1. ASSUME NEW r \in ChainFiles, Verifies(r) PROVE r.id \in Nat
    <3>1. r # NoReceipt /\ r \in ledger \cup {out.receipt, disk.other, NoReceipt}
      BY <2>1 DEF Verifies, ChainFiles
    <3>2. CASE r \in ledger \cup {out.receipt}
      BY <3>1, <3>2, BoundAssumption DEF TypeOK, IsOutDir, IsReceipt, RunNumbers
    <3>3. CASE r = disk.other
      BY <3>1, <3>3, ChainAssumption, BoundAssumption DEF TypeOK, Disk, ForeignId
    <3> QED BY <3>1, <3>2, <3>3
  <2>2. prev' \in Nat
    BY <1>7, <2>1 DEF ChainGate, TypeOK, NoPrev
  <2>3. TypeOK'
    BY <1>7, <2>2 DEF ChainGate, TypeOK, Labels, Exits
  <2>4. ReadInv'
    BY <1>7 DEF ChainGate, TypeOK, ReadInv, Gating, Telling, Attested
  <2> QED BY <2>3, <2>4
<1>8. CASE ResolveSeats
  <2>1. ASSUME SeatsResolve, NEW f \in Elems(ids) PROVE ResolvedKind(f) \in Kinds
    BY <2>1 DEF SeatsResolve, ResolvedKind, Kinds
  <2>2. kind' \in [Fragments -> Kinds]
    BY <1>8, <2>1 DEF ResolveSeats, TypeOK
  <2>3. TypeOK'
    BY <1>8, <2>2 DEF ResolveSeats, TypeOK, Labels, Exits
  <2>4. ReadInv'
    BY <1>8 DEF ResolveSeats, TypeOK, ReadInv, Gating, Telling, Attested
  <2> QED BY <2>3, <2>4
<1>9. CASE Preflight
  <2>1. {Description(Message(f)) : f \in Elems(ids)} \subseteq Descriptions
    BY <1>9, TextAssumption
    DEF Preflight, Message, Description, Descriptions, TypeOK, ReadInv, Gating, Elems
  <2>2. TypeOK'
    BY <1>9, <2>1 DEF Preflight, TypeOK, Labels, Exits
  <2>3. ReadInv'
    BY <1>9 DEF Preflight, TypeOK, ReadInv, Gating, Telling, Attested
  <2> QED BY <2>2, <2>3
<1>10. CASE Confirm
  BY <1>10 DEF Confirm, TypeOK, ReadInv, Labels, Exits, Loading, Gating, Telling, Attested
<1>11. CASE Post
  <2>1. Seat \in Fragments /\ Message(Seat) \in Messages
    BY <1>11, SeatType DEF Post, Message, Messages, TypeOK, ReadInv, Telling, Seat
  <2>2. posts' \in [Fragments -> Nat]
    BY <1>11, <2>1 DEF Post, TypeOK
  <2>3. TypeOK'
    BY <1>11, <2>1, <2>2 DEF Post, TypeOK, Labels, Exits
  <2>4. ReadInv'
    BY <1>11 DEF Post, TypeOK, ReadInv, Gating, Telling, Attested
  <2> QED BY <2>3, <2>4
<1>12. CASE TransportFails
  <2>1. Seat \in Fragments
    BY <1>12, SeatType DEF TransportFails, ReadInv
  <2>2. resp' \in [Fragments -> Responses]
    BY <1>12, <2>1, TextAssumption DEF TransportFails, TypeOK, Responses, NoResponse
  <2>3. TypeOK'
    BY <1>12, <2>1, <2>2 DEF TransportFails, ReadInv, TypeOK, Labels, Exits
  <2>4. ReadInv'
    BY <1>12 DEF TransportFails, TypeOK, ReadInv, Gating, Telling, Attested
  <2> QED BY <2>3, <2>4
<1>13. CASE SaveAnswer
  <2>1. Seat \in Fragments /\ i <= Len(ids)
    BY <1>13, SeatType DEF SaveAnswer, ReadInv
  <2>2. ASSUME NEW t \in AnswerTexts
        PROVE  IsOutDir([out EXCEPT !.answer[Seat] = [run |-> run, text |-> t]])
    BY <2>1 DEF TypeOK, IsOutDir, AnswerFiles
  <2>3. resp[Seat].text \in AnswerTexts /\ EmptyText \in AnswerTexts
    BY <2>1, TextAssumption DEF TypeOK, Responses
  <2>4. IsOutDir(out')
    BY <1>13, <2>2, <2>3 DEF SaveAnswer
  <2>5. TypeOK'
    BY <1>13, <2>1, <2>4 DEF SaveAnswer, TypeOK, Labels, Exits
  <2>6. ReadInv'
    BY <1>13, <2>1 DEF SaveAnswer, TypeOK, ReadInv, Gating, Telling, Attested
  <2> QED BY <2>5, <2>6
<1>14. CASE EnsureKey
  <2>1. key' \in RunNumbers /\ keys' \in KeyFiles
    BY <1>14 DEF EnsureKey, TypeOK, KeyFiles
  <2>2. TypeOK'
    BY <1>14, <2>1 DEF EnsureKey, TypeOK, Labels, Exits
  <2>3. ReadInv'
    BY <1>14 DEF EnsureKey, TypeOK, ReadInv, Gating, Telling, Attested
  <2> QED BY <2>2, <2>3
<1>15. CASE WritePublicKey
  <2>1. keys' \in KeyFiles
    BY <1>15 DEF WritePublicKey, TypeOK, KeyFiles
  <2>2. TypeOK'
    BY <1>15, <2>1 DEF WritePublicKey, TypeOK, Labels, Exits
  <2>3. ReadInv'
    BY <1>15 DEF WritePublicKey, TypeOK, ReadInv, Gating, Telling, Attested
  <2> QED BY <2>2, <2>3
<1>26. CASE OpenReceipt
  <2>1. IsOutDir(out')
    BY <1>26 DEF OpenReceipt, TypeOK, IsOutDir
  <2>2. TypeOK'
    BY <1>26, <2>1 DEF OpenReceipt, TypeOK, Labels, Exits
  <2>3. ReadInv'
    BY <1>26 DEF OpenReceipt, TypeOK, ReadInv, Gating, Telling, Attested
  <2> QED BY <2>2, <2>3
<1>16. CASE WriteReceipt
  <2>1. IsReceipt(SignedReceipt)
    BY <1>16, ReceiptType DEF WriteReceipt
  <2>2. IsOutDir(out') /\ \A r \in ledger' : IsReceipt(r)
    BY <1>16, <2>1 DEF WriteReceipt, TypeOK, IsOutDir
  <2>3. TypeOK'
    BY <1>16, <2>2 DEF WriteReceipt, TypeOK, Labels, Exits
  <2>4. ReadInv'
    BY <1>16 DEF WriteReceipt, TypeOK, ReadInv, Gating, Telling, Attested
  <2> QED BY <2>3, <2>4
<1>17. CASE SelfVerify
  BY <1>17 DEF SelfVerify, TypeOK, ReadInv, Labels, Exits, Loading, Gating, Telling, Attested
<1>18. CASE WriteCombined
  BY <1>18 DEF WriteCombined, TypeOK, ReadInv, Labels, Exits, Loading, Gating, Telling, Attested
<1>19. CASE Edit
  <2>1. disk' \in Disk
    <3>1. ASSUME NEW f \in Fragments, NEW t \in Texts
          PROVE  [disk EXCEPT !.payload[f] = t] \in Disk
      BY DEF TypeOK, Disk
    <3>2. ASSUME NEW x
          PROVE  /\ x \in Texts => [disk EXCEPT !.original = x] \in Disk
                 /\ x \in Secrets => [disk EXCEPT !.local = x] \in Disk
                 /\ x \in Plans => [disk EXCEPT !.plan = x] \in Disk
      BY DEF TypeOK, Disk
    <3> QED BY <1>19, <3>1, <3>2 DEF Edit
  <2>2. TypeOK'
    BY <1>19, <2>1 DEF Edit, TypeOK
  <2>3. ReadInv'
    BY <1>19 DEF Edit, TypeOK, ReadInv, Gating, Telling, Attested
  <2> QED BY <2>2, <2>3
<1>20. CASE Start
  <2>1. run' \in RunNumbers /\ key' \in RunNumbers /\ prev' \in Nat
    BY <1>20, BoundAssumption DEF Start, TypeOK, RunNumbers, NoKey, NoPrev
  <2>2. args' \in Arguments
    BY <1>20, ChainAssumption, UserAssumption DEF Start, Arguments
  <2>3. buf' \in Buffers /\ kind' \in [Fragments -> Kinds]
    BY <1>20 DEF Start, Unread, Buffers, Kinds
  <2>4. resp' \in [Fragments -> Responses] /\ posts' \in [Fragments -> Nat]
    BY <1>20, TextAssumption DEF Start, NoResponse, Responses
  <2>5. TypeOK'
    BY <1>20, <2>1, <2>2, <2>3, <2>4 DEF Start, TypeOK, Labels, Exits
  <2>6. ReadInv'
    BY <1>20 DEF Start, ReadInv, Injective, Gating, Telling, Attested
  <2> QED BY <2>5, <2>6
<1>21. CASE UserTypes
  BY <1>21 DEF UserTypes, TypeOK, ReadInv, Labels, Exits, Loading, Gating, Telling, Attested
<1>22. CASE ProviderAnswers
  <2>1. Seat \in Fragments
    BY <1>22, SeatType DEF ProviderAnswers, ReadInv
  <2>2. ASSUME NEW t \in AnswerTexts, NEW reason \in StopReasons
        PROVE  AnthropicResponse(t, reason) \in Responses /\ OpenAIResponse(t, reason) \in Responses
    BY DEF AnthropicResponse, OpenAIResponse, Responses, Completions
  <2>3. resp' \in [Fragments -> Responses]
    BY <1>22, <2>1, <2>2 DEF ProviderAnswers, TypeOK
  <2>4. TypeOK'
    BY <1>22, <2>3 DEF ProviderAnswers, TypeOK, Labels, Exits
  <2>5. ReadInv'
    BY <1>22 DEF ProviderAnswers, TypeOK, ReadInv, Gating, Telling, Attested
  <2> QED BY <2>4, <2>5
<1>23. CASE AnswerMalformed
  BY <1>23 DEF AnswerMalformed, TypeOK, ReadInv, Labels, Exits, Loading, Gating, Telling, Attested
<1>24. CASE Kill
  BY <1>24 DEF Kill, TypeOK, ReadInv, Labels, Exits, Loading, Gating, Telling, Attested
<1>25. CASE UNCHANGED vars
  BY <1>25 DEF vars, TypeOK, ReadInv
<1> QED
  BY <1>1, <1>2, <1>3, <1>4, <1>5, <1>6, <1>7, <1>8, <1>9, <1>10, <1>11, <1>12, <1>13, <1>14, <1>15, <1>16, <1>17, <1>18, <1>19, <1>20, <1>21, <1>22, <1>23, <1>24, <1>25, <1>26 DEF Next, Step, Others

(* A step past the gates, or of the end, that sends nothing keeps it.        *)
LEMMA WireFrame ==
  ASSUME WireInv, UNCHANGED <<run, ids, buf, kind, wire, shown>>,
         pc' \in {pc, "idle"} \/ {pc, pc'} \subseteq Telling \cup Attested
  PROVE  WireInv'
<1>1. Sent' = Sent /\ LeakFound' = LeakFound /\ OnlyVettedBytesLeave' = OnlyVettedBytesLeave
  BY DEF Sent, LeakFound, OnlyVettedBytesLeave, Elems, Description
<1>2. \A f : Message(f)' = Message(f)
  BY DEF Message
<1>3. Elems(ids)' = Elems(ids)
  BY DEF Elems
<1>4. (shown = {Description(Message(f)) : f \in Elems(ids)})
        => (shown = {Description(Message(f)) : f \in Elems(ids)})'
  BY <1>3 DEF Description, Message
<1>5. (\A m \in Sent : \E f \in Elems(ids) : m = Message(f))
        => (\A m \in Sent : \E f \in Elems(ids) : m = Message(f))'
  BY <1>1, <1>2, <1>3
<1>6. (\A m \in wire : m.run <= run)' <=> (\A m \in wire : m.run <= run)
  OBVIOUS
<1> QED
  BY <1>1, <1>4, <1>5, <1>6 DEF WireInv, Loading, Gating, Telling, Attested

(* Every step keeps what is on the wire within what was shown and vetted.   *)
LEMMA WireStep ==
  ASSUME TypeOK, ReadInv, TypeOK', WireInv, [Next]_vars
  PROVE  WireInv'
<1> USE DEF world, inputs, loop, history, Goto, End
<1>1. CASE LoadFragments
  BY <1>1 DEF LoadFragments, WireInv, Sent, LeakFound, OnlyVettedBytesLeave, Message, Loading, Gating, Telling, Attested, TypeOK
<1>2. CASE ReadOriginal
  BY <1>2 DEF ReadOriginal, WireInv, Sent, LeakFound, OnlyVettedBytesLeave, Message, Loading, Gating, Telling, Attested, TypeOK
<1>3. CASE ReadPayload
  BY <1>3 DEF ReadPayload, WireInv, Sent, LeakFound, OnlyVettedBytesLeave, Message, Loading, Gating, Telling, Attested, TypeOK
<1>4. CASE ReadLocalOnly
  BY <1>4 DEF ReadLocalOnly, WireInv, Sent, LeakFound, OnlyVettedBytesLeave, Message, Loading, Gating, Telling, Attested, TypeOK
<1>5. CASE ReadPlan
  BY <1>5 DEF ReadPlan, WireInv, Sent, LeakFound, OnlyVettedBytesLeave, Message, Loading, Gating, Telling, Attested, TypeOK
<1>6. CASE LeakGate
  BY <1>6 DEF LeakGate, WireInv, Sent, LeakFound, OnlyVettedBytesLeave, Message, Loading, Gating, Telling, Attested, TypeOK
<1>7. CASE ChainGate
  BY <1>7 DEF ChainGate, WireInv, Sent, LeakFound, OnlyVettedBytesLeave, Message, Loading, Gating, Telling, Attested, TypeOK
<1>8. CASE ResolveSeats
  BY <1>8 DEF ResolveSeats, WireInv, Sent, LeakFound, OnlyVettedBytesLeave, Message, Loading, Gating, Telling, Attested, TypeOK
<1>9. CASE Preflight
  BY <1>9 DEF Preflight, WireInv, Sent, LeakFound, OnlyVettedBytesLeave, Message, Loading, Gating, Telling, Attested, TypeOK
<1>10. CASE Confirm
  BY <1>10 DEF Confirm, WireInv, Sent, LeakFound, OnlyVettedBytesLeave, Message, Loading, Gating, Telling, Attested, TypeOK
<1>11. CASE Post
  <2>1. Seat \in Elems(ids) /\ Message(Seat).run = run
    BY <1>11, SeatType DEF Post, Message
  <2>2. Description(Message(Seat)) \in shown
    BY <1>11, <2>1 DEF Post, WireInv, Telling
  <2>3. Message(Seat).text \notin Leaks[buf.local]
    BY <1>11, <2>1 DEF Post, WireInv, Telling, LeakFound, Message
  <2>4. wire' \subseteq wire \cup {Message(Seat)}
    BY <1>11 DEF Post
  <2>5. (\A m \in wire : m.run <= run)' /\ OnlyVettedBytesLeave'
    BY <1>11, <2>1, <2>2, <2>3, <2>4 DEF Post, WireInv, OnlyVettedBytesLeave, Sent, TypeOK, RunNumbers
  <2>6. \A m \in Sent' : \E f \in Elems(ids) : m = Message(f)
    BY <1>11, <2>1, <2>4 DEF Post, WireInv, Sent, Telling
  <2> QED
    BY <1>11, <2>5, <2>6
    DEF Post, WireInv, LeakFound, Message, Description, Elems, Loading, Gating, Telling, Attested
<1>12. CASE TransportFails
  BY <1>12, WireFrame DEF TransportFails, Telling, Attested
<1>13. CASE SaveAnswer
  BY <1>13, WireFrame DEF SaveAnswer, Telling, Attested
<1>14. CASE EnsureKey
  BY <1>14, WireFrame DEF EnsureKey, Telling, Attested
<1>15. CASE WritePublicKey
  BY <1>15, WireFrame DEF WritePublicKey, Telling, Attested
<1>26. CASE OpenReceipt
  BY <1>26, WireFrame DEF OpenReceipt, Telling, Attested
<1>16. CASE WriteReceipt
  BY <1>16, WireFrame DEF WriteReceipt, Telling, Attested
<1>17. CASE SelfVerify
  BY <1>17, WireFrame DEF SelfVerify, Telling, Attested
<1>18. CASE WriteCombined
  BY <1>18, WireFrame DEF WriteCombined, Telling, Attested
<1>19. CASE Edit
  BY <1>19, WireFrame DEF Edit, Telling, Attested
<1>20. CASE Start
  <2>1. Sent' = {} /\ \A m \in wire' : m.run <= run'
    BY <1>20, BoundAssumption DEF Start, WireInv, Sent, TypeOK, Messages, RunNumbers
  <2> QED
    BY <1>20, <2>1 DEF Start, WireInv, OnlyVettedBytesLeave, Loading, Gating, Telling, Attested
<1>21. CASE UserTypes
  BY <1>21 DEF UserTypes, WireInv, Sent, LeakFound, OnlyVettedBytesLeave, Message, Loading, Gating, Telling, Attested, TypeOK
<1>22. CASE ProviderAnswers
  BY <1>22, WireFrame DEF ProviderAnswers, Telling, Attested
<1>23. CASE AnswerMalformed
  BY <1>23, WireFrame DEF AnswerMalformed, Telling, Attested
<1>24. CASE Kill
  BY <1>24, WireFrame DEF Kill, Telling, Attested
<1>25. CASE UNCHANGED vars
  BY <1>25, WireFrame DEF vars
<1> QED
  BY <1>1, <1>2, <1>3, <1>4, <1>5, <1>6, <1>7, <1>8, <1>9, <1>10, <1>11, <1>12, <1>13, <1>14, <1>15, <1>16, <1>17, <1>18, <1>19, <1>20, <1>21, <1>22, <1>23, <1>24, <1>25, <1>26 DEF Next, Step, Others

(* Every step keeps the count of requests in step with the loop's position. *)
LEMMA PostStep ==
  ASSUME TypeOK, ReadInv, PostInv, [Next]_vars
  PROVE  PostInv'
<1> USE DEF world, inputs, loop, history, Goto, End
<1>1. CASE LoadFragments
  BY <1>1 DEF LoadFragments, PostInv, OneMessagePerSeat, ReadInv, Loading, Gating, TypeOK
<1>2. CASE ReadOriginal
  BY <1>2 DEF ReadOriginal, PostInv, OneMessagePerSeat, ReadInv, Loading, Gating, TypeOK
<1>3. CASE ReadPayload
  BY <1>3 DEF ReadPayload, PostInv, OneMessagePerSeat, ReadInv, Loading, Gating, TypeOK
<1>4. CASE ReadLocalOnly
  BY <1>4 DEF ReadLocalOnly, PostInv, OneMessagePerSeat, ReadInv, Loading, Gating, TypeOK
<1>5. CASE ReadPlan
  BY <1>5 DEF ReadPlan, PostInv, OneMessagePerSeat, ReadInv, Loading, Gating, TypeOK
<1>6. CASE LeakGate
  BY <1>6 DEF LeakGate, PostInv, OneMessagePerSeat, ReadInv, Loading, Gating, TypeOK
<1>7. CASE ChainGate
  BY <1>7 DEF ChainGate, PostInv, OneMessagePerSeat, ReadInv, Loading, Gating, TypeOK
<1>8. CASE ResolveSeats
  BY <1>8 DEF ResolveSeats, PostInv, OneMessagePerSeat, ReadInv, Loading, Gating, TypeOK
<1>9. CASE Preflight
  BY <1>9 DEF Preflight, PostInv, OneMessagePerSeat, ReadInv, Loading, Gating, TypeOK
<1>10. CASE Confirm
  BY <1>10 DEF Confirm, PostInv, OneMessagePerSeat, ReadInv, Loading, Gating, TypeOK
<1>11. CASE Post
  <2>1. Seat \in Fragments /\ i \in DOMAIN ids /\ Seat = ids[i]
    BY <1>11, SeatType DEF Post, Seat, TypeOK
  <2>2. posts[Seat] = 0
    BY <1>11, <2>1 DEF Post, PostInv, TypeOK
  <2>3. \A n \in DOMAIN ids : n > i => ids[n] # Seat /\ posts[ids[n]] = 0
    BY <1>11, <2>1 DEF Post, PostInv, ReadInv, Injective, TypeOK
  <2>4. OneMessagePerSeat'
    BY <1>11, <2>1, <2>2 DEF Post, PostInv, OneMessagePerSeat, TypeOK
  <2>5. \A n \in DOMAIN ids : n > i => posts'[ids[n]] = 0
    BY <1>11, <2>1, <2>3 DEF Post, TypeOK
  <2> QED BY <1>11, <2>4, <2>5 DEF Post, PostInv, Loading, Gating
<1>12. CASE TransportFails
  BY <1>12 DEF TransportFails, PostInv, OneMessagePerSeat, ReadInv, Loading, Gating, TypeOK
<1>13. CASE SaveAnswer
  BY <1>13 DEF SaveAnswer, PostInv, OneMessagePerSeat, ReadInv, Loading, Gating, TypeOK
<1>14. CASE EnsureKey
  BY <1>14 DEF EnsureKey, PostInv, OneMessagePerSeat, ReadInv, Loading, Gating, TypeOK
<1>15. CASE WritePublicKey
  BY <1>15 DEF WritePublicKey, PostInv, OneMessagePerSeat, ReadInv, Loading, Gating, TypeOK
<1>26. CASE OpenReceipt
  BY <1>26 DEF OpenReceipt, PostInv, OneMessagePerSeat, ReadInv, Loading, Gating, TypeOK
<1>16. CASE WriteReceipt
  BY <1>16 DEF WriteReceipt, PostInv, OneMessagePerSeat, ReadInv, Loading, Gating, TypeOK
<1>17. CASE SelfVerify
  BY <1>17 DEF SelfVerify, PostInv, OneMessagePerSeat, ReadInv, Loading, Gating, TypeOK
<1>18. CASE WriteCombined
  BY <1>18 DEF WriteCombined, PostInv, OneMessagePerSeat, ReadInv, Loading, Gating, TypeOK
<1>19. CASE Edit
  BY <1>19 DEF Edit, PostInv, OneMessagePerSeat, ReadInv, Loading, Gating, TypeOK
<1>20. CASE Start
  BY <1>20 DEF Start, PostInv, OneMessagePerSeat, ReadInv, Loading, Gating, TypeOK
<1>21. CASE UserTypes
  BY <1>21 DEF UserTypes, PostInv, OneMessagePerSeat, ReadInv, Loading, Gating, TypeOK
<1>22. CASE ProviderAnswers
  BY <1>22 DEF ProviderAnswers, PostInv, OneMessagePerSeat, ReadInv, Loading, Gating, TypeOK
<1>23. CASE AnswerMalformed
  BY <1>23 DEF AnswerMalformed, PostInv, OneMessagePerSeat, ReadInv, Loading, Gating, TypeOK
<1>24. CASE Kill
  BY <1>24 DEF Kill, PostInv, OneMessagePerSeat, ReadInv, Loading, Gating, TypeOK
<1>25. CASE UNCHANGED vars
  BY <1>25 DEF vars, PostInv, OneMessagePerSeat, ReadInv, Loading, Gating, TypeOK
<1> QED
  BY <1>1, <1>2, <1>3, <1>4, <1>5, <1>6, <1>7, <1>8, <1>9, <1>10, <1>11, <1>12, <1>13, <1>14, <1>15, <1>16, <1>17, <1>18, <1>19, <1>20, <1>21, <1>22, <1>23, <1>24, <1>25, <1>26 DEF Next, Step, Others

(* Every step keeps the receipts telling the wire.                         *)
LEMMA ReceiptStep ==
  ASSUME TypeOK, ReadInv, TypeOK', WireInv, ReceiptInv, [Next]_vars
  PROVE  ReceiptInv'
<1> USE DEF world, inputs, loop, history, Goto, End
<1>1. CASE LoadFragments
  BY <1>1 DEF LoadFragments, ReceiptInv, ReceiptTellsTheWire, Recorded, Sent, Loading, Gating, Telling, TypeOK
<1>2. CASE ReadOriginal
  BY <1>2 DEF ReadOriginal, ReceiptInv, ReceiptTellsTheWire, Recorded, Sent, Loading, Gating, Telling, TypeOK
<1>3. CASE ReadPayload
  BY <1>3 DEF ReadPayload, ReceiptInv, ReceiptTellsTheWire, Recorded, Sent, Loading, Gating, Telling, TypeOK
<1>4. CASE ReadLocalOnly
  BY <1>4 DEF ReadLocalOnly, ReceiptInv, ReceiptTellsTheWire, Recorded, Sent, Loading, Gating, Telling, TypeOK
<1>5. CASE ReadPlan
  BY <1>5 DEF ReadPlan, ReceiptInv, ReceiptTellsTheWire, Recorded, Sent, Loading, Gating, Telling, TypeOK
<1>6. CASE LeakGate
  BY <1>6 DEF LeakGate, ReceiptInv, ReceiptTellsTheWire, Recorded, Sent, Loading, Gating, Telling, TypeOK
<1>7. CASE ChainGate
  BY <1>7 DEF ChainGate, ReceiptInv, ReceiptTellsTheWire, Recorded, Sent, Loading, Gating, Telling, TypeOK
<1>8. CASE ResolveSeats
  BY <1>8 DEF ResolveSeats, ReceiptInv, ReceiptTellsTheWire, Recorded, Sent, Loading, Gating, Telling, TypeOK
<1>9. CASE Preflight
  BY <1>9 DEF Preflight, ReceiptInv, ReceiptTellsTheWire, Recorded, Sent, Loading, Gating, Telling, TypeOK
<1>10. CASE Confirm
  BY <1>10 DEF Confirm, ReceiptInv, ReceiptTellsTheWire, Recorded, Sent, Loading, Gating, Telling, TypeOK
<1>11. CASE Post
  <2>1. Message(Seat).run = run
    BY DEF Message
  <2>2. \A r \in ledger : r.id # run
    BY <1>11 DEF Post, ReceiptInv, Recorded, Telling
  <2>3. wire \subseteq wire' /\ wire' \subseteq wire \cup {Message(Seat)}
    BY <1>11 DEF Post
  <2>4. ReceiptTellsTheWire'
    BY <1>11, <2>1, <2>2, <2>3 DEF Post, ReceiptInv, ReceiptTellsTheWire
  <2>5. Sent \subseteq Sent'
    BY <1>11, <2>3 DEF Post, Sent
  <2> QED
    BY <1>11, <2>4, <2>5 DEF Post, ReceiptInv, Recorded, Loading, Gating, Telling
<1>12. CASE TransportFails
  <2>1. \A f \in Fragments : resp'[f].text # EmptyText => resp[f].text # EmptyText
    BY <1>12 DEF TransportFails, NoResponse, TypeOK
  <2> QED
    BY <1>12, <2>1 DEF TransportFails, ReceiptInv, ReceiptTellsTheWire, Recorded, Sent, Telling
<1>13. CASE SaveAnswer
  <2>1. out'.receipt = out.receipt
    BY <1>13 DEF SaveAnswer, TypeOK, IsOutDir
  <2> QED
    BY <1>13, <2>1 DEF SaveAnswer, ReceiptInv, ReceiptTellsTheWire, Recorded, Sent,
       Loading, Gating, Telling
<1>14. CASE EnsureKey
  BY <1>14 DEF EnsureKey, ReceiptInv, ReceiptTellsTheWire, Recorded, Sent, Loading, Gating, Telling, TypeOK
<1>15. CASE WritePublicKey
  BY <1>15 DEF WritePublicKey, ReceiptInv, ReceiptTellsTheWire, Recorded, Sent, Loading, Gating, Telling, TypeOK
<1>26. CASE OpenReceipt
  <2>1. out'.receipt \in {out.receipt, NoReceipt}
    BY <1>26 DEF OpenReceipt, TypeOK, IsOutDir
  <2> QED
    BY <1>26, <2>1 DEF OpenReceipt, ReceiptInv, ReceiptTellsTheWire, Recorded, Sent, Loading, Gating, Telling
<1>16. CASE WriteReceipt
  <2>1. ledger' = ledger \cup {SignedReceipt} /\ wire' = wire /\ run' = run /\ pc' = "selfverify"
    BY <1>16 DEF WriteReceipt
  <2> DEFINE r == SignedReceipt
  <2>2. /\ r.id = run /\ r.local = buf.local /\ DOMAIN r.events = Elems(ids)
        /\ \A f \in Elems(ids) : r.events[f] = Event(f)
    BY DEF SignedReceipt
  <2>3. ASSUME NEW m \in wire, m.run = run
        PROVE  /\ m.seat \in Elems(ids) /\ m.text \notin Leaks[buf.local]
               /\ Event(m.seat).payload = m.text /\ Event(m.seat).kind = m.kind
    <3>1. m \in Sent /\ m.text \notin Leaks[buf.local]
      BY <2>3 DEF WireInv, OnlyVettedBytesLeave, Sent
    <3>2. PICK f \in Elems(ids) : m = Message(f)
      BY <1>16, <3>1 DEF WriteReceipt, WireInv, Telling
    <3> QED BY <3>1, <3>2 DEF Message, Event
  <2>4. ASSUME NEW f \in Elems(ids), Event(f).type = "live_response"
        PROVE  \E m \in wire : m.run = run /\ m.seat = f
    <3>1. resp[f].text # EmptyText /\ f \in Fragments
      BY <2>4 DEF Event, Elems, TypeOK
    <3> QED BY <3>1 DEF ReceiptInv, Sent
  <2> HIDE DEF r
  <2>5. ReceiptTellsTheWire'
    <3> SUFFICES ASSUME NEW x \in ledger \cup {r}
                 PROVE  /\ \A m \in wire : m.run = x.id =>
                             /\ m.seat \in DOMAIN x.events /\ m.text \notin Leaks[x.local]
                             /\ x.events[m.seat].payload = m.text
                             /\ x.events[m.seat].kind = m.kind
                        /\ \A f \in DOMAIN x.events : x.events[f].type = "live_response" =>
                             \E m \in wire : m.run = x.id /\ m.seat = f
      BY <2>1 DEF ReceiptTellsTheWire, r
    <3>1. CASE x \in ledger
      BY <3>1 DEF ReceiptInv, ReceiptTellsTheWire
    <3>2. CASE x = r
      BY <3>2, <2>2, <2>3, <2>4
    <3> QED BY <3>1, <3>2
  <2>6. \A x \in ledger' : x.id <= run'
    BY <2>1, <2>2 DEF ReceiptInv, TypeOK, RunNumbers, r
  <2>7. out'.receipt \in ledger'
    BY <1>16 DEF WriteReceipt, TypeOK, IsOutDir
  <2> QED
    BY <1>16, <2>1, <2>5, <2>6, <2>7 DEF WriteReceipt, ReceiptInv, Sent, Loading, Gating, Telling
<1>17. CASE SelfVerify
  BY <1>17 DEF SelfVerify, ReceiptInv, ReceiptTellsTheWire, Recorded, Sent, Loading, Gating, Telling, TypeOK
<1>18. CASE WriteCombined
  BY <1>18 DEF WriteCombined, ReceiptInv, ReceiptTellsTheWire, Recorded, Sent, Loading, Gating, Telling, TypeOK
<1>19. CASE Edit
  BY <1>19 DEF Edit, ReceiptInv, ReceiptTellsTheWire, Recorded, Sent, Loading, Gating, Telling, TypeOK
<1>20. CASE Start
  <2>1. \A r \in ledger : r.id < run' /\ r.id <= run'
    <3>1. \A r \in ledger : r.id \in Nat /\ r.id <= run
      BY BoundAssumption DEF ReceiptInv, TypeOK, IsReceipt, RunNumbers
    <3>2. run' = run + 1 /\ run \in Nat
      BY <1>20, BoundAssumption DEF Start, TypeOK, RunNumbers
    <3> QED BY <3>1, <3>2
  <2>2. \A f \in Fragments : resp'[f].text = EmptyText
    BY <1>20 DEF Start, NoResponse
  <2>3. ~Recorded'
    BY <1>20, <2>1 DEF Start, Recorded, TypeOK, IsReceipt, RunNumbers
  <2>4. run' > 0
    BY <1>20 DEF Start, TypeOK, RunNumbers
  <2> QED
    BY <1>20, <2>1, <2>2, <2>3, <2>4 DEF Start, ReceiptInv, ReceiptTellsTheWire
<1>21. CASE UserTypes
  BY <1>21 DEF UserTypes, ReceiptInv, ReceiptTellsTheWire, Recorded, Sent, Loading, Gating, Telling, TypeOK
<1>22. CASE ProviderAnswers
  <2>1. Message(Seat) \in wire /\ Message(Seat).run = run /\ Message(Seat).seat = Seat
    BY <1>22 DEF ProviderAnswers, Delivered, Message
  <2>2. \A f \in Fragments : f # Seat => resp'[f] = resp[f]
    BY <1>22 DEF ProviderAnswers, TypeOK
  <2> QED
    BY <1>22, <2>1, <2>2 DEF ProviderAnswers, ReceiptInv, ReceiptTellsTheWire, Recorded, Sent,
       Loading, Gating, Telling
<1>23. CASE AnswerMalformed
  BY <1>23 DEF AnswerMalformed, ReceiptInv, ReceiptTellsTheWire, Recorded, Sent, Loading, Gating, Telling, TypeOK
<1>24. CASE Kill
  BY <1>24 DEF Kill, ReceiptInv, ReceiptTellsTheWire, Recorded, Sent, Loading, Gating, Telling, TypeOK
<1>25. CASE UNCHANGED vars
  BY <1>25 DEF vars, ReceiptInv, ReceiptTellsTheWire, Recorded, Sent, Loading, Gating, Telling, TypeOK
<1> QED
  BY <1>1, <1>2, <1>3, <1>4, <1>5, <1>6, <1>7, <1>8, <1>9, <1>10, <1>11, <1>12, <1>13, <1>14, <1>15, <1>16, <1>17, <1>18, <1>19, <1>20, <1>21, <1>22, <1>23, <1>24, <1>25, <1>26 DEF Next, Step, Others

-----------------------------------------------------------------------------
IInv == TypeOK /\ ReadInv /\ WireInv /\ PostInv /\ ReceiptInv

(* The inductive invariant holds at the start.                             *)
LEMMA InitInv == Init => IInv
<1> SUFFICES ASSUME Init PROVE IInv
  OBVIOUS
<1>1. TypeOK
  BY TextAssumption, BoundAssumption
  DEF Init, TypeOK, KeyFiles, IsOutDir, AnswerFiles, RunNumbers, NoKey, NoReceipt, NoPrev,
      Labels, Exits, Arguments, NoArgs, Buffers, Unread, Responses, NoResponse, Kinds
<1>2. ReadInv
  BY DEF Init, ReadInv, Injective, Gating, Telling, Attested
<1>3. WireInv /\ PostInv
  BY DEF Init, WireInv, PostInv, OnlyVettedBytesLeave, OneMessagePerSeat, Sent,
     Loading, Gating, Telling, Attested
<1>4. ReceiptInv
  BY DEF Init, ReceiptInv, ReceiptTellsTheWire, Recorded, NoResponse, Loading, Gating, Telling
<1> QED BY <1>1, <1>2, <1>3, <1>4 DEF IInv

(* The inductive invariant.                                                 *)
THEOREM Invariance == Spec => []IInv
<1>1. IInv /\ [Next]_vars => IInv'
  BY Inv1Step, WireStep, PostStep, ReceiptStep DEF IInv
<1> QED BY InitInv, <1>1, PTL DEF Spec

(* Every variable of RunLive keeps its type. *)
THEOREM TypeCorrect == Spec => []TypeOK
BY Invariance, PTL DEF IInv

(* No provider gets a text that the leak gate did not see, nor one at        *)
(* another destination or of another size than the preflight printed.       *)
THEOREM Vetted == Spec => []OnlyVettedBytesLeave
<1>1. IInv => OnlyVettedBytesLeave
  BY DEF IInv, WireInv
<1> QED BY Invariance, <1>1, PTL

(* No seat is asked twice in a run. *)
THEOREM AskedOnce == Spec => []OneMessagePerSeat
<1>1. IInv => OneMessagePerSeat
  BY DEF IInv, PostInv
<1> QED BY Invariance, <1>1, PTL

(* Every receipt attests what was on the wire, whatever happened to the files. *)
THEOREM Attestation == Spec => []ReceiptTellsTheWire
<1>1. IInv => ReceiptTellsTheWire
  BY DEF IInv, ReceiptInv
<1> QED BY Invariance, <1>1, PTL

-----------------------------------------------------------------------------
(* A plan that is accepted has two to five fragments.                       *)
LEMMA DeclaredIdsBound ==
  ASSUME NEW plan \in Plans, FragmentsAccepted(plan)
  PROVE  Len(DeclaredIds(plan)) \in 2 .. FRAGMENT_MAX
<1>1. CASE plan.fragments = <<>>
  <2>1. DeclaredIds(plan) = LegacyPair
    BY <1>1 DEF DeclaredIds
  <2> QED BY <2>1, FragmentAssumption DEF FRAGMENT_MAX
<1>2. CASE plan.fragments # <<>>
  <2> DEFINE n == Len(plan.fragments)
  <2>1. Len(DeclaredIds(plan)) = n
    BY <1>2 DEF DeclaredIds
  <2>2. 2 <= n /\ n <= 5
    BY <1>2 DEF FragmentsAccepted, FRAGMENT_MIN, FRAGMENT_MAX
  <2>3. n \in Nat
    BY PlanAssumption
  <2> HIDE DEF n
  <2> QED BY <2>1, <2>2, <2>3 DEF FRAGMENT_MAX
<1> QED BY <1>1, <1>2

(* The steps a run has left, label by label.                                *)
Measured ==
  LET n == Len(ids) IN
  /\ pc = "idle" => StepsLeft = 0
  /\ pc = "combined" => StepsLeft = 1
  /\ pc = "selfverify" => StepsLeft = 2
  /\ pc = "filling" => StepsLeft = 3
  /\ pc = "receipt" => StepsLeft = 4
  /\ pc = "pubkey" => StepsLeft = 5
  /\ pc = "transmit" => StepsLeft = 6 + 3 * (n + 1 - i)
  /\ pc = "await" => StepsLeft = 8 + 3 * (n - i)
  /\ pc = "answered" => StepsLeft = 7 + 3 * (n - i)
  /\ pc = "confirm" => StepsLeft = 7 + 3 * n
  /\ pc = "preflight" => StepsLeft = 8 + 3 * n
  /\ pc = "seats" => StepsLeft = 9 + 3 * n
  /\ pc = "chain" => StepsLeft = 10 + 3 * n
  /\ pc = "leaks" => StepsLeft = 11 + 3 * n
  /\ pc = "plan" => StepsLeft = 12 + 3 * n
  /\ pc = "local" => StepsLeft = 13 + 3 * n
  /\ pc = "payloads" => StepsLeft = 14 + 3 * n + (n - i)
  /\ pc = "original" => StepsLeft = 14 + 4 * n
  /\ pc = "fragments" => StepsLeft = 15 + 4 * FRAGMENT_MAX

LEMMA Measure == Measured
BY DEF Measured, StepsLeft

LEMMA MeasureNext == Measured'
BY DEF Measured, StepsLeft

(* Every step of a run, its own, its user's, its providers' or a kill,      *)
(* leaves it fewer steps to go.                                             *)
LEMMA ShorterStep ==
  ASSUME TypeOK, ReadInv, [Next]_vars, pc # "idle", edits' = edits, vars' # vars
  PROVE  StepsLeft' \in 0 .. StepsLeft - 1
<1>1. Len(ids) \in Nat /\ i \in Nat /\ 1 <= i /\ i <= Len(ids) + 1
  BY DEF TypeOK
<1>2. /\ pc \in {"payloads", "await", "answered"} => i <= Len(ids)
      /\ pc \in {"confirm", "original"} => i = 1
      /\ pc = "original" => Len(ids) >= 2
  BY DEF ReadInv, Gating
<1>3. pc \in Labels \ {"idle"}
  BY DEF TypeOK
<1>m. Measured /\ Measured'
  BY Measure, MeasureNext
<1>4. StepsLeft \in Nat /\ StepsLeft >= 1
  <2>1. CASE pc \in {"payloads", "await", "answered"}
    BY <1>1, <1>2, <1>m, <2>1 DEF Measured
  <2>2. CASE pc = "transmit"
    BY <1>1, <1>m, <2>2 DEF Measured
  <2>3. CASE pc \in {"fragments", "original", "combined", "selfverify", "filling", "receipt", "pubkey"}
    BY <1>1, <1>m, <2>3 DEF Measured, FRAGMENT_MAX
  <2>4. CASE pc \in {"confirm", "preflight", "seats", "chain", "leaks", "plan", "local"}
    BY <1>1, <1>m, <2>4 DEF Measured
  <2> QED BY <1>3, <2>1, <2>2, <2>3, <2>4 DEF Labels
<1> USE DEF world, inputs, loop, history, Goto, End
<1>5. CASE pc' = "idle"
  BY <1>4, <1>5, <1>m DEF Measured
<1>6. CASE LoadFragments /\ pc' # "idle"
  <2>1. ids' = DeclaredIds(disk.plan) /\ FragmentsAccepted(disk.plan) /\ pc' = "original"
    BY <1>6 DEF LoadFragments
  <2>2. disk.plan \in Plans
    BY DEF TypeOK, Disk
  <2>3. Len(ids') \in 2 .. FRAGMENT_MAX
    BY <2>1, <2>2, DeclaredIdsBound
  <2>4. StepsLeft = 15 + 4 * FRAGMENT_MAX /\ StepsLeft' = 14 + 4 * Len(ids')
    BY <1>6, <1>m, <2>1 DEF LoadFragments, Measured
  <2> DEFINE m == Len(ids')
  <2>5. StepsLeft = 35 /\ StepsLeft' = 14 + 4 * m /\ m \in 2 .. 5
    BY <2>3, <2>4 DEF FRAGMENT_MAX
  <2> HIDE DEF m
  <2> QED
    BY <2>5
<1>7. CASE ReadOriginal
  BY <1>1, <1>2, <1>7, <1>m DEF ReadOriginal, Measured
<1>8. CASE ReadPayload
  BY <1>1, <1>2, <1>8, <1>m DEF ReadPayload, Measured
<1>9. CASE ReadLocalOnly \/ ReadPlan
  BY <1>1, <1>9, <1>m DEF ReadLocalOnly, ReadPlan, Measured
<1>10. CASE (LeakGate \/ ChainGate) /\ pc' # "idle"
  BY <1>1, <1>10, <1>m DEF LeakGate, ChainGate, Measured
<1>11. CASE (ResolveSeats \/ Preflight) /\ pc' # "idle"
  BY <1>1, <1>11, <1>m DEF ResolveSeats, Preflight, Measured
<1>12. CASE (Confirm \/ UserTypes) /\ pc' # "idle"
  BY <1>1, <1>2, <1>12, <1>m DEF Confirm, UserTypes, Measured
<1>13. CASE Post
  BY <1>1, <1>2, <1>13, <1>m DEF Post, Measured
<1>14. CASE ProviderAnswers \/ TransportFails
  BY <1>1, <1>2, <1>14, <1>m DEF ProviderAnswers, TransportFails, Measured
<1>15. CASE SaveAnswer /\ pc' # "idle"
  BY <1>1, <1>2, <1>15, <1>m DEF SaveAnswer, Measured
<1>16. CASE EnsureKey
  <2>1. pc = "transmit" /\ i = Len(ids) + 1 /\ pc' \in {"pubkey", "receipt"}
    BY <1>1, <1>16 DEF EnsureKey
  <2>2. StepsLeft = 6 /\ StepsLeft' \in {4, 5}
    BY <1>1, <1>m, <2>1 DEF Measured
  <2> QED BY <2>2
<1>17. CASE (WritePublicKey \/ OpenReceipt \/ WriteReceipt \/ SelfVerify) /\ pc' # "idle"
  BY <1>17, <1>m DEF WritePublicKey, OpenReceipt, WriteReceipt, SelfVerify, Measured
<1>18. CASE WriteCombined \/ AnswerMalformed \/ Kill
  BY <1>5, <1>18 DEF WriteCombined, AnswerMalformed, Kill
<1>19. ~Edit /\ ~Start
  BY DEF Edit, Start, TypeOK
<1> QED
  BY <1>5, <1>6, <1>7, <1>8, <1>9, <1>10, <1>11, <1>12, <1>13, <1>14, <1>15,
     <1>16, <1>17, <1>18, <1>19
  DEF Next, Step, Others

(* No run goes on for ever, whatever answers and failures it meets: the     *)
(* safety in RunEnds, for every plan the code accepts.                      *)
THEOREM Shrinking == Spec => RunsRunOut
<1>1. ASSUME IInv, [Next]_vars
      PROVE  [pc # "idle" /\ edits' = edits => StepsLeft' \in 0 .. StepsLeft - 1]_vars
  <2> SUFFICES ASSUME pc # "idle", edits' = edits, vars' # vars
               PROVE  StepsLeft' \in 0 .. StepsLeft - 1
    OBVIOUS
  <2> QED
    BY <1>1, ShorterStep DEF IInv
<1> QED
  BY <1>1, Invariance, PTL DEF Spec, RunsRunOut

-----------------------------------------------------------------------------
(* The seats described are those of the plan.                               *)
LEMMA Described ==
  {d.seat : d \in {Description(Message(f)) : f \in Elems(ids)}} = Elems(ids)
<1>1. \A f : Description(Message(f)).seat = f
  BY DEF Description, Message
<1> QED BY <1>1

(* A step that leaves the history and what it is about alone leaves the     *)
(* promise's state alone; before the preflight it is about nothing yet.     *)
LEMMA Frame ==
  ASSUME UNCHANGED <<shown, wire, run>>, out.receipt' = out.receipt,
         shown = {} \/ UNCHANGED <<buf, kind>>
  PROVE  Offered' = Offered /\ Told' = Told /\ Claim' = Claim
<1>1. Told' = Told /\ Claim' = Claim
  BY DEF Told, Claim, Sent
<1>2. CASE shown = {}
  BY <1>1, <1>2 DEF Offered
<1>3. CASE UNCHANGED <<buf, kind>>
  BY <1>1, <1>3 DEF Offered, Bare, Message
<1> QED BY <1>2, <1>3

(* Every step maps to a step of the promise, or to none.                    *)
LEMMA PromiseStep ==
  ASSUME IInv, IInv', [Next]_vars
  PROVE  [Promise!Next]_Promise!vars
<1> USE DEF world, inputs, loop, history, Goto, End, Promise!Next, Promise!vars
<1> DEFINE Same == Offered' = Offered /\ Told' = Told /\ Claim' = Claim
<1>1. CASE LoadFragments
  <2>1. Same BY <1>1, Frame DEF LoadFragments
  <2> QED BY <1>1, <2>1 DEF LoadFragments, Phase, Promise!Stop
<1>2. CASE ReadOriginal
  <2>1. Same BY <1>2, Frame DEF ReadOriginal, IInv, WireInv, Loading, Gating
  <2> QED BY <1>2, <2>1 DEF ReadOriginal, Phase, Promise!Stop
<1>3. CASE ReadPayload
  <2>1. Same BY <1>3, Frame DEF ReadPayload, IInv, WireInv, Loading, Gating
  <2> QED BY <1>3, <2>1 DEF ReadPayload, Phase, Promise!Stop
<1>4. CASE ReadLocalOnly
  <2>1. Same BY <1>4, Frame DEF ReadLocalOnly, IInv, WireInv, Loading, Gating
  <2> QED BY <1>4, <2>1 DEF ReadLocalOnly, Phase, Promise!Stop
<1>5. CASE ReadPlan
  <2>1. Same BY <1>5, Frame DEF ReadPlan, IInv, WireInv, Loading, Gating
  <2> QED BY <1>5, <2>1 DEF ReadPlan, Phase, Promise!Stop
<1>6. CASE LeakGate
  <2>1. Same BY <1>6, Frame DEF LeakGate
  <2> QED BY <1>6, <2>1 DEF LeakGate, Phase, Promise!Stop
<1>7. CASE ChainGate
  <2>1. Same BY <1>7, Frame DEF ChainGate
  <2> QED BY <1>7, <2>1 DEF ChainGate, Phase, Promise!Stop
<1>8. CASE ResolveSeats
  <2>1. Same BY <1>8, Frame DEF ResolveSeats, IInv, WireInv, Loading, Gating
  <2> QED BY <1>8, <2>1 DEF ResolveSeats, Phase, Promise!Stop
<1>9. CASE Preflight
  <2>1. CASE ExposureRefused
    <3>1. Same BY <1>9, <2>1, Frame DEF Preflight
    <3> QED BY <1>9, <2>1, <3>1 DEF Preflight, Phase, Promise!Stop
  <2>2. CASE ~ExposureRefused
    <3>1. Told' = Told /\ Claim' = Claim
      BY <1>9 DEF Preflight, Told, Claim, Sent
    <3>2. Phase = "deciding" /\ Phase' = "offered"
      BY <1>9, <2>2 DEF Preflight, Phase
    <3>3. Offered' = {Bare(Message(f)) : f \in Elems(ids)}
      <4>1. UNCHANGED <<run, buf, kind>> /\ shown' = {Description(Message(f)) : f \in Elems(ids)}
        BY <1>9, <2>2 DEF Preflight
      <4> QED BY <4>1, Described DEF Offered, Bare, Message
    <3>4. Offered' \subseteq [seat : Fragments, kind : Kinds, text : Texts]
      BY <1>9, <3>3 DEF Preflight, Bare, Message, IInv, TypeOK, ReadInv, Gating, Elems
    <3>5. \A m, n \in Offered' : m.seat = n.seat => m = n
      BY <3>3 DEF Bare, Message
    <3>6. buf.local \in Secrets /\ \A m \in Offered' : m.text \notin Leaks[buf.local]
      BY <1>9, <3>3 DEF Preflight, IInv, ReadInv, WireInv, LeakFound, Bare, Message, Gating
    <3>7. Promise!Offer
      BY <3>1, <3>2, <3>4, <3>5, <3>6 DEF Promise!Offer, Promise!Message
    <3> QED BY <3>7
  <2> QED BY <2>1, <2>2
<1>10. CASE Confirm
  <2>1. Same BY <1>10, Frame DEF Confirm
  <2> QED BY <1>10, <2>1 DEF Confirm, Phase, Promise!Stop, Promise!Consent
<1>11. CASE Post
  <2>1. Offered' = Offered /\ Claim' = Claim /\ Phase = "telling" /\ Phase' = "telling"
    BY <1>11 DEF Post, Offered, Bare, Message, Claim, Phase
  <2>2. Bare(Message(Seat)) \in Offered
    <3>1. Seat \in Elems(ids) /\ Description(Message(Seat)).seat = Seat
      BY <1>11, SeatType DEF Post, IInv, Description, Message
    <3>2. Description(Message(Seat)) \in shown
      BY <1>11, <3>1 DEF Post, IInv, WireInv, Telling
    <3> QED BY <3>1, <3>2 DEF Offered
  <2>3. CASE wire' = wire
    <3>1. Told' = Told BY <1>11, <2>3 DEF Post, Told, Sent
    <3> QED BY <2>1, <3>1
  <2>4. CASE wire' = wire \cup {Message(Seat)}
    <3>1. Told' = Told \cup {Bare(Message(Seat))}
      BY <1>11, <2>4 DEF Post, Told, Sent, Message
    <3>2. CASE Bare(Message(Seat)) \in Told
      BY <2>1, <3>1, <3>2
    <3>3. CASE Bare(Message(Seat)) \notin Told
      BY <2>1, <2>2, <3>1, <3>3 DEF Promise!Tell
    <3> QED BY <3>2, <3>3
  <2> QED BY <1>11, <2>3, <2>4 DEF Post
<1>12. CASE TransportFails
  <2>1. Same BY <1>12, Frame DEF TransportFails
  <2> QED BY <1>12, <2>1 DEF TransportFails, Phase, Promise!Stop
<1>13. CASE SaveAnswer
  <2>1. out'.receipt = out.receipt
    BY <1>13 DEF SaveAnswer, IInv, TypeOK, IsOutDir
  <2>2. Same BY <1>13, <2>1, Frame DEF SaveAnswer
  <2> QED BY <1>13, <2>2 DEF SaveAnswer, Phase, Promise!Stop
<1>14. CASE EnsureKey
  <2>1. Same BY <1>14, Frame DEF EnsureKey
  <2> QED BY <1>14, <2>1 DEF EnsureKey, Phase, Promise!Stop
<1>15. CASE WritePublicKey
  <2>1. Same BY <1>15, Frame DEF WritePublicKey
  <2> QED BY <1>15, <2>1 DEF WritePublicKey, Phase, Promise!Stop
<1>26. CASE OpenReceipt
  <2>1. CASE out' = out
    <3>1. Same BY <1>26, <2>1, Frame DEF OpenReceipt
    <3> QED BY <1>26, <2>1, <3>1 DEF OpenReceipt, Phase, Promise!Stop
  <2>2. CASE out' # out
    <3>1. /\ UNCHANGED <<shown, wire, run, buf, kind>>
          /\ pc = "receipt" /\ pc' = "filling" /\ out'.receipt = NoReceipt
      BY <1>26, <2>2 DEF OpenReceipt, IInv, TypeOK, IsOutDir
    <3>2. run > 0 /\ ~Recorded /\ out.receipt \in ledger \cup {NoReceipt}
      BY <3>1 DEF IInv, ReceiptInv, Telling
    <3>3. out.receipt.id # run /\ NoReceipt.id # run
      BY <3>2, BoundAssumption DEF Recorded, NoReceipt, NoPrev, IInv, TypeOK, RunNumbers
    <3>4. Claim = {} /\ Claim' = {}
      BY <3>1, <3>3 DEF Claim
    <3>5. Offered' = Offered /\ Told' = Told
      BY <3>1 DEF Offered, Told, Sent, Bare, Message
    <3> QED BY <3>1, <3>4, <3>5 DEF Phase
  <2> QED BY <2>1, <2>2
<1>16. CASE WriteReceipt
  <2>1. Offered' = Offered /\ Told' = Told /\ Phase = "telling" /\ Phase' = "attested"
    BY <1>16 DEF WriteReceipt, Offered, Bare, Message, Told, Sent, Phase
  <2>2. out'.receipt = SignedReceipt /\ SignedReceipt.id = run
    BY <1>16 DEF WriteReceipt, IInv, TypeOK, IsOutDir, SignedReceipt
  <2>3. Claimed(SignedReceipt) = {Bare(Message(f)) : f \in Elems(ids)}
    BY DEF Claimed, SignedReceipt, Event, Bare, Message
  <2>4. Offered = {Bare(Message(f)) : f \in Elems(ids)}
    <3>1. shown = {Description(Message(f)) : f \in Elems(ids)}
      BY <1>16 DEF WriteReceipt, IInv, WireInv, Telling
    <3> QED BY <3>1, Described DEF Offered
  <2>5. run # 0
    BY <1>16 DEF WriteReceipt, IInv, ReceiptInv
  <2>6. Claim' = Offered
    BY <1>16, <2>2, <2>3, <2>4, <2>5 DEF WriteReceipt, Claim
  <2> QED BY <2>1, <2>6 DEF Promise!Attest
<1>17. CASE SelfVerify
  <2>1. Same BY <1>17, Frame DEF SelfVerify
  <2> QED BY <1>17, <2>1 DEF SelfVerify, Phase, Promise!Stop
<1>18. CASE WriteCombined
  <2>1. Same BY <1>18, Frame DEF WriteCombined
  <2> QED BY <1>18, <2>1 DEF WriteCombined, Phase, Promise!Stop
<1>19. CASE Edit
  <2>1. Same BY <1>19, Frame DEF Edit
  <2> QED BY <1>19, <2>1 DEF Edit, Phase, Promise!Stop
<1>20. CASE Start
  <2>1. Phase = "over" /\ Phase' = "deciding" /\ Offered' = {}
    BY <1>20 DEF Start, Phase, Offered
  <2>2. Told' = {}
    BY <1>20 DEF Start, Told, IInv, WireInv, Loading
  <2>3. out'.receipt.id # run'
    BY <1>20, BoundAssumption DEF Start, IInv, ReceiptInv, TypeOK, RunNumbers, IsReceipt, NoReceipt, NoPrev
  <2>4. Claim' = {}
    BY <2>3 DEF Claim
  <2> QED BY <2>1, <2>2, <2>4 DEF Promise!Begin
<1>21. CASE UserTypes
  <2>1. Same BY <1>21, Frame DEF UserTypes
  <2> QED BY <1>21, <2>1 DEF UserTypes, Phase, Promise!Stop, Promise!Consent
<1>22. CASE ProviderAnswers
  <2>1. Same BY <1>22, Frame DEF ProviderAnswers
  <2> QED BY <1>22, <2>1 DEF ProviderAnswers, Phase, Promise!Stop
<1>23. CASE AnswerMalformed
  <2>1. Same BY <1>23, Frame DEF AnswerMalformed
  <2> QED BY <1>23, <2>1 DEF AnswerMalformed, Phase, Promise!Stop
<1>24. CASE Kill
  <2>1. Same BY <1>24, Frame DEF Kill
  <2> QED BY <1>24, <2>1 DEF Kill, Phase, Promise!Stop, IInv, TypeOK, Labels
<1>25. CASE UNCHANGED vars
  <2>1. Same BY <1>25, Frame DEF vars
  <2> QED BY <1>25, <2>1 DEF vars, Phase
<1> QED
  BY <1>1, <1>2, <1>3, <1>4, <1>5, <1>6, <1>7, <1>8, <1>9, <1>10, <1>11, <1>12, <1>13, <1>14, <1>15, <1>16, <1>17, <1>18, <1>19, <1>20, <1>21, <1>22, <1>23, <1>24, <1>25, <1>26 DEF Next, Step, Others

(* run-live keeps the promise of Disclosure. *)
THEOREM Implementation == Spec => ImplementsPromise
<1>1. Init => Promise!Init
  BY DEF Init, Promise!Init, Phase, Offered, Told, Sent, Claim
<1>2. IInv /\ IInv' /\ [Next]_vars => [Promise!Next]_Promise!vars
  BY PromiseStep
<1> QED BY Invariance, <1>1, <1>2, PTL DEF Spec, ImplementsPromise, Promise!Spec
=============================================================================
