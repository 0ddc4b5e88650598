-------------------------- MODULE RunLiveFileProofs --------------------------
(***************************************************************************)
(* Theorems about what the runs of RunLive leave behind: keys, receipts,    *)
(* chains, answer files and exit codes, for any number of runs.             *)
(***************************************************************************)
EXTENDS RunLiveProofs

(* The public key file is written once, after the private one.             *)
KeyInv ==
  /\ keys.priv = NoKey => keys.pub = NoKey
  /\ pc = "pubkey" => keys.pub = NoKey /\ keys.priv # NoKey

(* One receipt per run. *)
LedgerInv ==
  /\ \A r \in ledger : r.id # NoPrev /\ r.signer # NoKey
  /\ \A p, r \in ledger : p.id = r.id => p = r

(* A parent was signed earlier or elsewhere, and the chain gate saw it verify. *)
Earlier(p, n) == p = NoPrev \/ p = ForeignId \/ (p \in 1 .. MaxRuns /\ p < n)
Vouched(p, n) == \E r \in ledger \cup {disk.other} : r.id = p /\ r.id # n /\ Verifies(r)
ParentInv ==
  /\ pc # "idle" => Earlier(prev, run) /\ (prev # NoPrev => Vouched(prev, run))
  /\ \A r \in ledger : Earlier(r.prev, r.id)
  /\ ParentsAreGenuine

(* The seats before the loop's position have failed or left their answer.   *)
Saved(f) == out.answer[f].run = run /\ out.answer[f].text = resp[f].text
Settled(f) == f \in failed \/ Saved(f)
AnswerInv ==
  /\ pc \in Loading \cup Gating => failed = {}
  /\ pc \in {"transmit", "await", "answered"} =>
       \A n \in DOMAIN ids : n < i => Settled(ids[n])
  /\ pc \in {"pubkey", "receipt", "filling"} \cup Attested => \A f \in Elems(ids) : Settled(f)
  /\ pc \in Attested =>
       /\ out.receipt # NoReceipt /\ out.receipt.id = run
       /\ \A f \in Elems(ids) : out.receipt.events[f].answer = resp[f].text
  /\ pc = "combined" => Verifies(out.receipt)
ExitInv == (pc # "idle" => exit = "running") /\ ExitCodeTellsTheDisclosure
-----------------------------------------------------------------------------
(* What each step leaves alone of the files and of the chain.               *)
LEMMA Frames ==
  ASSUME [Next]_vars
  PROVE  /\ keys' = keys \/ EnsureKey \/ WritePublicKey
         /\ ledger' = ledger \/ WriteReceipt
         /\ disk' = disk \/ Edit
         /\ run' = run \/ Start
         /\ prev' = prev \/ ChainGate \/ Start
         /\ pc' = "pubkey" => pc = "pubkey" \/ EnsureKey
         /\ pc' # "idle" => pc # "idle" \/ Start
<1> USE DEF world, inputs, loop, history, Goto, End
<1>1. CASE LoadFragments
  BY <1>1 DEF LoadFragments
<1>2. CASE ReadOriginal
  BY <1>2 DEF ReadOriginal
<1>3. CASE ReadPayload
  BY <1>3 DEF ReadPayload
<1>4. CASE ReadLocalOnly
  BY <1>4 DEF ReadLocalOnly
<1>5. CASE ReadPlan
  BY <1>5 DEF ReadPlan
<1>6. CASE LeakGate
  BY <1>6 DEF LeakGate
<1>7. CASE ChainGate
  BY <1>7 DEF ChainGate
<1>8. CASE ResolveSeats
  BY <1>8 DEF ResolveSeats
<1>9. CASE Preflight
  BY <1>9 DEF Preflight
<1>10. CASE Confirm
  BY <1>10 DEF Confirm
<1>11. CASE Post
  BY <1>11 DEF Post
<1>12. CASE TransportFails
  BY <1>12 DEF TransportFails
<1>13. CASE SaveAnswer
  BY <1>13 DEF SaveAnswer
<1>14. CASE EnsureKey
  BY <1>14 DEF EnsureKey
<1>15. CASE WritePublicKey
  BY <1>15 DEF WritePublicKey
<1>26. CASE OpenReceipt
  BY <1>26 DEF OpenReceipt
<1>16. CASE WriteReceipt
  BY <1>16 DEF WriteReceipt
<1>17. CASE SelfVerify
  BY <1>17 DEF SelfVerify
<1>18. CASE WriteCombined
  BY <1>18 DEF WriteCombined
<1>19. CASE Edit
  BY <1>19 DEF Edit
<1>20. CASE Start
  BY <1>20 DEF Start
<1>21. CASE UserTypes
  BY <1>21 DEF UserTypes
<1>22. CASE ProviderAnswers
  BY <1>22 DEF ProviderAnswers
<1>23. CASE AnswerMalformed
  BY <1>23 DEF AnswerMalformed
<1>24. CASE Kill
  BY <1>24 DEF Kill
<1>25. CASE UNCHANGED vars
  BY <1>25 DEF vars
<1> QED
  BY <1>1, <1>2, <1>3, <1>4, <1>5, <1>6, <1>7, <1>8, <1>9, <1>10, <1>11, <1>12, <1>13, <1>14, <1>15, <1>16, <1>17, <1>18, <1>19, <1>20, <1>21, <1>22, <1>23, <1>24, <1>25, <1>26 DEF Next, Step, Others

(* The public key file is never replaced. *)
LEMMA KeyStep ==
  ASSUME IInv, KeyInv, [Next]_vars
  PROVE  KeyInv' /\ (keys.pub' = keys.pub \/ keys.pub = NoKey)
<1> USE DEF world, inputs, loop, history, Goto, End
<1>1. CASE EnsureKey
  <2>1. run # NoKey
    BY <1>1 DEF EnsureKey, IInv, ReceiptInv, NoKey, TypeOK, RunNumbers
  <2> QED BY <1>1, <2>1 DEF EnsureKey, KeyInv, IInv, TypeOK, KeyFiles
<1>2. CASE WritePublicKey
  BY <1>2 DEF WritePublicKey, KeyInv, IInv, TypeOK, KeyFiles
<1>3. CASE keys' = keys /\ ~EnsureKey /\ ~WritePublicKey
  BY <1>3, Frames DEF KeyInv
<1> QED BY <1>1, <1>2, <1>3, Frames

(* So what verifies goes on verifying. *)
LEMMA VerifiesLasts ==
  ASSUME IInv, KeyInv, [Next]_vars, NEW r, Verifies(r)
  PROVE  /\ r # NoReceipt /\ r.signer # NoKey
         /\ (IF r.keyId = LocalKeyId THEN keys'.pub ELSE DemoKey) = r.signer
BY KeyStep DEF Verifies, PublicKey

(* A key is in memory from the moment it is loaded or made. *)
KeyHeld == pc \in {"pubkey", "receipt", "filling"} => key # NoKey

(* No step takes it away before the receipt is signed.                      *)
LEMMA KeyHeldStep ==
  ASSUME IInv, KeyHeld, [Next]_vars
  PROVE  KeyHeld'
<1> USE DEF world, inputs, loop, history, Goto, End
<1>1. CASE LoadFragments
  BY <1>1 DEF LoadFragments, KeyHeld
<1>2. CASE ReadOriginal
  BY <1>2 DEF ReadOriginal, KeyHeld
<1>3. CASE ReadPayload
  BY <1>3 DEF ReadPayload, KeyHeld
<1>4. CASE ReadLocalOnly
  BY <1>4 DEF ReadLocalOnly, KeyHeld
<1>5. CASE ReadPlan
  BY <1>5 DEF ReadPlan, KeyHeld
<1>6. CASE LeakGate
  BY <1>6 DEF LeakGate, KeyHeld
<1>7. CASE ChainGate
  BY <1>7 DEF ChainGate, KeyHeld
<1>8. CASE ResolveSeats
  BY <1>8 DEF ResolveSeats, KeyHeld
<1>9. CASE Preflight
  BY <1>9 DEF Preflight, KeyHeld
<1>10. CASE Confirm
  BY <1>10 DEF Confirm, KeyHeld
<1>11. CASE Post
  BY <1>11 DEF Post, KeyHeld
<1>12. CASE TransportFails
  BY <1>12 DEF TransportFails, KeyHeld
<1>13. CASE SaveAnswer
  BY <1>13 DEF SaveAnswer, KeyHeld
<1>14. CASE EnsureKey
  <2>1. run # NoKey
    BY <1>14 DEF EnsureKey, IInv, ReceiptInv, NoKey, TypeOK, RunNumbers
  <2> QED BY <1>14, <2>1 DEF EnsureKey, KeyHeld
<1>15. CASE WritePublicKey
  BY <1>15 DEF WritePublicKey, KeyHeld
<1>26. CASE OpenReceipt
  BY <1>26 DEF OpenReceipt, KeyHeld
<1>16. CASE WriteReceipt
  BY <1>16 DEF WriteReceipt, KeyHeld
<1>17. CASE SelfVerify
  BY <1>17 DEF SelfVerify, KeyHeld
<1>18. CASE WriteCombined
  BY <1>18 DEF WriteCombined, KeyHeld
<1>19. CASE Edit
  BY <1>19 DEF Edit, KeyHeld
<1>20. CASE Start
  BY <1>20 DEF Start, KeyHeld
<1>21. CASE UserTypes
  BY <1>21 DEF UserTypes, KeyHeld
<1>22. CASE ProviderAnswers
  BY <1>22 DEF ProviderAnswers, KeyHeld
<1>23. CASE AnswerMalformed
  BY <1>23 DEF AnswerMalformed, KeyHeld
<1>24. CASE Kill
  BY <1>24 DEF Kill, KeyHeld
<1>25. CASE UNCHANGED vars
  BY <1>25 DEF vars, KeyHeld
<1> QED
  BY <1>1, <1>2, <1>3, <1>4, <1>5, <1>6, <1>7, <1>8, <1>9, <1>10, <1>11, <1>12, <1>13, <1>14, <1>15, <1>16, <1>17, <1>18, <1>19, <1>20, <1>21, <1>22, <1>23, <1>24, <1>25, <1>26 DEF Next, Step, Others

(* A step adds at most the receipt of this run, which was not there before. *)
LEMMA LedgerStep ==
  ASSUME IInv, KeyHeld, LedgerInv, [Next]_vars
  PROVE  /\ LedgerInv'
         /\ \/ ledger' = ledger
            \/ /\ WriteReceipt /\ ledger' = ledger \cup {SignedReceipt}
               /\ \A r \in ledger : r.id # run
<1>1. CASE ledger' = ledger
  BY <1>1 DEF LedgerInv
<1>2. CASE WriteReceipt /\ ledger' # ledger
  <2>1. ledger' = ledger \cup {SignedReceipt} /\ pc = "filling"
    BY <1>2 DEF WriteReceipt, End, Goto
  <2>2. run # NoPrev /\ \A r \in ledger : r.id # run
    BY <2>1 DEF IInv, ReceiptInv, Recorded, Telling, NoPrev, TypeOK, RunNumbers
  <2>3. SignedReceipt.id = run /\ SignedReceipt.signer # NoKey
    BY <2>1 DEF SignedReceipt, KeyHeld
  <2> QED BY <1>2, <2>1, <2>2, <2>3 DEF LedgerInv
<1> QED BY <1>1, <1>2, Frames

(* The receipt that the chain gate accepts was signed before this run, or elsewhere. *)
LEMMA GateStep ==
  ASSUME IInv, KeyInv, LedgerInv, [Next]_vars, ChainGate
  PROVE  pc' # "idle" => Earlier(prev', run) /\ (prev' # NoPrev => Vouched(prev, run)')
<1>1. pc = "chain" /\ keys' = keys /\ ledger' = ledger /\ disk' = disk /\ run' = run
  BY DEF ChainGate, world, inputs, history
<1>2. CASE prev' = NoPrev
  BY <1>2 DEF Earlier
<1>3. CASE pc' # "idle" /\ prev' # NoPrev
  <2>1. PICK r \in ChainFiles : Verifies(r) /\ prev' = r.id
    BY <1>3 DEF ChainGate, End, Goto
  <2>2. r \in ledger \cup {disk.other} /\ r # NoReceipt
    BY <2>1 DEF ChainFiles, Verifies, IInv, ReceiptInv
  <2>3. run \in 0 .. MaxRuns /\ MaxRuns \in Nat
    BY BoundAssumption DEF IInv, TypeOK, RunNumbers
  <2>4. Earlier(r.id, run) /\ r.id # run
    <3>1. CASE r \in ledger
      BY <1>1, <2>3, <3>1 DEF IInv, ReceiptInv, Recorded, Gating, LedgerInv, TypeOK,
         IsReceipt, RunNumbers, NoPrev, Earlier
    <3>2. CASE r = disk.other
      <4>1. r.id = ForeignId
        BY <2>2, <3>2, ChainAssumption DEF IInv, TypeOK, Disk
      <4> QED BY <2>3, <4>1 DEF ForeignId, Earlier
    <3> QED BY <2>2, <3>1, <3>2
  <2>5. Verifies(r)'
    BY <1>1, <2>1 DEF Verifies, PublicKey
  <2> QED BY <1>1, <2>1, <2>2, <2>4, <2>5 DEF Vouched
<1> QED BY <1>2, <1>3

(* Parents stay what they were, and a new receipt takes its parent from prev. *)
LEMMA ParentStep ==
  ASSUME IInv, KeyInv, KeyHeld, LedgerInv, ParentInv, [Next]_vars
  PROVE  ParentInv'
<1>1. disk'.other = disk.other
  BY Frames DEF Edit, IInv, TypeOK, Disk
<1>2. ledger \subseteq ledger'
  BY LedgerStep
<1>3. ASSUME NEW p, NEW n, Vouched(p, n)
      PROVE  \E r \in ledger' \cup {disk'.other} : r.id = p /\ r.id # n /\ Verifies(r)'
  <2>1. PICK r \in ledger \cup {disk.other} : r.id = p /\ r.id # n /\ Verifies(r)
    BY <1>3 DEF Vouched
  <2>2. Verifies(r)'
    BY <2>1, VerifiesLasts DEF Verifies, PublicKey
  <2> QED BY <1>1, <1>2, <2>1, <2>2
<1>4. pc' # "idle" => Earlier(prev', run') /\ (prev # NoPrev => Vouched(prev, run))'
  <2>1. CASE Start
    BY <2>1 DEF Start, Earlier
  <2>2. CASE ChainGate
    <3>1. run' = run
      BY <2>2 DEF ChainGate
    <3> QED BY <2>2, <3>1, GateStep
  <2>3. CASE prev' = prev /\ run' = run /\ pc # "idle"
    <3>1. Earlier(prev, run) /\ (prev # NoPrev => Vouched(prev, run))
      BY <2>3 DEF ParentInv
    <3>2. prev # NoPrev =>
            \E r \in ledger' \cup {disk'.other} : r.id = prev /\ r.id # run /\ Verifies(r)'
      BY <1>3, <3>1
    <3> QED BY <2>3, <3>1, <3>2 DEF Vouched
  <2> QED BY <2>1, <2>2, <2>3, Frames
<1>5. ASSUME NEW x \in ledger'
      PROVE  /\ Earlier(x.prev, x.id)
             /\ x.prev # NoPrev => \E r \in ledger' \cup {disk'.other} :
                                    r.id = x.prev /\ r.id # x.id /\ Verifies(r)'
  <2>1. Earlier(x.prev, x.id) /\ (x.prev # NoPrev => Vouched(x.prev, x.id))
    <3>1. CASE x \in ledger
      BY <3>1 DEF ParentInv, ParentsAreGenuine, Vouched
    <3>2. CASE WriteReceipt /\ x = SignedReceipt
      BY <3>2 DEF WriteReceipt, SignedReceipt, ParentInv
    <3> QED BY <3>1, <3>2, LedgerStep
  <2> QED BY <1>3, <2>1
<1> QED BY <1>4, <1>5 DEF ParentInv, ParentsAreGenuine

-----------------------------------------------------------------------------
FileInv == IInv /\ KeyInv /\ KeyHeld /\ LedgerInv /\ ParentInv

(* The inductive invariant of keys, receipts and chains.                    *)
THEOREM FileInvariance == Spec => []FileInv
<1>1. Init => FileInv
  <2> SUFFICES ASSUME Init PROVE FileInv
    OBVIOUS
  <2>1. KeyInv /\ KeyHeld /\ LedgerInv /\ ParentInv
    BY DEF Init, KeyInv, KeyHeld, LedgerInv, ParentInv, ParentsAreGenuine
  <2> QED BY <2>1, InitInv DEF FileInv
<1>2. FileInv /\ [Next]_vars => FileInv'
  <2>1. IInv /\ [Next]_vars => IInv'
    BY Inv1Step, WireStep, PostStep, ReceiptStep DEF IInv
  <2> QED BY <2>1, KeyStep, KeyHeldStep, LedgerStep, ParentStep DEF FileInv
<1> QED BY <1>1, <1>2, PTL DEF Spec

(* The parent a receipt names is another receipt, and it verifies.          *)
THEOREM GenuineParents == Spec => []ParentsAreGenuine
<1>1. FileInv => ParentsAreGenuine
  BY DEF FileInv, ParentInv
<1> QED BY FileInvariance, <1>1, PTL

(* A receipt that verifies keeps verifying, through any number of runs.     *)
THEOREM LastingEvidence == Spec => EvidenceLasts
<1>1. ASSUME FileInv, [Next]_vars
      PROVE  [\A r \in ledger : Verifies(r) => Verifies(r)']_vars
  <2>1. ASSUME NEW r \in ledger, Verifies(r) PROVE Verifies(r)'
    BY <1>1, <2>1, VerifiesLasts DEF FileInv, Verifies, PublicKey
  <2> QED BY <2>1
<1>2. FileInv /\ [Next]_vars => [\A r \in ledger : Verifies(r) => Verifies(r)']_vars
  BY <1>1
<1> QED BY FileInvariance, <1>2, PTL DEF Spec, EvidenceLasts

-----------------------------------------------------------------------------
(* A list that is accepted is linked. *)
LEMMA PairLinked ==
  ASSUME NEW p, NEW r, NEW pub, Accepted(<<p, r>>, pub)
  PROVE  r.prev = p.id
<1> DEFINE rs == <<p, r>>
<1>1. DOMAIN rs = 1 .. 2 /\ rs[1] = p /\ rs[2] = r
  OBVIOUS
<1>2. \E k : ChainVerifies(rs, k)
  BY DEF Accepted, AplVerify, StandaloneVerify, OldVerify, BridgeVerifies
<1> HIDE DEF rs
<1>3. rs[2].prev = rs[2 - 1].id
  BY <1>1, <1>2 DEF ChainVerifies
<1> QED BY <1>1, <1>3

(* An accepted list of three is linked twice.                               *)
LEMMA TripleLinked ==
  ASSUME NEW p, NEW q, NEW r, AplVerify(<<p, q, r>>, NoKey) = "0"
  PROVE  q.prev = p.id /\ r.prev = q.id
<1> DEFINE rs == <<p, q, r>>
<1>1. DOMAIN rs = 1 .. 3 /\ rs[1] = p /\ rs[2] = q /\ rs[3] = r
  OBVIOUS
<1>2. \E k : ChainVerifies(rs, k)
  BY DEF AplVerify, BridgeVerifies
<1> HIDE DEF rs
<1>3. rs[2].prev = rs[2 - 1].id /\ rs[3].prev = rs[3 - 1].id
  BY <1>1, <1>2 DEF ChainVerifies
<1> QED BY <1>1, <1>3

(* A linked list of receipts of the local key is accepted. *)
LEMMA LinkedPair ==
  ASSUME TypeOK, NEW p \in ledger, NEW r \in ledger, Verifies(p), Verifies(r), r.prev = p.id
  PROVE  AplVerify(<<p, r>>, NoKey) = "0" /\ StandaloneVerify(<<p, r>>, keys.pub) = "0"
<1> DEFINE rs == <<p, r>>
<1>1. DOMAIN rs = 1 .. 2 /\ rs[1] = p /\ rs[2] = r /\ rs # <<>>
  OBVIOUS
<1>2. p.signer = keys.pub /\ r.signer = keys.pub /\ keys.pub # NoKey /\ PublicKey(p.keyId) = keys.pub
  BY DEF Verifies, PublicKey, TypeOK, IsReceipt
<1>3. NoReceipt \notin Elems(rs)
  BY <1>1 DEF Elems, Verifies
<1> HIDE DEF rs
<1>4. ChainVerifies(rs, keys.pub)
  BY <1>1, <1>2 DEF ChainVerifies
<1>5. BridgeVerifies(rs, NoKey)
  BY <1>1, <1>2, <1>4 DEF BridgeVerifies
<1>6. AplVerify(rs, NoKey) = "0" /\ StandaloneVerify(rs, keys.pub) = "0"
  BY <1>1, <1>2, <1>3, <1>4, <1>5 DEF AplVerify, StandaloneVerify
<1> QED BY <1>6 DEF rs

(* And so is a linked list of three, by the old verifier.                   *)
LEMMA LinkedTriple ==
  ASSUME TypeOK, NEW q \in ledger, NEW p \in ledger, NEW r \in ledger,
         Verifies(q), Verifies(p), Verifies(r), p.prev = q.id, r.prev = p.id
  PROVE  OldVerify(<<q, p, r>>, NoKey) = "0"
<1> DEFINE rs == <<q, p, r>>
<1>1. DOMAIN rs = 1 .. 3 /\ rs[1] = q /\ rs[2] = p /\ rs[3] = r /\ rs # <<>>
  OBVIOUS
<1>2. /\ q.signer = keys.pub /\ p.signer = keys.pub /\ r.signer = keys.pub
      /\ keys.pub # NoKey /\ PublicKey(q.keyId) = keys.pub
  BY DEF Verifies, PublicKey, TypeOK, IsReceipt
<1>3. NoReceipt \notin Elems(rs)
  BY <1>1 DEF Elems, Verifies
<1> HIDE DEF rs
<1>4. ChainVerifies(rs, keys.pub)
  BY <1>1, <1>2 DEF ChainVerifies
<1>5. BridgeVerifies(rs, NoKey)
  BY <1>1, <1>2, <1>4 DEF BridgeVerifies
<1>6. OldVerify(rs, NoKey) = "0"
  BY <1>1, <1>3, <1>5 DEF OldVerify, AplVerify
<1> QED BY <1>6 DEF rs

(* Every receipt is that of a run.                                         *)
LEMMA LedgerIds ==
  ASSUME FileInv, NEW r \in ledger
  PROVE  r.id \in 1 .. MaxRuns /\ MaxRuns \in Nat
<1>1. r.id \in 0 .. MaxRuns
  BY DEF FileInv, IInv, TypeOK, IsReceipt, RunNumbers
<1>2. r.id # 0
  BY DEF FileInv, LedgerInv, NoPrev
<1> QED BY <1>1, <1>2, BoundAssumption

(* Parent and child are in the order of their runs, and so are their parents. *)
LEMMA LinkedInLine ==
  ASSUME FileInv, NEW p \in ledger, NEW r \in ledger, r.prev = p.id
  PROVE  InLine(p, r)
<1>1. p.id \in 1 .. MaxRuns /\ r.id \in Nat /\ MaxRuns \in Nat
  BY LedgerIds
<1>2. Earlier(p.prev, p.id) /\ Earlier(r.prev, r.id)
  BY DEF FileInv, ParentInv
<1> QED BY <1>1, <1>2 DEF Earlier, InLine, NoPrev, ForeignId

(* The parent of one of the user's receipts verifies, if it is one too.     *)
LEMMA ParentVerifies ==
  ASSUME FileInv, NEW p \in ledger, NEW r \in ledger, r.prev = p.id
  PROVE  Verifies(p)
<1>1. p.id \in 1 .. MaxRuns /\ MaxRuns \in Nat
  BY LedgerIds
<1>2. PICK x \in ledger \cup {disk.other} : x.id = r.prev /\ Verifies(x)
  BY <1>1 DEF FileInv, ParentInv, ParentsAreGenuine, NoPrev
<1>3. CASE x \in ledger
  BY <1>2, <1>3 DEF FileInv, LedgerInv
<1>4. CASE x = disk.other
  <2>1. x.id = ForeignId
    BY <1>2, <1>4, ChainAssumption DEF Verifies, FileInv, IInv, TypeOK, Disk
  <2> QED BY <1>1, <1>2, <2>1 DEF ForeignId
<1> QED BY <1>3, <1>4

(* What the verifiers accept is history, and the history of the local key   *)
(* is accepted, for any number of runs.                                     *)
THEOREM ChainsAreHistory == Spec => []AcceptedChainsAreHistory
<1>1. ASSUME FileInv PROVE AcceptedChainsAreHistory
  <2> SUFFICES ASSUME NEW p \in ledger, NEW r \in ledger
               PROVE  /\ \A pub \in {NoKey, keys.pub} : Accepted(<<p, r>>, pub) => InLine(p, r)
                      /\ \A q \in ledger : AplVerify(<<p, q, r>>, NoKey) = "0" =>
                           InLine(p, q) /\ InLine(q, r) /\ InLine(p, r)
                      /\ AplVerify(<<r, disk.other>>, NoKey) # "0"
                      /\ Verifies(r) /\ r.prev = p.id =>
                           /\ AplVerify(<<p, r>>, NoKey) = "0"
                           /\ StandaloneVerify(<<p, r>>, keys.pub) = "0"
                           /\ \A q \in ledger : p.prev = q.id => OldVerify(<<q, p, r>>, NoKey) = "0"
    BY DEF AcceptedChainsAreHistory
  <2>1. TypeOK /\ MaxRuns \in Nat
    BY <1>1, BoundAssumption DEF FileInv, IInv
  <2>2. ASSUME NEW pub, Accepted(<<p, r>>, pub) PROVE InLine(p, r)
    BY <1>1, <2>2, PairLinked, LinkedInLine
  <2>3. ASSUME NEW q \in ledger, AplVerify(<<p, q, r>>, NoKey) = "0"
        PROVE  InLine(p, q) /\ InLine(q, r) /\ InLine(p, r)
    <3>1. q.prev = p.id /\ r.prev = q.id
      BY <2>3, TripleLinked
    <3>2. InLine(p, q) /\ InLine(q, r)
      BY <1>1, <3>1, LinkedInLine
    <3>3. p.id \in 1 .. MaxRuns /\ q.id \in 1 .. MaxRuns /\ r.id \in 1 .. MaxRuns
      BY <1>1, LedgerIds
    <3>4. Earlier(p.prev, p.id)
      BY <1>1 DEF FileInv, ParentInv
    <3>5. p.id < r.id
      BY <3>2, <3>3 DEF InLine
    <3>6. p.prev # r.prev
      BY <2>1, <3>1, <3>2, <3>3, <3>4 DEF InLine, Earlier, NoPrev, ForeignId
    <3> QED BY <3>2, <3>5, <3>6 DEF InLine
  <2>4. AplVerify(<<r, disk.other>>, NoKey) # "0"
    <3>1. CASE disk.other = NoReceipt
      <4> DEFINE rs == <<r, disk.other>>
      <4>1. DOMAIN rs = 1 .. 2 /\ rs[2] = NoReceipt
        BY <3>1
      <4>2. NoReceipt \in Elems(rs)
        BY <4>1 DEF Elems
      <4> QED BY <4>2 DEF AplVerify
    <3>2. CASE disk.other # NoReceipt
      <4>1. disk.other.prev \notin 1 .. MaxRuns
        BY <2>1, <3>2, ChainAssumption DEF TypeOK, Disk
      <4>2. r.id \in 1 .. MaxRuns
        BY <1>1, LedgerIds
      <4>3. ~Accepted(<<r, disk.other>>, NoKey)
        BY <4>1, <4>2, PairLinked
      <4> QED BY <4>3 DEF Accepted
    <3> QED BY <3>1, <3>2
  <2>5. ASSUME Verifies(r), r.prev = p.id
        PROVE  /\ AplVerify(<<p, r>>, NoKey) = "0" /\ StandaloneVerify(<<p, r>>, keys.pub) = "0"
               /\ \A q \in ledger : p.prev = q.id => OldVerify(<<q, p, r>>, NoKey) = "0"
    <3>1. Verifies(p)
      BY <1>1, <2>5, ParentVerifies
    <3>2. AplVerify(<<p, r>>, NoKey) = "0" /\ StandaloneVerify(<<p, r>>, keys.pub) = "0"
      BY <2>1, <2>5, <3>1, LinkedPair
    <3>3. ASSUME NEW q \in ledger, p.prev = q.id PROVE OldVerify(<<q, p, r>>, NoKey) = "0"
      <4>1. Verifies(q)
        BY <1>1, <3>3, ParentVerifies
      <4> QED BY <2>1, <2>5, <3>1, <3>3, <4>1, LinkedTriple
    <3> QED BY <3>2, <3>3
  <2> QED BY <2>2, <2>3, <2>4, <2>5
<1>2. FileInv => AcceptedChainsAreHistory
  BY <1>1
<1> QED BY FileInvariance, <1>2, PTL

-----------------------------------------------------------------------------
(* A seat that is behind the loop's position is not the one whose turn it is. *)
LEMMA Behind ==
  ASSUME TypeOK, ReadInv, pc \in {"await", "answered"}, NEW n \in DOMAIN ids, n < i
  PROVE  ids[n] # Seat /\ ids[n] \in Fragments /\ Seat \in Fragments
BY DEF TypeOK, ReadInv, Injective, Seat

(* Every step keeps what failed and what is saved in agreement with the loop. *)
LEMMA AnswerStep ==
  ASSUME IInv, AnswerInv, [Next]_vars
  PROVE  AnswerInv'
<1> USE DEF world, inputs, loop, history, Goto, End
<1>1. CASE LoadFragments
  BY <1>1 DEF LoadFragments, AnswerInv, Settled, Saved, Verifies, PublicKey, Loading, Gating, Telling, Attested, IInv, ReadInv, TypeOK
<1>2. CASE ReadOriginal
  BY <1>2 DEF ReadOriginal, AnswerInv, Settled, Saved, Verifies, PublicKey, Loading, Gating, Telling, Attested, IInv, ReadInv, TypeOK
<1>3. CASE ReadPayload
  BY <1>3 DEF ReadPayload, AnswerInv, Settled, Saved, Verifies, PublicKey, Loading, Gating, Telling, Attested, IInv, ReadInv, TypeOK
<1>4. CASE ReadLocalOnly
  BY <1>4 DEF ReadLocalOnly, AnswerInv, Settled, Saved, Verifies, PublicKey, Loading, Gating, Telling, Attested, IInv, ReadInv, TypeOK
<1>5. CASE ReadPlan
  BY <1>5 DEF ReadPlan, AnswerInv, Settled, Saved, Verifies, PublicKey, Loading, Gating, Telling, Attested, IInv, ReadInv, TypeOK
<1>6. CASE LeakGate
  BY <1>6 DEF LeakGate, AnswerInv, Settled, Saved, Verifies, PublicKey, Loading, Gating, Telling, Attested, IInv, ReadInv, TypeOK
<1>7. CASE ChainGate
  BY <1>7 DEF ChainGate, AnswerInv, Settled, Saved, Verifies, PublicKey, Loading, Gating, Telling, Attested, IInv, ReadInv, TypeOK
<1>8. CASE ResolveSeats
  BY <1>8 DEF ResolveSeats, AnswerInv, Settled, Saved, Verifies, PublicKey, Loading, Gating, Telling, Attested, IInv, ReadInv, TypeOK
<1>9. CASE Preflight
  BY <1>9 DEF Preflight, AnswerInv, Settled, Saved, Verifies, PublicKey, Loading, Gating, Telling, Attested, IInv, ReadInv, TypeOK
<1>10. CASE Confirm
  BY <1>10 DEF Confirm, AnswerInv, Settled, Saved, Verifies, PublicKey, Loading, Gating, Telling, Attested, IInv, ReadInv, TypeOK
<1>11. CASE Post
  BY <1>11 DEF Post, AnswerInv, Settled, Saved, Verifies, PublicKey, Loading, Gating, Telling, Attested, IInv, ReadInv, TypeOK
<1>12. CASE TransportFails
  <2>1. Seat \in failed' /\ ids' = ids /\ out' = out /\ run' = run /\ i' = i + 1
        /\ failed \subseteq failed' /\ pc = "await" /\ pc' = "transmit"
    BY <1>12 DEF TransportFails
  <2>2. ASSUME NEW n \in DOMAIN ids, n < i + 1 PROVE Settled(ids[n])'
    <3>1. CASE n < i
      <4>1. resp'[ids[n]] = resp[ids[n]]
        BY <1>12, <2>1, <3>1, Behind DEF TransportFails, IInv, TypeOK
      <4>2. Settled(ids[n])
        BY <2>1, <3>1 DEF AnswerInv
      <4> QED BY <2>1, <4>1, <4>2 DEF Settled, Saved
    <3>2. CASE ~(n < i)
      <4>1. n = i
        BY <2>2, <3>2 DEF IInv, TypeOK
      <4> QED BY <2>1, <4>1 DEF Settled, Seat
    <3> QED BY <3>1, <3>2
  <2> QED BY <2>1, <2>2 DEF AnswerInv, Loading, Gating, Attested
<1>13. CASE SaveAnswer
  <2>1. ids' = ids /\ run' = run /\ failed' = failed /\ resp' = resp /\ pc = "answered"
    BY <1>13 DEF SaveAnswer
  <2>2. CASE pc' = "idle"
    BY <2>2 DEF AnswerInv, Loading, Gating, Attested
  <2>3. CASE pc' # "idle"
    <3>1. /\ i' = i + 1 /\ pc' = "transmit"
          /\ out' = [out EXCEPT !.answer[Seat] = [run |-> run, text |-> resp[Seat].text]]
      BY <1>13, <2>3 DEF SaveAnswer
    <3>2. /\ Seat \in Fragments
          /\ out'.answer = [out.answer EXCEPT ![Seat] = [run |-> run, text |-> resp[Seat].text]]
          /\ out.answer \in AnswerFiles
      BY <2>1, <3>1, SeatType DEF IInv, ReadInv, TypeOK, IsOutDir
    <3>3. ASSUME NEW n \in DOMAIN ids, n < i + 1 PROVE Settled(ids[n])'
      <4>1. CASE n < i
        <5>1. out'.answer[ids[n]] = out.answer[ids[n]]
          BY <2>1, <3>2, <4>1, Behind DEF IInv, AnswerFiles
        <5>2. Settled(ids[n])
          BY <2>1, <4>1 DEF AnswerInv
        <5> QED BY <2>1, <5>1, <5>2 DEF Settled, Saved
      <4>2. CASE ~(n < i)
        <5>1. n = i
          BY <3>3, <4>2 DEF IInv, TypeOK
        <5>2. out'.answer[Seat] = [run |-> run, text |-> resp[Seat].text]
          BY <3>2 DEF AnswerFiles
        <5> QED BY <2>1, <5>1, <5>2 DEF Settled, Saved, Seat
      <4> QED BY <4>1, <4>2
    <3> QED BY <2>1, <3>1, <3>3 DEF AnswerInv, Loading, Gating, Attested
  <2> QED BY <2>2, <2>3
<1>14. CASE EnsureKey
  <2>1. UNCHANGED <<ids, run, failed, out, resp>> /\ pc = "transmit" /\ i > Len(ids)
        /\ pc' \in {"pubkey", "receipt"}
    BY <1>14 DEF EnsureKey
  <2>2. ASSUME NEW f \in Elems(ids) PROVE Settled(f)'
    <3>1. PICK n \in DOMAIN ids : f = ids[n]
      BY DEF Elems
    <3>2. n < i
      BY <2>1 DEF IInv, TypeOK
    <3> QED BY <2>1, <3>1, <3>2 DEF AnswerInv, Settled, Saved
  <2> QED BY <2>1, <2>2 DEF AnswerInv, Elems, Loading, Gating, Attested
<1>15. CASE WritePublicKey
  BY <1>15 DEF WritePublicKey, AnswerInv, Settled, Saved, Verifies, PublicKey, Loading, Gating, Telling, Attested, IInv, ReadInv, TypeOK
<1>26. CASE OpenReceipt
  <2>1. out'.answer = out.answer
    BY <1>26 DEF OpenReceipt, IInv, TypeOK, IsOutDir
  <2>2. CASE pc' = "idle"
    BY <2>2 DEF AnswerInv, Loading, Gating, Attested
  <2>3. CASE pc' # "idle"
    <3>1. pc = "receipt" /\ pc' = "filling" /\ UNCHANGED <<ids, run, failed, resp>>
      BY <1>26, <2>3 DEF OpenReceipt
    <3>2. \A f \in Elems(ids) : Settled(f)'
      BY <2>1, <3>1 DEF AnswerInv, Settled, Saved
    <3> QED BY <3>1, <3>2 DEF AnswerInv, Elems, Loading, Gating, Attested
  <2> QED BY <2>2, <2>3
<1>16. CASE WriteReceipt
  <2>1. out' = [out EXCEPT !.receipt = SignedReceipt] /\ pc' = "selfverify" /\ pc = "filling"
    BY <1>16 DEF WriteReceipt
  <2>2. UNCHANGED <<ids, run, failed, resp>>
    BY <1>16 DEF WriteReceipt
  <2>3. out'.receipt = SignedReceipt /\ out'.answer = out.answer
    BY <2>1 DEF IInv, TypeOK, IsOutDir
  <2>4. run > 0 /\ SignedReceipt.id = run
    BY <2>1 DEF IInv, ReceiptInv, SignedReceipt
  <2>5. SignedReceipt # NoReceipt
    BY <2>4 DEF NoReceipt, NoPrev
  <2>6. \A f \in Elems(ids) : SignedReceipt.events[f].answer = resp[f].text
    BY DEF SignedReceipt, Event
  <2>7. \A f \in Elems(ids) : Settled(f)'
    BY <2>1, <2>2, <2>3 DEF AnswerInv, Settled, Saved
  <2> QED BY <2>1, <2>2, <2>3, <2>4, <2>5, <2>6, <2>7 DEF AnswerInv, Elems, Loading, Gating, Attested
<1>17. CASE SelfVerify
  BY <1>17 DEF SelfVerify, AnswerInv, Settled, Saved, Verifies, PublicKey, Loading, Gating, Telling, Attested, IInv, ReadInv, TypeOK
<1>18. CASE WriteCombined
  BY <1>18 DEF WriteCombined, AnswerInv, Settled, Saved, Verifies, PublicKey, Loading, Gating, Telling, Attested, IInv, ReadInv, TypeOK
<1>19. CASE Edit
  BY <1>19 DEF Edit, AnswerInv, Settled, Saved, Verifies, PublicKey, Loading, Gating, Telling, Attested, IInv, ReadInv, TypeOK
<1>20. CASE Start
  BY <1>20 DEF Start, AnswerInv, Settled, Saved, Verifies, PublicKey, Loading, Gating, Telling, Attested, IInv, ReadInv, TypeOK
<1>21. CASE UserTypes
  BY <1>21 DEF UserTypes, AnswerInv, Settled, Saved, Verifies, PublicKey, Loading, Gating, Telling, Attested, IInv, ReadInv, TypeOK
<1>22. CASE ProviderAnswers
  <2>1. /\ ids' = ids /\ run' = run /\ failed' = failed /\ out' = out /\ i' = i
        /\ pc = "await" /\ pc' = "answered"
    BY <1>22 DEF ProviderAnswers
  <2>2. ASSUME NEW n \in DOMAIN ids, n < i PROVE Settled(ids[n])'
    <3>1. resp'[ids[n]] = resp[ids[n]]
      BY <1>22, <2>1, <2>2, Behind DEF ProviderAnswers, IInv, TypeOK
    <3>2. Settled(ids[n])
      BY <2>1, <2>2 DEF AnswerInv
    <3> QED BY <2>1, <3>1, <3>2 DEF Settled, Saved
  <2> QED BY <2>1, <2>2 DEF AnswerInv, Loading, Gating, Attested
<1>23. CASE AnswerMalformed
  BY <1>23 DEF AnswerMalformed, AnswerInv, Settled, Saved, Verifies, PublicKey, Loading, Gating, Telling, Attested, IInv, ReadInv, TypeOK
<1>24. CASE Kill
  BY <1>24 DEF Kill, AnswerInv, Settled, Saved, Verifies, PublicKey, Loading, Gating, Telling, Attested, IInv, ReadInv, TypeOK
<1>25. CASE UNCHANGED vars
  BY <1>25 DEF vars, AnswerInv, Settled, Saved, Verifies, PublicKey, Loading, Gating, Telling, Attested, IInv, ReadInv, TypeOK
<1> QED
  BY <1>1, <1>2, <1>3, <1>4, <1>5, <1>6, <1>7, <1>8, <1>9, <1>10, <1>11, <1>12, <1>13, <1>14, <1>15, <1>16, <1>17, <1>18, <1>19, <1>20, <1>21, <1>22, <1>23, <1>24, <1>25, <1>26 DEF Next, Step, Others

(* Every step keeps the meaning of the exit code. *)
LEMMA ExitStep ==
  ASSUME IInv, AnswerInv, ExitInv, [Next]_vars
  PROVE  ExitInv'
<1> USE DEF world, inputs, loop, history, Goto, End
<1>1. CASE LoadFragments
  BY <1>1 DEF LoadFragments, ExitInv, ExitCodeTellsTheDisclosure, Sent, IInv, WireInv, Loading, Gating
<1>2. CASE ReadOriginal
  BY <1>2 DEF ReadOriginal, ExitInv, ExitCodeTellsTheDisclosure, Verifies, PublicKey, Sent
<1>3. CASE ReadPayload
  BY <1>3 DEF ReadPayload, ExitInv, ExitCodeTellsTheDisclosure, Verifies, PublicKey, Sent
<1>4. CASE ReadLocalOnly
  BY <1>4 DEF ReadLocalOnly, ExitInv, ExitCodeTellsTheDisclosure, Verifies, PublicKey, Sent
<1>5. CASE ReadPlan
  BY <1>5 DEF ReadPlan, ExitInv, ExitCodeTellsTheDisclosure, Verifies, PublicKey, Sent
<1>6. CASE LeakGate
  BY <1>6 DEF LeakGate, ExitInv, ExitCodeTellsTheDisclosure, Sent, IInv, WireInv, Loading, Gating
<1>7. CASE ChainGate
  BY <1>7 DEF ChainGate, ExitInv, ExitCodeTellsTheDisclosure, Sent, IInv, WireInv, Loading, Gating
<1>8. CASE ResolveSeats
  BY <1>8 DEF ResolveSeats, ExitInv, ExitCodeTellsTheDisclosure, Sent, IInv, WireInv, Loading, Gating
<1>9. CASE Preflight
  BY <1>9 DEF Preflight, ExitInv, ExitCodeTellsTheDisclosure, Sent, IInv, WireInv, Loading, Gating
<1>10. CASE Confirm
  BY <1>10 DEF Confirm, ExitInv, ExitCodeTellsTheDisclosure, Sent, IInv, WireInv, Loading, Gating
<1>11. CASE Post
  BY <1>11 DEF Post, ExitInv, ExitCodeTellsTheDisclosure, Verifies, PublicKey, Sent
<1>12. CASE TransportFails
  BY <1>12 DEF TransportFails, ExitInv, ExitCodeTellsTheDisclosure, Verifies, PublicKey, Sent
<1>13. CASE SaveAnswer
  BY <1>13 DEF SaveAnswer, ExitInv, ExitCodeTellsTheDisclosure, Verifies, PublicKey, Sent
<1>14. CASE EnsureKey
  BY <1>14 DEF EnsureKey, ExitInv, ExitCodeTellsTheDisclosure, Verifies, PublicKey, Sent
<1>15. CASE WritePublicKey
  BY <1>15 DEF WritePublicKey, ExitInv, ExitCodeTellsTheDisclosure, Verifies, PublicKey, Sent
<1>26. CASE OpenReceipt
  BY <1>26 DEF OpenReceipt, ExitInv, ExitCodeTellsTheDisclosure
<1>16. CASE WriteReceipt
  BY <1>16 DEF WriteReceipt, ExitInv, ExitCodeTellsTheDisclosure, Verifies, PublicKey, Sent
<1>17. CASE SelfVerify
  BY <1>17 DEF SelfVerify, ExitInv, ExitCodeTellsTheDisclosure, Verifies, PublicKey, Sent
<1>18. CASE WriteCombined
  <2>1. /\ UNCHANGED <<ids, run, failed, out, resp, keys, wire>> /\ pc = "combined"
        /\ exit' = IF failed = {} THEN "0" ELSE "1"
    BY <1>18 DEF WriteCombined
  <2>2. Verifies(out.receipt) /\ out.receipt # NoReceipt /\ out.receipt.id = run
    BY <2>1 DEF AnswerInv, Attested
  <2>3. failed = {} => \A f \in Elems(ids) :
           out.answer[f].run = run /\ out.answer[f].text = out.receipt.events[f].answer
    BY <2>1 DEF AnswerInv, Attested, Settled, Saved
  <2> QED BY <1>18, <2>1, <2>2, <2>3 DEF WriteCombined, ExitInv, ExitCodeTellsTheDisclosure, Verifies, PublicKey, Elems
<1>19. CASE Edit
  BY <1>19 DEF Edit, ExitInv, ExitCodeTellsTheDisclosure, Verifies, PublicKey, Sent
<1>20. CASE Start
  BY <1>20 DEF Start, ExitInv, ExitCodeTellsTheDisclosure, Verifies, PublicKey, Sent
<1>21. CASE UserTypes
  BY <1>21 DEF UserTypes, ExitInv, ExitCodeTellsTheDisclosure, Sent, IInv, WireInv, Loading, Gating
<1>22. CASE ProviderAnswers
  BY <1>22 DEF ProviderAnswers, ExitInv, ExitCodeTellsTheDisclosure, Verifies, PublicKey, Sent
<1>23. CASE AnswerMalformed
  BY <1>23 DEF AnswerMalformed, ExitInv, ExitCodeTellsTheDisclosure, Verifies, PublicKey, Sent
<1>24. CASE Kill
  BY <1>24 DEF Kill, ExitInv, ExitCodeTellsTheDisclosure, Verifies, PublicKey, Sent
<1>25. CASE UNCHANGED vars
  BY <1>25 DEF vars, ExitInv, ExitCodeTellsTheDisclosure, Verifies, PublicKey, Sent
<1> QED
  BY <1>1, <1>2, <1>3, <1>4, <1>5, <1>6, <1>7, <1>8, <1>9, <1>10, <1>11, <1>12, <1>13, <1>14, <1>15, <1>16, <1>17, <1>18, <1>19, <1>20, <1>21, <1>22, <1>23, <1>24, <1>25, <1>26 DEF Next, Step, Others

(* The exit code of a run tells what was disclosed, and what is on disk.    *)
THEOREM ExitCodes == Spec => []ExitCodeTellsTheDisclosure
<1>1. Init => AnswerInv /\ ExitInv
  BY DEF Init, AnswerInv, ExitInv, ExitCodeTellsTheDisclosure, Loading, Gating, Attested
<1>2. IInv /\ AnswerInv /\ ExitInv /\ [Next]_vars => AnswerInv' /\ ExitInv'
  BY AnswerStep, ExitStep
<1>3. ExitInv => ExitCodeTellsTheDisclosure
  BY DEF ExitInv
<1> QED BY Invariance, <1>1, <1>2, <1>3, PTL DEF Spec
=============================================================================
