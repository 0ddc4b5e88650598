------------------------- MODULE ArtifactsRunProofs -------------------------
(***************************************************************************)
(* Proofs about what a run of Artifacts leaves: the directory of demos that *)
(* do not overlap, and what inspect may take for verified.                 *)
(***************************************************************************)
EXTENDS ArtifactsProofs

Last == demos[Len(demos)]
IsDemo(c) == job[c].kind = "demo"

(* Who starts is listed; a second demo under way makes an overlap.          *)
ListInv ==
  /\ \A c \in Commands : IsDemo(c) => pc[c] # "ready" /\ demos # <<>>
  /\ demos # <<>> => IsDemo(Last)
  /\ overlap => Len(demos) > 1

(* If demos do not overlap, only the last of them is under way.             *)
SerialInv ==
  ~overlap => \A c \in Commands : IsDemo(c) /\ UnderWay(c) => c = Last

(* What the last of several demos that did not overlap has left so far.     *)
AssessmentDone(c) == pc[c] \in {"sign", "0"} \cup Holding \/ (pc[c] = "read" /\ at[c] > N)
LastInv ==
  ~overlap /\ demos # <<>> =>
    /\ AssessmentDone(Last) => file["assessment"] = Last
    /\ pc[Last] \in {"verify", "page", "fill_page", "0"} => file["receipt"] = held[Last]
    /\ pc[Last] \in {"page", "fill_page", "0"} => Verifies(file["receipt"])
    /\ pc[Last] = "0" => file["page"] = [by |-> Last, receipt |-> held[Last]]

(* If there was one demo only, there is a page, or an inspect that has found *)
(* one, only when its receipt was verified and will not be written again.   *)
FirstInv ==
  Len(demos) <= 1 =>
    /\ file["page"] # Absent \/ (\E c \in Commands : pc[c] = "show") =>
         /\ demos # <<>> /\ pc[Last] \in {"fill_page", "0", "killed"}
         /\ Verifies(file["receipt"])
    /\ \A c \in Commands : printed[c] # Absent => Verifies(printed[c])

RunInv == BaseInv /\ ListInv /\ SerialInv /\ LastInv /\ FirstInv /\ PagesVerify

-----------------------------------------------------------------------------
(* The last of a list of demos is a command. *)
LEMMA LastOfDemos ==
  ASSUME TypeOK
  PROVE  /\ Len(demos) \in Nat /\ (demos = <<>> <=> Len(demos) = 0)
         /\ demos # <<>> => Last \in Commands
<1>1. demos \in Seq(Commands)
  BY DEF TypeOK
<1>2. Len(demos) \in Nat /\ (demos = <<>> <=> Len(demos) = 0)
  BY <1>1, EmptySeq, LenProperties
<1>3. demos # <<>> => Len(demos) \in 1..Len(demos)
  BY <1>2
<1>4. QED BY <1>1, <1>2, <1>3, ElementOfSeq DEF Last

(* Only a demo writes the three artifacts, and at these steps.              *)
Touched ==
  /\ file'["assessment"] = file["assessment"]
     \/ \E c \in Commands : EmptyAssessment(c) \/ FillAssessment(c)
  /\ file'["receipt"] = file["receipt"]
     \/ \E c \in Commands : IsDemo(c) /\ (EmptyReceipt(c) \/ FillReceipt(c))
  /\ file'["page"] = file["page"] \/ \E c \in Commands : EmptyPage(c) \/ FillPage(c)

(* So every step leaves them.                                               *)
LEMMA Touching == ASSUME BaseInv, [Next]_vars PROVE Touched
<1> USE DEF BaseInv, TypeOK, Touched, IsDemo, Files, Receipts
<1>1. CASE file' = file
  BY <1>1
<1>2. ASSUME NEW c \in Commands, EmptyAssessment(c) \/ FillAssessment(c) PROVE Touched
  BY <1>2 DEF EmptyAssessment, FillAssessment, Empty, Fill
<1>3. ASSUME NEW c \in Commands, EmptyReceipt(c) \/ FillReceipt(c) PROVE Touched
  BY <1>3 DEF EmptyReceipt, FillReceipt, Empty, Fill, ReceiptFile
<1>4. ASSUME NEW c \in Commands, EmptyPage(c) \/ FillPage(c) PROVE Touched
  BY <1>4 DEF EmptyPage, FillPage, Empty, Fill
<1>5. ASSUME NEW c \in Commands, EmptyCopy(c) \/ FillCopy(c) PROVE Touched
  <2>1. Copy(job[c].source) \notin {"assessment", "receipt", "page"}
    BY <1>5 DEF EmptyCopy, FillCopy, Stages, KindOK, Breaking, Sources, Copy
  <2>2. QED BY <1>5, <2>1 DEF EmptyCopy, FillCopy, Empty, Fill
<1>6. ASSUME NEW c \in Commands,
             ReadPlan(c) \/ Read(c) \/ Sign(c) \/ VerifyReceipt(c) \/ Look(c) \/ Show(c)
             \/ LoadSource(c) \/ VerifyCopy(c) \/ Kill(c) \/ Start(c)
      PROVE  Touched
  BY <1>1, <1>6 DEF ReadPlan, Read, Sign, VerifyReceipt, Look, Show, LoadSource,
     VerifyCopy, Kill, Start
<1>7. CASE Edit \/ UNCHANGED vars
  BY <1>1, <1>7 DEF Edit, vars
<1>8. QED BY <1>2, <1>3, <1>4, <1>5, <1>6, <1>7 DEF Next, Build, Use

(* The list changes only by the start of a demo.                            *)
LEMMA Listing ==
  ASSUME BaseInv, [Next]_vars
  PROVE  \/ /\ UNCHANGED <<demos, overlap>>
            /\ \A c \in Commands : pc[c] # "ready" => job'[c] = job[c]
            /\ \A c \in Commands : job'[c] = job[c] \/ (job'[c].kind # "demo" /\ pc[c] = "ready")
         \/ \E c \in Commands :
              /\ Start(c) /\ demos' = Append(demos, c) /\ job'[c].kind = "demo"
              /\ pc[c] = "ready" /\ pc' = [pc EXCEPT ![c] = "plan"] /\ file' = file
              /\ printed' = printed /\ (~overlap' => ~overlap)
              /\ ~overlap' => \A d \in Commands : ~(UnderWay(d) /\ IsDemo(d))
              /\ \A d \in Commands : d # c => job'[d] = job[d]
              /\ overlap' => overlap \/ \E d \in Commands : IsDemo(d)
<1> USE DEF BaseInv, TypeOK, Goto, history, IsDemo
<1>1. ASSUME NEW c \in Commands, Start(c), NEW j \in Jobs, job' = [job EXCEPT ![c] = j],
             Goto(c, FirstStep(j.kind)), j.kind = "demo",
             demos' = Append(demos, c),
             overlap' = (overlap \/ \E d \in Commands : UnderWay(d) /\ job[d].kind = "demo")
      PROVE  /\ Start(c) /\ demos' = Append(demos, c) /\ job'[c].kind = "demo"
             /\ pc[c] = "ready" /\ pc' = [pc EXCEPT ![c] = "plan"] /\ file' = file
             /\ printed' = printed /\ (~overlap' => ~overlap)
             /\ ~overlap' => \A d \in Commands : ~(UnderWay(d) /\ IsDemo(d))
             /\ \A d \in Commands : d # c => job'[d] = job[d]
             /\ overlap' => overlap \/ \E d \in Commands : IsDemo(d)
  <2>1. /\ ~overlap' => ~overlap
        /\ ~overlap' => \A d \in Commands : ~(UnderWay(d) /\ IsDemo(d))
        /\ overlap' => overlap \/ \E d \in Commands : IsDemo(d)
    BY <1>1, Zenon
  <2>2. FirstStep(j.kind) = "plan"
    BY <1>1 DEF FirstStep
  <2>3. job'[c].kind = "demo" /\ \A d \in Commands : d # c => job'[d] = job[d]
    BY <1>1
  <2>4. QED BY <1>1, <2>1, <2>2, <2>3 DEF Start
<1>2. ASSUME NEW c \in Commands, Start(c), NEW j \in Jobs, job' = [job EXCEPT ![c] = j],
             j.kind # "demo", UNCHANGED <<demos, overlap>>
      PROVE  /\ UNCHANGED <<demos, overlap>>
             /\ \A d \in Commands : pc[d] # "ready" => job'[d] = job[d]
             /\ \A d \in Commands : job'[d] = job[d] \/ (job'[d].kind # "demo" /\ pc[d] = "ready")
  BY <1>2 DEF Start
<1>3. ASSUME UNCHANGED <<demos, overlap>>, job' = job
      PROVE  /\ UNCHANGED <<demos, overlap>>
             /\ \A d \in Commands : pc[d] # "ready" => job'[d] = job[d]
             /\ \A d \in Commands : job'[d] = job[d] \/ (job'[d].kind # "demo" /\ pc[d] = "ready")
  BY <1>3
<1>4. ASSUME NEW c \in Commands, Start(c)
      PROVE  \E j \in Jobs : /\ job' = [job EXCEPT ![c] = j] /\ Goto(c, FirstStep(j.kind))
                             /\ IF j.kind = "demo"
                                THEN /\ demos' = Append(demos, c)
                                     /\ overlap' = (overlap \/ \E d \in Commands :
                                          UnderWay(d) /\ job[d].kind = "demo")
                                ELSE UNCHANGED <<demos, overlap>>
  BY <1>4, Zenon DEF Start
<1>5. CASE \A c \in Commands : ~Start(c)
  <2>1. UNCHANGED <<demos, overlap>> /\ job' = job
    BY <1>5 DEF vars, Next, Edit, Build, Use, ReadPlan, Read, EmptyAssessment,
       FillAssessment, Sign, EmptyReceipt, FillReceipt, VerifyReceipt, EmptyPage, FillPage,
       Empty, Fill, Look, Show, LoadSource, EmptyCopy, FillCopy, VerifyCopy, Kill
  <2>2. QED BY <1>3, <2>1
<1>6. QED BY <1>1, <1>2, <1>4, <1>5

(* A command at rest stays there, unless it is ready and starts.            *)
LEMMA Resting ==
  ASSUME BaseInv, [Next]_vars, NEW x \in Commands
  PROVE  /\ pc[x] \in AtRest => pc'[x] = pc[x] \/ (Start(x) /\ pc[x] = "ready")
         /\ pc[x] # "ready" => pc'[x] # "ready"
<1> USE DEF BaseInv
<1>1. CASE Still(x)
  BY <1>1 DEF Still
<1>2. CASE Start(x)
  BY <1>2 DEF Start
<1>3. CASE Build(x) \/ Use(x) \/ Kill(x)
  <2>1. pc[x] \notin AtRest
    BY <1>3 DEF Build, Use, Kill, UnderWay, ReadPlan, Read, EmptyAssessment,
       FillAssessment, Sign, EmptyReceipt, FillReceipt, VerifyReceipt, EmptyPage, FillPage,
       Look, Show, LoadSource, EmptyCopy, FillCopy, VerifyCopy, AtRest, Ended
  <2>2. pc \in [Commands -> Labels]
    BY DEF TypeOK
  <2>3. pc'[x] # "ready"
    BY <1>3, <2>2 DEF Build, Use, Kill, Goto, ReadPlan, Read, EmptyAssessment,
       FillAssessment, Sign, EmptyReceipt, FillReceipt, VerifyReceipt, EmptyPage, FillPage,
       Empty, Fill, Look, Show, LoadSource, EmptyCopy, FillCopy, VerifyCopy
  <2>4. QED BY <2>1, <2>3
<1>4. QED BY <1>1, <1>2, <1>3, OneMoves

(* The list and who is under way, in the words that all the proofs use:      *)
(* either demo c starts, or the list stays and no demo joins those under way. *)
Starts(c) ==
  /\ Start(c) /\ demos' = Append(demos, c) /\ Last' = c /\ Len(demos') = Len(demos) + 1
  /\ demos' # <<>> /\ IsDemo(c)' /\ pc'[c] = "plan" /\ file' = file /\ printed' = printed
  /\ ~overlap' => ~overlap /\ \A d \in Commands : ~(UnderWay(d) /\ IsDemo(d))
  /\ overlap' => overlap \/ \E d \in Commands : IsDemo(d)
  /\ \A d \in Commands \ {c} : (IsDemo(d)' <=> IsDemo(d)) /\ pc'[d] = pc[d]
Continues ==
  /\ demos' = demos /\ overlap' = overlap /\ Last' = Last
  /\ \A d \in Commands : /\ IsDemo(d)' => IsDemo(d)
                         /\ pc[d] # "ready" => job'[d] = job[d]
                         /\ (IsDemo(d) /\ UnderWay(d))' => IsDemo(d) /\ UnderWay(d)

(* The list of demos goes on, or a demo starts.                             *)
LEMMA Course ==
  ASSUME BaseInv, ListInv, [Next]_vars
  PROVE  Continues \/ \E c \in Commands : Starts(c)
<1>1. ASSUME NEW c \in Commands, Start(c), demos' = Append(demos, c), job'[c].kind = "demo",
             pc' = [pc EXCEPT ![c] = "plan"], file' = file, printed' = printed,
             ~overlap' => ~overlap,
             ~overlap' => \A d \in Commands : ~(UnderWay(d) /\ IsDemo(d)),
             \A d \in Commands : d # c => job'[d] = job[d],
             overlap' => overlap \/ \E d \in Commands : IsDemo(d)
      PROVE  Starts(c)
  <2>1. demos \in Seq(Commands) /\ pc \in [Commands -> Labels]
    BY DEF BaseInv, TypeOK
  <2>2. /\ Len(demos') = Len(demos) + 1 /\ demos'[Len(demos) + 1] = c /\ Len(demos) \in Nat
        /\ demos' # <<>>
    BY <1>1, <2>1, AppendProperties, LenProperties
  <2>3. Last' = c
    BY <2>2 DEF Last
  <2>4. pc'[c] = "plan" /\ \A d \in Commands \ {c} : pc'[d] = pc[d]
    BY <1>1, <2>1
  <2>5. QED BY <1>1, <2>2, <2>3, <2>4 DEF Starts, IsDemo
<1>2. ASSUME UNCHANGED <<demos, overlap>>,
             \A d \in Commands : pc[d] # "ready" => job'[d] = job[d],
             \A d \in Commands : job'[d] = job[d] \/ (job'[d].kind # "demo" /\ pc[d] = "ready")
      PROVE  Continues
  <2>1. Last' = Last
    BY <1>2 DEF Last
  <2>2. ASSUME NEW d \in Commands, IsDemo(d)'
        PROVE  IsDemo(d) /\ (UnderWay(d)' => UnderWay(d))
    <3>1. IsDemo(d)
      BY <1>2, <2>2 DEF IsDemo
    <3>2. pc[d] # "ready"
      BY <3>1 DEF ListInv
    <3>3. QED BY <3>1, <3>2, Resting DEF UnderWay
  <2>3. QED BY <1>2, <2>1, <2>2 DEF Continues
<1>3. QED BY <1>1, <1>2, Listing

(* Every step keeps the list. *)
LEMMA ListStep == ASSUME BaseInv, ListInv, [Next]_vars PROVE ListInv'
<1>0. Len(demos) \in Nat /\ (demos = <<>> <=> Len(demos) = 0)
      /\ (demos # <<>> => Last \in Commands)
  BY LastOfDemos DEF BaseInv
<1>1. CASE Continues
  <2>1. \A c \in Commands : IsDemo(c)' => pc'[c] # "ready" /\ demos' # <<>>
    BY <1>1, Resting DEF Continues, ListInv
  <2>2. demos' # <<>> => IsDemo(Last)'
    <3> SUFFICES ASSUME demos # <<>> PROVE IsDemo(Last)'
      BY <1>1 DEF Continues
    <3>1. PICK d \in Commands : d = Last /\ IsDemo(d)
      BY <1>0 DEF ListInv
    <3>2. job'[d] = job[d] /\ Last' = d
      BY <1>1, <3>1 DEF Continues, ListInv
    <3>3. QED BY <3>1, <3>2 DEF IsDemo
  <2>3. overlap' => Len(demos') > 1
    BY <1>1 DEF Continues, ListInv
  <2>4. QED BY <2>1, <2>2, <2>3 DEF ListInv
<1>2. ASSUME NEW c \in Commands, Starts(c) PROVE ListInv'
  <2>1. \A d \in Commands : IsDemo(d)' => pc'[d] # "ready" /\ demos' # <<>>
    BY <1>2 DEF Starts, ListInv
  <2>2. IsDemo(Last)'
    BY <1>2 DEF Starts, IsDemo
  <2>3. overlap' => Len(demos') > 1
    BY <1>0, <1>2 DEF Starts, ListInv
  <2>4. QED BY <2>1, <2>2, <2>3 DEF ListInv
<1>3. QED BY <1>1, <1>2, Course

(* Every step keeps demos that do not overlap in a row. *)
LEMMA SerialStep == ASSUME BaseInv, ListInv, SerialInv, [Next]_vars PROVE SerialInv'
<1> SUFFICES ASSUME ~overlap', NEW c \in Commands, (IsDemo(c) /\ UnderWay(c))'
             PROVE  c = Last'
  BY DEF SerialInv
<1>1. CASE Continues
  BY <1>1 DEF Continues, SerialInv
<1>2. ASSUME NEW d \in Commands, Starts(d) PROVE c = Last'
  BY <1>2 DEF Starts, UnderWay
<1>3. QED BY <1>1, <1>2, Course

(* The three artifacts of demos that do not overlap are written by the last. *)
LEMMA OwnFiles ==
  ASSUME BaseInv, ListInv, SerialInv, [Next]_vars, ~overlap
  PROVE  /\ file'["assessment"] = file["assessment"]
            \/ EmptyAssessment(Last) \/ FillAssessment(Last)
         /\ file'["receipt"] = file["receipt"] \/ EmptyReceipt(Last) \/ FillReceipt(Last)
         /\ \/ file'["page"] = file["page"]
            \/ demos # <<>> /\ (EmptyPage(Last) \/ FillPage(Last))
<1> USE DEF BaseInv
<1>1. ASSUME NEW c \in Commands, EmptyAssessment(c) \/ FillAssessment(c) PROVE c = Last
  <2>1. pc[c] \in DemoOnly /\ UnderWay(c)
    BY <1>1 DEF EmptyAssessment, FillAssessment, DemoOnly, UnderWay, AtRest, Ended
  <2>2. QED BY <2>1 DEF Stages, KindOK, IsDemo, SerialInv
<1>2. ASSUME NEW c \in Commands, IsDemo(c), EmptyReceipt(c) \/ FillReceipt(c) PROVE c = Last
  BY <1>2 DEF EmptyReceipt, FillReceipt, UnderWay, AtRest, Ended, SerialInv
<1>3. ASSUME NEW c \in Commands, EmptyPage(c) \/ FillPage(c)
      PROVE  c = Last /\ demos # <<>>
  <2>1. pc[c] \in DemoOnly /\ UnderWay(c)
    BY <1>3 DEF EmptyPage, FillPage, DemoOnly, UnderWay, AtRest, Ended
  <2>2. QED BY <2>1 DEF Stages, KindOK, IsDemo, SerialInv, ListInv
<1>4. QED BY <1>1, <1>2, <1>3, Touching DEF Touched

(* What the last demo has left stays until it writes again.                 *)
LEMMA LastStep ==
  ASSUME BaseInv, ListInv, SerialInv, LastInv, [Next]_vars
  PROVE  LastInv'
<1> SUFFICES ASSUME ~overlap', demos' # <<>>
             PROVE  /\ AssessmentDone(Last)' => file'["assessment"] = Last'
                    /\ pc'[Last'] \in {"verify", "page", "fill_page", "0"} =>
                         file'["receipt"] = held'[Last']
                    /\ pc'[Last'] \in {"page", "fill_page", "0"} => Verifies(file'["receipt"])
                    /\ pc'[Last'] = "0" => file'["page"] = [by |-> Last', receipt |-> held'[Last']]
  BY DEF LastInv
<1> USE DEF BaseInv
<1>1. ASSUME NEW c \in Commands, Starts(c)
      PROVE  /\ ~AssessmentDone(Last)'
             /\ pc'[Last'] = "plan"
  BY <1>1 DEF Starts, AssessmentDone, Holding
<1>2. CASE Continues
  <2>1. ~overlap /\ demos # <<>>
    BY <1>2 DEF Continues
  <2>2. PICK d \in Commands : d = Last /\ d = Last' /\ IsDemo(d) /\ pc[d] # "ready"
    BY <1>2, <2>1, LastOfDemos DEF Continues, ListInv
  <2>3. /\ AssessmentDone(d) => file["assessment"] = d
        /\ pc[d] \in {"verify", "page", "fill_page", "0"} => file["receipt"] = held[d]
        /\ pc[d] \in {"page", "fill_page", "0"} => Verifies(file["receipt"])
        /\ pc[d] = "0" => file["page"] = [by |-> d, receipt |-> held[d]]
    BY <2>1, <2>2 DEF LastInv
  <2>4. /\ file'["assessment"] = file["assessment"] \/ EmptyAssessment(d) \/ FillAssessment(d)
        /\ file'["receipt"] = file["receipt"] \/ EmptyReceipt(d) \/ FillReceipt(d)
        /\ file'["page"] = file["page"] \/ EmptyPage(d) \/ FillPage(d)
    BY <2>1, <2>2, OwnFiles
  <2>5. /\ pc \in [Commands -> Labels] /\ at \in [Commands -> Nat]
        /\ held \in [Commands -> Signed \cup {Absent}]
        /\ DOMAIN file = Files /\ {"assessment", "receipt", "page"} \subseteq Files
        /\ Len(Prompts) = N /\ N \in Nat \ {0}
    BY Parts, Lists DEF TypeOK, Files, Receipts
  <2> DEFINE Q == /\ (pc'[d] \in {"sign", "0"} \cup Holding \/ (pc'[d] = "read" /\ at'[d] > N)) =>
                        file'["assessment"] = d
                  /\ pc'[d] \in {"verify", "page", "fill_page", "0"} =>
                       file'["receipt"] = held'[d]
                  /\ pc'[d] \in {"page", "fill_page", "0"} => Verifies(file'["receipt"])
                  /\ pc'[d] = "0" => file'["page"] = [by |-> d, receipt |-> held'[d]]
  <2> USE DEF Goto, memory, Holding, AssessmentDone
  <2>6. CASE Still(d)
    <3>1. ~(EmptyAssessment(d) \/ FillAssessment(d) \/ EmptyReceipt(d) \/ FillReceipt(d)
            \/ EmptyPage(d) \/ FillPage(d))
      BY <2>2, <2>5, <2>6 DEF Still, EmptyAssessment, FillAssessment, EmptyReceipt,
         FillReceipt, EmptyPage, FillPage, Empty, Fill, IsDemo
    <3>2. Q
      BY <2>3, <2>4, <2>6, <3>1 DEF Still
    <3>3. QED BY <2>2, <3>2
  <2>7. CASE ReadPlan(d)
    <3>1. pc'[d] \in {"read", "raised", "1"} /\ at'[d] = at[d] /\ pc[d] = "plan"
      BY <2>5, <2>7 DEF ReadPlan
    <3>2. at[d] = 1
      BY <3>1 DEF Stages, PlaceOK
    <3>3. Q
      BY <2>5, <3>1, <3>2
    <3>4. QED BY <2>2, <3>3
  <2>8. CASE Read(d)
    <3>1. /\ pc[d] = "read" /\ at'[d] = at[d] + 1 /\ held' = held /\ file' = file
          /\ pc'[d] = IF at[d] = Len(Prompts) THEN "assessment"
                      ELSE IF at[d] = Len(Readings(job[d].kind)) THEN "sign" ELSE "read"
      BY <2>2, <2>5, <2>8 DEF Read, IsDemo
    <3>2. at[d] \in Nat /\ Len(Readings(job[d].kind)) = 3 * N + 5
      BY <2>2, <2>5, ReadingLists DEF IsDemo
    <3>3. pc'[d] \in {"sign", "read"} /\ (pc'[d] = "read" => at'[d] > N) => at[d] > N
      BY <2>5, <3>1, <3>2
    <3>4. Q
      BY <2>3, <3>1, <3>3
    <3>5. QED BY <2>2, <3>4
  <2>9. CASE EmptyAssessment(d)
    <3>1. pc'[d] = "fill_assessment"
      BY <2>5, <2>9 DEF EmptyAssessment, Empty
    <3>2. QED BY <2>2, <3>1
  <2>10. CASE FillAssessment(d)
    <3>1. pc'[d] = "read" /\ file'["assessment"] = d
      BY <2>5, <2>10 DEF FillAssessment, Fill
    <3>2. QED BY <2>2, <3>1
  <2>11. CASE Sign(d)
    <3>1. pc[d] = "sign" /\ pc'[d] = "receipt" /\ file' = file
      BY <2>5, <2>11 DEF Sign
    <3>2. QED BY <2>2, <2>3, <3>1
  <2>12. CASE EmptyReceipt(d)
    <3>1. /\ pc[d] = "receipt" /\ pc'[d] = "fill_receipt"
          /\ file'["assessment"] = file["assessment"]
      BY <2>2, <2>5, <2>12 DEF EmptyReceipt, Empty, ReceiptFile, IsDemo
    <3>2. QED BY <2>2, <2>3, <3>1
  <2>13. CASE FillReceipt(d)
    <3>1. /\ pc[d] = "fill_receipt" /\ pc'[d] = "verify" /\ held' = held
          /\ file'["assessment"] = file["assessment"] /\ file'["receipt"] = held[d]
      BY <2>2, <2>5, <2>13 DEF FillReceipt, Fill, ReceiptFile, IsDemo
    <3>2. QED BY <2>2, <2>3, <3>1
  <2>14. CASE VerifyReceipt(d)
    <3>1. /\ pc[d] = "verify" /\ held' = held /\ file' = file
          /\ pc'[d] \in {"page", "1", "raised"}
          /\ pc'[d] = "page" => Verifies(file["receipt"])
      BY <2>5, <2>14 DEF VerifyReceipt
    <3>2. Q
      BY <2>3, <3>1
    <3>3. QED BY <2>2, <3>2
  <2>15. CASE EmptyPage(d)
    <3>1. /\ pc[d] = "page" /\ pc'[d] = "fill_page" /\ held' = held
          /\ file'["assessment"] = file["assessment"] /\ file'["receipt"] = file["receipt"]
      BY <2>5, <2>15 DEF EmptyPage, Empty
    <3>2. Q
      BY <2>3, <3>1
    <3>3. QED BY <2>2, <3>2
  <2>16. CASE FillPage(d)
    <3>1. /\ pc[d] = "fill_page" /\ pc'[d] = "0" /\ held' = held
          /\ file'["assessment"] = file["assessment"] /\ file'["receipt"] = file["receipt"]
          /\ file'["page"] = [by |-> d, receipt |-> held[d]]
      BY <2>5, <2>16 DEF FillPage, Fill
    <3>2. Q
      BY <2>3, <3>1
    <3>3. QED BY <2>2, <3>2
  <2>17. CASE Kill(d)
    <3>1. pc'[d] = "killed"
      BY <2>5, <2>17 DEF Kill
    <3>2. QED BY <2>2, <3>1
  <2>18. ~Start(d) /\ ~Use(d)
    BY <2>2 DEF Start, Use, Look, Show, LoadSource, EmptyCopy, FillCopy, VerifyCopy, Stages,
       KindOK, Breaking, IsDemo
  <2>19. QED
    BY <2>6, <2>7, <2>8, <2>9, <2>10, <2>11, <2>12, <2>13, <2>14, <2>15, <2>16, <2>17,
       <2>18, OneMoves DEF Build
<1>3. QED
  <2>1. ASSUME NEW c \in Commands, Starts(c)
        PROVE  pc'[Last'] \notin {"verify", "page", "fill_page", "0"} /\ ~AssessmentDone(Last)'
    BY <1>1, <2>1
  <2>2. QED BY <1>2, <2>1, Course

(* A page of demos that do not overlap shows what was verified.             *)
LEMMA PagesStep ==
  ASSUME BaseInv, ListInv, SerialInv, LastInv, PagesVerify, [Next]_vars
  PROVE  PagesVerify'
<1> SUFFICES ASSUME ~overlap', Readable(file'["page"])
             PROVE  Verifies(file'["page"].receipt)
  BY DEF PagesVerify, PageVerifies, Readable, Verifies, Intact
<1> USE DEF BaseInv
<1>1. ~overlap
  BY Course DEF Continues, Starts
<1>2. CASE file'["page"] = file["page"]
  BY <1>1, <1>2 DEF PagesVerify, PageVerifies
<1>3. CASE EmptyPage(Last)
  BY <1>3 DEF EmptyPage, Empty, TypeOK, Files, Readable
<1>4. CASE demos # <<>> /\ FillPage(Last)
  <2>1. pc[Last] = "fill_page" /\ file'["page"] = [by |-> Last, receipt |-> held[Last]]
    BY <1>4 DEF FillPage, Fill, TypeOK, Files
  <2>2. file["receipt"] = held[Last] /\ Verifies(file["receipt"])
    BY <1>1, <1>4, <2>1 DEF LastInv
  <2>3. QED BY <2>1, <2>2
<1>5. QED BY <1>1, <1>2, <1>3, <1>4, OwnFiles

(* After one demo there is a page only if its receipt was verified, which is *)
(* what an inspect that found the page shows.                               *)
LEMMA FirstRunStep ==
  ASSUME BaseInv, ListInv, SerialInv, LastInv, FirstInv, [Next]_vars
  PROVE  FirstInv'
<1> SUFFICES ASSUME Len(demos') <= 1
    PROVE /\ file'["page"] # Absent \/ (\E c \in Commands : pc'[c] = "show") =>
               /\ demos' # <<>> /\ pc'[Last'] \in {"fill_page", "0", "killed"}
               /\ Verifies(file'["receipt"])
          /\ \A c \in Commands : printed'[c] # Absent => Verifies(printed'[c])
  BY DEF FirstInv, Verifies, Intact, Readable
<1> USE DEF BaseInv
<1>0. /\ Len(demos) \in Nat /\ (demos = <<>> <=> Len(demos) = 0)
      /\ (demos # <<>> => Last \in Commands)
      /\ pc \in [Commands -> Labels] /\ printed \in [Commands -> Signed \cup {Absent}]
      /\ DOMAIN file = Files /\ {"assessment", "receipt", "page"} \subseteq Files
  BY LastOfDemos DEF TypeOK, Files, Receipts
<1>1. Len(demos) <= 1
  BY <1>0, Course DEF Continues, Starts
<1>2. ~overlap
  BY <1>0, <1>1 DEF ListInv
<1>3. /\ file["page"] # Absent \/ (\E c \in Commands : pc[c] = "show") =>
           /\ demos # <<>> /\ pc[Last] \in {"fill_page", "0", "killed"}
           /\ Verifies(file["receipt"])
      /\ \A c \in Commands : printed[c] # Absent => Verifies(printed[c])
  BY <1>1 DEF FirstInv
<1>4. \A c \in Commands : printed'[c] # Absent => Verifies(printed'[c])
  <2> SUFFICES ASSUME NEW c \in Commands, printed'[c] # Absent PROVE Verifies(printed'[c])
    OBVIOUS
  <2>1. CASE Show(c)
    <3>1. Verifies(file["receipt"])
      BY <1>3, <2>1 DEF Show
    <3>2. printed'[c] = file["receipt"]
      BY <1>0, <2>1, <3>1 DEF Show, Verifies, Intact
    <3>3. QED BY <3>1, <3>2
  <2>2. CASE ~Show(c)
    <3>1. printed'[c] = printed[c]
      BY <2>2, OneMoves DEF Still, Build, Use, Start, Kill, history, ReadPlan, Read,
         EmptyAssessment, FillAssessment, Sign, EmptyReceipt, FillReceipt, VerifyReceipt,
         EmptyPage, FillPage, Empty, Fill, Look, LoadSource, EmptyCopy, FillCopy, VerifyCopy
    <3>2. QED BY <1>3, <3>1
  <2>3. QED BY <2>1, <2>2
<1>5. ASSUME NEW c \in Commands, pc'[c] = "show"
      PROVE  file["page"] # Absent \/ pc[c] = "show"
  <2>1. CASE Still(c)
    BY <1>5, <2>1 DEF Still
  <2>2. CASE Look(c)
    BY <1>0, <1>5, <2>2 DEF Look, Goto
  <2>3. CASE Start(c) \/ Build(c) \/ Show(c) \/ LoadSource(c) \/ EmptyCopy(c) \/ FillCopy(c)
             \/ VerifyCopy(c) \/ Kill(c)
    BY <1>0, <1>5, <2>3 DEF Start, FirstStep, Goto, Build, ReadPlan, Read, EmptyAssessment,
       FillAssessment, Sign, EmptyReceipt, FillReceipt, VerifyReceipt, EmptyPage, FillPage,
       Empty, Fill, Show, LoadSource, EmptyCopy, FillCopy, VerifyCopy, Kill
  <2>4. QED BY <2>1, <2>2, <2>3, OneMoves DEF Use
<1>6. ASSUME file["page"] # Absent \/ (\E c \in Commands : pc[c] = "show")
      PROVE  /\ demos' # <<>> /\ pc'[Last'] \in {"fill_page", "0", "killed"}
             /\ Verifies(file'["receipt"])
  <2>1. /\ demos # <<>> /\ pc[Last] \in {"fill_page", "0", "killed"} /\ Verifies(file["receipt"])
    BY <1>3, <1>6
  <2>2. Continues
    <3>1. ASSUME NEW c \in Commands, Starts(c) PROVE FALSE
      BY <1>0, <2>1, <3>1 DEF Starts
    <3>2. QED BY <3>1, Course
  <2>3. PICK d \in Commands : d = Last /\ d = Last' /\ IsDemo(d)
    BY <1>0, <2>1, <2>2 DEF Continues, ListInv
  <2>4. file'["receipt"] = file["receipt"]
    BY <1>2, <2>1, OwnFiles DEF EmptyReceipt, FillReceipt
  <2>5. pc'[d] \in {"fill_page", "0", "killed"}
    <3>1. CASE pc[d] \in {"0", "killed"}
      BY <3>1, Resting DEF AtRest, Ended
    <3>2. CASE pc[d] = "fill_page"
      <4>1. Still(d) \/ FillPage(d) \/ Kill(d)
        BY <3>2, OneMoves DEF Start, Build, Use, ReadPlan, Read, EmptyAssessment,
           FillAssessment, Sign, EmptyReceipt, FillReceipt, VerifyReceipt, EmptyPage, Look,
           Show, LoadSource, EmptyCopy, FillCopy, VerifyCopy
      <4>2. QED BY <1>0, <3>2, <4>1 DEF Still, FillPage, Fill, Kill, Goto
    <3>3. QED BY <2>1, <2>3, <3>1, <3>2
  <2>6. QED BY <2>1, <2>2, <2>3, <2>4, <2>5 DEF Continues
<1>7. ASSUME file["page"] = Absent, file'["page"] # Absent
      PROVE  /\ demos' # <<>> /\ pc'[Last'] \in {"fill_page", "0", "killed"}
             /\ Verifies(file'["receipt"])
  <2>1. demos # <<>> /\ (EmptyPage(Last) \/ FillPage(Last))
    BY <1>2, <1>7, OwnFiles
  <2>2. PICK d \in Commands : d = Last
    BY <1>0, <2>1
  <2>3. /\ pc[d] \in {"page", "fill_page"} /\ pc'[d] \in {"fill_page", "0"} /\ demos' = demos
        /\ file'["receipt"] = file["receipt"]
    BY <1>0, <2>1, <2>2 DEF EmptyPage, FillPage, Empty, Fill, Goto, history
  <2>4. Verifies(file["receipt"])
    BY <1>2, <2>1, <2>2, <2>3 DEF LastInv
  <2>5. Last' = d
    BY <2>2, <2>3 DEF Last
  <2>6. QED BY <2>1, <2>3, <2>4, <2>5
<1>8. QED BY <1>4, <1>5, <1>6, <1>7

(* The inductive invariant. *)
THEOREM RunInvariance == Spec => []RunInv
<1>1. Init => BaseInv
  BY InitialBase
<1>2. Init => ListInv /\ SerialInv /\ LastInv /\ FirstInv /\ PagesVerify
  <2> SUFFICES ASSUME Init
               PROVE  ListInv /\ SerialInv /\ LastInv /\ FirstInv /\ PagesVerify
    OBVIOUS
  <2>1. /\ \A c \in Commands : job[c].kind = "inspect" /\ pc[c] = "ready" /\ printed[c] = Absent
        /\ demos = <<>> /\ \A f \in Files : file[f] = Absent
    BY DEF Init
  <2>2. ~overlap
    BY DEF Init
  <2>3. ListInv /\ SerialInv /\ LastInv
    BY <2>1, <2>2 DEF ListInv, SerialInv, LastInv, IsDemo
  <2>4. file["page"] = Absent
    BY <2>1 DEF Files
  <2>5. FirstInv /\ PagesVerify
    BY <2>1, <2>4 DEF FirstInv, PagesVerify, PageVerifies, Readable
  <2>6. QED BY <2>3, <2>5
<1>3. RunInv /\ [Next]_vars => RunInv'
  <2> SUFFICES ASSUME RunInv, [Next]_vars PROVE RunInv'
    OBVIOUS
  <2>1. BaseInv'
    BY TypeStep, StageStep, DigitsStep DEF RunInv, BaseInv
  <2>2. QED BY <2>1, ListStep, SerialStep, LastStep, FirstRunStep, PagesStep DEF RunInv
<1>4. QED BY <1>1, <1>2, <1>3, PTL DEF Spec, RunInv

(***************************************************************************)
(* When the last of any number of demos that did not overlap has succeeded, *)
(* the receipt, the assessment and the page in the directory are its own    *)
(* and belong together, whatever became of the earlier ones.                *)
(***************************************************************************)
THEOREM OneRun == Spec => []DirectoryIsOneRun
<1>1. RunInv => DirectoryIsOneRun
  <2> SUFFICES ASSUME RunInv, demos # <<>>, ~overlap, pc[Last] = "0"
               PROVE  /\ Verifies(file["receipt"]) /\ file["assessment"] = file["receipt"].by
                      /\ file["page"] = [by |-> file["assessment"], receipt |-> file["receipt"]]
    BY DEF DirectoryIsOneRun, Last
  <2>1. PICK d \in Commands : d = Last /\ IsDemo(d)
    BY LastOfDemos DEF RunInv, BaseInv, ListInv
  <2>2. /\ file["assessment"] = d /\ file["receipt"] = held[d] /\ Verifies(file["receipt"])
        /\ file["page"] = [by |-> d, receipt |-> held[d]]
    BY <2>1 DEF RunInv, LastInv, AssessmentDone
  <2>3. held[d].by = d
    BY <2>1 DEF RunInv, BaseInv, Stages, HeldOK, IsDemo
  <2>4. QED BY <2>2, <2>3
<1>2. QED BY <1>1, RunInvariance, PTL

(* A page of demos that do not overlap shows a receipt that verifies.       *)
THEOREM Pages == Spec => []PagesVerify
BY RunInvariance, PTL DEF RunInv

(* The receipt that inspect shows of the only demo was verified.            *)
THEOREM Inspections == Spec => []InspectionMeansVerified
<1>1. RunInv => InspectionMeansVerified
  BY LastOfDemos DEF RunInv, BaseInv, FirstInv, InspectionMeansVerified
<1>2. QED BY <1>1, RunInvariance, PTL
=============================================================================
