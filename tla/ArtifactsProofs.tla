--------------------------- MODULE ArtifactsProofs ---------------------------
(***************************************************************************)
(* Proofs about Artifacts, for any number of providers, commands, edits and *)
(* kills: types, tampered copies, and what a directory of artifacts means.  *)
(***************************************************************************)
EXTENDS Artifacts, SequenceTheorems, TLAPS

(* The steps of a command that builds a receipt, and those after it is signed. *)
DemoOnly == {"assessment", "fill_assessment", "verify", "page", "fill_page"}
Building == DemoOnly \cup {"plan", "read", "sign", "receipt", "fill_receipt"}
Holding == {"receipt", "fill_receipt", "verify", "page", "fill_page"}
Breaking == {"load", "copy", "fill_copy", "verify_copy"}

(* Each command is at a step of its kind. *)
KindOK(c) ==
  /\ pc[c] \in Building => job[c].kind \in {"demo", "run-mock"}
  /\ pc[c] \in DemoOnly => job[c].kind = "demo"
  /\ pc[c] \in {"look", "show"} => job[c].kind = "inspect"
  /\ pc[c] \in Breaking => job[c].kind = "break-receipt"
  /\ job[c].kind = "break-receipt" => job[c].source \in Sources

(* A command that reads has not come to the end of its list. *)
PlaceOK(c) ==
  /\ pc[c] \in {"ready", "plan"} => at[c] = 1
  /\ pc[c] \in {"assessment", "fill_assessment"} => at[c] = Len(Prompts) + 1
  /\ pc[c] = "read" => at[c] \in 1..Len(Readings(job[c].kind))

(* What a builder holds is a receipt of its own, what a breaker holds is none *)
(* that a builder made.                                                      *)
HeldOK(c) ==
  /\ pc[c] \in Holding \/ (pc[c] = "0" /\ job[c].kind = "demo") =>
       /\ held[c] \in Signed /\ held[c].by = c /\ held[c].kind = job[c].kind
       /\ held[c].digit = held[c].made
  /\ pc[c] \in {"copy", "fill_copy"} /\ job[c].source # "receipt_tampered" =>
       held[c].digit # held[c].made

Stages == \A c \in Commands : KindOK(c) /\ PlaceOK(c) /\ HeldOK(c)

(* The receipts that a builder wrote have the digit that was signed, the     *)
(* copies of those have not.                                                *)
DigitsInv ==
  /\ \A f \in {"receipt", "local_receipt"} :
       Readable(file[f]) => file[f].digit = file[f].made
  /\ \A f \in {"receipt_tampered", "local_tampered"} :
       Readable(file[f]) => file[f].digit # file[f].made

BaseInv == TypeOK /\ Stages /\ DigitsInv

-----------------------------------------------------------------------------
N == Len(Providers)
AnyReading == [use : Uses, file : Scenario]

(* A function on 1..n is a sequence of length n. *)
LEMMA FunctionIsSeq ==
  ASSUME NEW S, NEW n \in Nat, NEW f \in [1..n -> S]
  PROVE  f \in Seq(S) /\ Len(f) = n
<1>1. [1..n -> S] \in {[1..m -> S] : m \in Nat}
  OBVIOUS
<1>2. f \in Seq(S)
  BY <1>1, SeqDef
<1>3. Len(f) \in Nat /\ 1..Len(f) = 1..n
  BY <1>2, LenProperties
<1>4. QED BY <1>2, <1>3

(* A reading for each provider, in their order. *)
LEMMA Lists ==
  /\ N \in Nat \ {0} /\ DOMAIN Providers = 1..N
  /\ \A n \in 1..N : Providers[n] \in Fragments
  /\ \A use : /\ ForEach(use) \in Seq([use : {use}, file : Fragments])
              /\ Len(ForEach(use)) = N
              /\ \A n \in 1..N : ForEach(use)[n] = Reading(use, Providers[n])
<1>1. Providers \in Seq(Fragments) /\ Providers # <<>>
  BY ProviderAssumption
<1>2. N \in Nat \ {0} /\ DOMAIN Providers = 1..N /\ \A n \in 1..N : Providers[n] \in Fragments
  BY <1>1, EmptySeq, LenProperties, ElementOfSeq DEF N
<1>3. ASSUME NEW use
      PROVE  /\ ForEach(use) \in Seq([use : {use}, file : Fragments])
             /\ Len(ForEach(use)) = N
             /\ \A n \in 1..N : ForEach(use)[n] = Reading(use, Providers[n])
  <2>1. ForEach(use) \in [1..N -> [use : {use}, file : Fragments]]
    BY <1>2 DEF ForEach, Reading
  <2>2. ForEach(use) \in Seq([use : {use}, file : Fragments]) /\ Len(ForEach(use)) = N
    BY <1>2, <2>1, FunctionIsSeq
  <2>3. \A n \in 1..N : ForEach(use)[n] = Reading(use, Providers[n])
    BY <1>2 DEF ForEach
  <2>4. QED BY <2>2, <2>3
<1>4. QED BY <1>2, <1>3

(* The middle of demo's list. *)
Extras == <<Reading("tokens", "local"), Reading("hash", "original"),
            Reading("tokens", "original")>>

(* The parts of the lists, and how long they are. *)
LEMMA Parts ==
  /\ Prompts \in Seq(AnyReading) /\ Len(Prompts) = N
  /\ ForEach("tokens") \in Seq(AnyReading) /\ Len(ForEach("tokens")) = N
  /\ Body \in Seq(AnyReading) /\ Len(Body) = N + 2
  /\ \A n \in 1..(N + 2) : Body[n] = IF n = 1 THEN Reading("ratio", "original")
       ELSE IF n = N + 2 THEN Reading("fingerprint", "local")
       ELSE Reading("event", Providers[n - 1])
  /\ Extras \in Seq(AnyReading) /\ Len(Extras) = 3
<1>1. \A use \in Uses : ForEach(use) \in Seq(AnyReading)
  <2> SUFFICES ASSUME NEW use \in Uses PROVE ForEach(use) \in Seq(AnyReading)
    OBVIOUS
  <2>1. [use : {use}, file : Fragments] \subseteq AnyReading
    BY DEF AnyReading, Scenario
  <2>2. QED BY <2>1, Lists, SeqMonotonic
<1>2. /\ <<Reading("ratio", "original")>> \in Seq(AnyReading)
      /\ <<Reading("fingerprint", "local")>> \in Seq(AnyReading)
      /\ Extras \in Seq(AnyReading) /\ Len(Extras) = 3
  BY DEF Reading, AnyReading, Uses, Scenario, Extras
<1>3. ForEach("event") \in Seq(AnyReading) /\ Len(ForEach("event")) = N /\ N \in Nat
  BY <1>1, Lists DEF Uses
<1> DEFINE A == <<Reading("ratio", "original")>> \o ForEach("event")
<1>4. /\ A \in Seq(AnyReading) /\ Len(A) = N + 1
      /\ \A n \in 1..(N + 1) : A[n] = IF n <= 1 THEN <<Reading("ratio", "original")>>[n]
                                      ELSE ForEach("event")[n - 1]
  <2>1. Len(<<Reading("ratio", "original")>>) = 1
    OBVIOUS
  <2>2. QED BY <1>2, <1>3, <2>1, ConcatProperties
<1>5. /\ Body \in Seq(AnyReading) /\ Len(Body) = N + 2
      /\ \A n \in 1..(N + 2) : Body[n] = IF n <= N + 1 THEN A[n]
                                      ELSE <<Reading("fingerprint", "local")>>[n - (N + 1)]
  <2>1. Len(<<Reading("fingerprint", "local")>>) = 1
    OBVIOUS
  <2>2. Body = A \o <<Reading("fingerprint", "local")>>
    BY DEF Body
  <2> HIDE DEF A
  <2>3. QED BY <1>2, <1>3, <1>4, <2>1, <2>2, ConcatProperties
<1> HIDE DEF A
<1>6. ASSUME NEW n \in 1..(N + 2)
      PROVE  Body[n] = IF n = 1 THEN Reading("ratio", "original")
                       ELSE IF n = N + 2 THEN Reading("fingerprint", "local")
                       ELSE Reading("event", Providers[n - 1])
  <2>1. CASE n = 1
    BY <1>3, <1>4, <1>5, <2>1
  <2>2. CASE n = N + 2
    <3>1. n - (N + 1) = 1 /\ ~(n <= N + 1) /\ n # 1
      BY <1>3, <2>2
    <3>2. Body[n] = <<Reading("fingerprint", "local")>>[1]
      BY <1>5, <3>1
    <3>3. QED BY <2>2, <3>1, <3>2
  <2>3. CASE n # 1 /\ n # N + 2
    <3>1. n - 1 \in 1..N /\ n \in 1..(N + 1) /\ ~(n <= 1) /\ n <= N + 1
      BY <1>3, <2>3
    <3>2. Body[n] = A[n] /\ A[n] = ForEach("event")[n - 1]
      BY <1>4, <1>5, <3>1
    <3>3. ForEach("event")[n - 1] = Reading("event", Providers[n - 1])
      BY <3>1, Lists
    <3>4. QED BY <2>3, <3>2, <3>3
  <2>4. QED BY <2>1, <2>2, <2>3
<1>7. QED BY <1>1, <1>2, <1>5, <1>6, Lists DEF Prompts, Uses

(* The lists of the two kinds of builder. *)
LEMMA ReadingLists ==
  ASSUME NEW kind
  PROVE  /\ Readings(kind) \in Seq(AnyReading) /\ Len(Readings(kind)) \in Nat \ {0}
         /\ kind = "demo" => Len(Readings(kind)) = 3 * N + 5
         /\ kind # "demo" =>
              Readings(kind) = IF plan = "pair" THEN Prompts \o Body ELSE Body
<1>1. N \in Nat
  BY Lists
<1> DEFINE B == Prompts \o Body
           C == B \o Extras
           D == C \o ForEach("tokens")
<1>2. B \in Seq(AnyReading) /\ Len(B) = 2 * N + 2
  <2>1. B \in Seq(AnyReading) /\ Len(B) = Len(Prompts) + Len(Body)
    BY Parts, ConcatProperties
  <2>2. QED BY <1>1, <2>1, Parts
<1>3. C \in Seq(AnyReading) /\ Len(C) = 2 * N + 5
  <2> HIDE DEF B
  <2>1. C \in Seq(AnyReading) /\ Len(C) = Len(B) + Len(Extras)
    BY <1>2, Parts, ConcatProperties
  <2>2. QED BY <1>1, <1>2, <2>1, Parts
<1>4. D \in Seq(AnyReading) /\ Len(D) = 3 * N + 5
  <2> HIDE DEF C
  <2>1. D \in Seq(AnyReading) /\ Len(D) = Len(C) + Len(ForEach("tokens"))
    BY <1>3, Parts, ConcatProperties
  <2>2. Len(ForEach("tokens")) = N
    BY Parts
  <2> HIDE DEF D
  <2>3. QED BY <1>1, <1>3, <2>1, <2>2
<1>5. kind = "demo" => Readings(kind) = D
  BY DEF Readings, Extras
<1>6. kind # "demo" => Readings(kind) = IF plan = "pair" THEN Prompts \o Body ELSE Body
  BY DEF Readings
<1> HIDE DEF D
<1>7. CASE kind = "demo"
  BY <1>1, <1>4, <1>5, <1>7
<1>8. CASE kind # "demo"
  <2>1. Body \in Seq(AnyReading) /\ Len(Body) \in Nat \ {0}
    BY <1>1, Parts
  <2>2. Prompts \o Body \in Seq(AnyReading) /\ Len(Prompts \o Body) \in Nat \ {0}
    BY <1>1, <1>2
  <2>3. QED BY <1>6, <1>8, <2>1, <2>2
<1>9. QED BY <1>7, <1>8

-----------------------------------------------------------------------------

(* What is in the files after a step: what was, nothing yet, or what the     *)
(* command of the step puts there.                                          *)
Puts(c, f) ==
  \/ f = "assessment" /\ file'[f] = c /\ pc[c] = "fill_assessment"
  \/ f = "page" /\ file'[f] = [by |-> c, receipt |-> held[c]] /\ pc[c] = "fill_page"
  \/ f = ReceiptFile(c) /\ file'[f] = held[c] /\ pc[c] = "fill_receipt"
  \/ f = Copy(job[c].source) /\ file'[f] = held[c] /\ pc[c] = "fill_copy"
Filed ==
  /\ DOMAIN file' = Files
  /\ \A f \in Files : \/ file'[f] = file[f] \/ file'[f] = Torn
                      \/ \E c \in Commands : Puts(c, f)

(* So every step leaves the files.                                          *)
LEMMA Filing == ASSUME TypeOK, Stages, [Next]_vars PROVE Filed
<1> USE DEF Filed, TypeOK, Goto
<1>1. CASE file' = file
  BY <1>1
<1>2. ASSUME NEW c \in Commands, NEW f \in Files, NEW to, Empty(c, f, to) PROVE Filed
  BY <1>2 DEF Empty
<1>3. ASSUME NEW c \in Commands, NEW f \in Files, NEW to, NEW x, Fill(c, f, x, to),
             file'[f] = x => Puts(c, f)
      PROVE  Filed
  BY <1>3 DEF Fill
<1>4. ASSUME NEW c \in Commands, FillAssessment(c) PROVE Filed
  BY <1>3, <1>4 DEF FillAssessment, Puts, Files
<1>5. ASSUME NEW c \in Commands, FillReceipt(c) PROVE Filed
  BY <1>3, <1>5 DEF FillReceipt, Puts, Files, Receipts, ReceiptFile
<1>6. ASSUME NEW c \in Commands, FillPage(c) PROVE Filed
  BY <1>3, <1>6 DEF FillPage, Puts, Files
<1>7. ASSUME NEW c \in Commands, FillCopy(c) PROVE Filed
  <2>1. Copy(job[c].source) \in Files
    BY <1>7 DEF FillCopy, Stages, KindOK, Breaking, Sources, Copy, Files, Receipts
  <2>2. QED BY <1>3, <1>7, <2>1 DEF FillCopy, Puts
<1>8. ASSUME NEW c \in Commands,
             EmptyAssessment(c) \/ EmptyReceipt(c) \/ EmptyPage(c) \/ EmptyCopy(c)
      PROVE  Filed
  <2>1. CASE EmptyAssessment(c)
    BY <1>2, <2>1 DEF EmptyAssessment, Files
  <2>2. CASE EmptyReceipt(c)
    BY <1>2, <2>2 DEF EmptyReceipt, ReceiptFile, Files, Receipts
  <2>3. CASE EmptyPage(c)
    BY <1>2, <2>3 DEF EmptyPage, Files
  <2>4. CASE EmptyCopy(c)
    <3>1. Copy(job[c].source) \in Files
      BY <2>4 DEF EmptyCopy, Stages, KindOK, Breaking, Sources, Copy, Files, Receipts
    <3>2. QED BY <1>2, <2>4, <3>1 DEF EmptyCopy
  <2>5. QED BY <1>8, <2>1, <2>2, <2>3, <2>4
<1>9. ASSUME NEW c \in Commands,
             ReadPlan(c) \/ Read(c) \/ Sign(c) \/ VerifyReceipt(c) \/ Look(c) \/ Show(c)
             \/ LoadSource(c) \/ VerifyCopy(c) \/ Kill(c) \/ Start(c)
      PROVE  Filed
  BY <1>1, <1>9 DEF ReadPlan, Read, Sign, VerifyReceipt, Look, Show, LoadSource,
     VerifyCopy, Kill, Start
<1>10. CASE Edit \/ UNCHANGED vars
  BY <1>1, <1>10 DEF Edit, vars
<1>11. QED
  BY <1>4, <1>5, <1>6, <1>7, <1>8, <1>9, <1>10 DEF Next, Build, Use

(* A receipt that is made or flipped is one. *)
LEMMA MadeReceipts ==
  ASSUME TypeOK
  PROVE  /\ \A c \in Commands, ok \in BOOLEAN, digit \in Digits :
              job[c].kind \in {"demo", "run-mock"} =>
                /\ Receipt(c, ok, digit) \in Signed
                /\ Receipt(c, ok, digit).by = c /\ Receipt(c, ok, digit).kind = job[c].kind
                /\ Receipt(c, ok, digit).digit = Receipt(c, ok, digit).made
                /\ Receipt(c, ok, digit).told = seen[c]
         /\ \A x \in Signed : /\ Flip(x) \in Signed /\ Flip(x).told = x.told
                              /\ Flip(x).made = x.made /\ Flip(x).kind = x.kind
                              /\ Flip(x).digit # x.digit
<1>1. ASSUME NEW c \in Commands, NEW ok \in BOOLEAN, NEW digit \in Digits,
             job[c].kind \in {"demo", "run-mock"}
      PROVE  /\ Receipt(c, ok, digit) \in Signed
             /\ Receipt(c, ok, digit).by = c /\ Receipt(c, ok, digit).kind = job[c].kind
             /\ Receipt(c, ok, digit).digit = Receipt(c, ok, digit).made
             /\ Receipt(c, ok, digit).told = seen[c]
  BY <1>1 DEF Receipt, Signed, TypeOK
<1>2. ASSUME NEW x \in Signed
      PROVE  /\ Flip(x) \in Signed /\ Flip(x).told = x.told
             /\ Flip(x).made = x.made /\ Flip(x).kind = x.kind
             /\ Flip(x).digit # x.digit
  BY DEF Flip, Signed
<1>3. QED BY <1>1, <1>2

(* The types of all but the files. *)
LEMMA RestTypes ==
  ASSUME TypeOK, Stages, [Next]_vars
  PROVE  /\ disk' \in [Scenario -> Nat] /\ plan' \in Plans /\ events' \in Nat
         /\ job' \in [Commands -> [kind : Kinds, source : Sources \cup {"none"}]]
         /\ pc' \in [Commands -> Labels] /\ at' \in [Commands -> Nat]
         /\ seen' \in [Commands -> Editions]
         /\ held' \in [Commands -> Signed \cup {Absent}]
         /\ copied' \in [Commands -> Signed \cup {Absent}]
         /\ printed' \in [Commands -> Signed \cup {Absent}]
         /\ demos' \in Seq(Commands) /\ overlap' \in BOOLEAN
<1> DEFINE P == /\ disk' \in [Scenario -> Nat] /\ plan' \in Plans /\ events' \in Nat
                /\ job' \in [Commands -> [kind : Kinds, source : Sources \cup {"none"}]]
                /\ pc' \in [Commands -> Labels] /\ at' \in [Commands -> Nat]
                /\ seen' \in [Commands -> Editions]
                /\ held' \in [Commands -> Signed \cup {Absent}]
                /\ copied' \in [Commands -> Signed \cup {Absent}]
                /\ printed' \in [Commands -> Signed \cup {Absent}]
                /\ demos' \in Seq(Commands) /\ overlap' \in BOOLEAN
<1> SUFFICES P
  OBVIOUS
<1> USE DEF Goto, inputs, memory, history
<1>t. /\ disk \in [Scenario -> Nat] /\ plan \in Plans /\ events \in Nat
      /\ job \in [Commands -> [kind : Kinds, source : Sources \cup {"none"}]]
      /\ pc \in [Commands -> Labels] /\ at \in [Commands -> Nat]
      /\ seen \in [Commands -> Editions]
      /\ held \in [Commands -> Signed \cup {Absent}]
      /\ copied \in [Commands -> Signed \cup {Absent}]
      /\ printed \in [Commands -> Signed \cup {Absent}]
      /\ demos \in Seq(Commands) /\ overlap \in BOOLEAN
  BY DEF TypeOK
<1>l. /\ AtRest \subseteq Labels /\ Building \subseteq Labels
      /\ {"look", "show"} \cup Breaking \subseteq Labels
  BY DEF Labels, AtRest, Ended, Building, DemoOnly, Breaking
<1>u. Unseen \in Editions
  BY DEF Unseen, Editions
<1>1. CASE UNCHANGED vars
  BY <1>1, <1>t DEF vars
<1>2. CASE Edit
  BY <1>2, <1>t, BoundAssumption DEF Edit, Event
<1>3. ASSUME NEW c \in Commands, Start(c) PROVE P
  <2>1. PICK j \in Jobs : /\ job' = [job EXCEPT ![c] = j] /\ Goto(c, FirstStep(j.kind))
                          /\ demos' = Append(demos, c) \/ UNCHANGED demos
                          /\ \/ overlap' = (overlap \/ \E d \in Commands :
                                              UnderWay(d) /\ job[d].kind = "demo")
                             \/ UNCHANGED overlap
    BY <1>3 DEF Start
  <2>2. j \in [kind : Kinds, source : Sources \cup {"none"}]
    BY JobAssumption
  <2>3. FirstStep(j.kind) \in Labels
    BY DEF FirstStep, Labels
  <2>4. demos' \in Seq(Commands)
    <3>1. demos \in Seq(Commands)
      BY <1>t
    <3>2. Append(demos, c) \in Seq(Commands)
      BY <3>1, AppendProperties
    <3>3. QED BY <2>1, <3>1, <3>2
  <2>5. overlap' \in BOOLEAN
    BY <2>1, <1>t, Zenon
  <2>6. events' \in Nat
    BY <1>3, <1>t DEF Start, Event
  <2>7. QED BY <1>3, <1>t, <2>1, <2>2, <2>3, <2>4, <2>5, <2>6 DEF Start
<1>4. ASSUME NEW c \in Commands,
             ReadPlan(c) \/ EmptyAssessment(c) \/ FillAssessment(c) \/ EmptyReceipt(c)
             \/ FillReceipt(c) \/ VerifyReceipt(c) \/ EmptyPage(c) \/ FillPage(c)
      PROVE  P
  BY <1>4, <1>t, <1>l DEF ReadPlan, EmptyAssessment, FillAssessment, EmptyReceipt,
     FillReceipt, VerifyReceipt, EmptyPage, FillPage, Empty, Fill, Labels, AtRest, Ended
<1>5. ASSUME NEW c \in Commands, Read(c) PROVE P
  <2> DEFINE r == Readings(job[c].kind)[at[c]]
  <2>1. r \in AnyReading
    <3>1. at[c] \in 1..Len(Readings(job[c].kind))
      BY <1>5 DEF Read, Stages, PlaceOK
    <3>2. QED BY <3>1, ReadingLists, ElementOfSeq
  <2>2. r.use \in Uses /\ r.file \in Scenario
    BY <2>1 DEF AnyReading
  <2>3. seen' = [seen EXCEPT ![c][r.use][r.file] = disk[r.file]]
    BY <1>5 DEF Read
  <2>4. disk[r.file] \in Nat
    BY <1>t, <2>2
  <2>5. seen' \in [Commands -> Editions]
    <3> HIDE DEF r
    <3>1. seen[c] \in [Uses -> [Scenario -> Nat]]
      BY <1>t DEF Editions
    <3>2. [seen[c][r.use] EXCEPT ![r.file] = disk[r.file]] \in [Scenario -> Nat]
      BY <2>2, <2>4, <3>1
    <3>3. [seen[c] EXCEPT ![r.use] = [seen[c][r.use] EXCEPT ![r.file] = disk[r.file]]]
            \in [Uses -> [Scenario -> Nat]]
      BY <2>2, <3>1, <3>2
    <3>4. seen' = [seen EXCEPT ![c] =
                     [seen[c] EXCEPT ![r.use] = [seen[c][r.use] EXCEPT ![r.file] = disk[r.file]]]]
      BY <2>3
    <3>5. QED BY <1>t, <3>3, <3>4 DEF Editions
  <2>6. pc' \in [Commands -> Labels]
    BY <1>5, <1>t DEF Read, Labels
  <2>7. QED BY <1>5, <1>t, <2>5, <2>6 DEF Read
<1>6. ASSUME NEW c \in Commands, Sign(c) PROVE P
  <2>1. PICK ok \in BOOLEAN, digit \in Digits :
          held' = [held EXCEPT ![c] = Receipt(c, ok, digit)]
    BY <1>6 DEF Sign
  <2>2. Receipt(c, ok, digit) \in Signed
    BY <1>6, MadeReceipts DEF Sign, Stages, KindOK, Building
  <2>3. QED BY <1>6, <1>t, <1>l, <1>u, <2>1, <2>2 DEF Sign, Labels
<1>7. ASSUME NEW c \in Commands, Look(c) \/ EmptyCopy(c) \/ FillCopy(c) \/ VerifyCopy(c)
      PROVE  P
  BY <1>7, <1>t DEF Look, EmptyCopy, FillCopy, VerifyCopy, Empty, Fill, Labels, AtRest, Ended
<1>8. ASSUME NEW c \in Commands, Show(c) PROVE P
  <2>1. Readable(file["receipt"]) => file["receipt"] \in Signed
    BY DEF TypeOK, Readable, Receipts
  <2>2. QED BY <1>8, <1>t, <2>1 DEF Show, Labels, AtRest, Ended
<1>9. ASSUME NEW c \in Commands, LoadSource(c) PROVE P
  <2>1. job[c].source \in Receipts
    BY <1>9 DEF LoadSource, Stages, KindOK, Breaking, Sources, Receipts
  <2>2. Readable(file[job[c].source]) =>
          file[job[c].source] \in Signed /\ Flip(file[job[c].source]) \in Signed
    BY <2>1, MadeReceipts DEF TypeOK, Readable
  <2>3. CASE Readable(file[job[c].source])
    <3>1. /\ copied' = [copied EXCEPT ![c] = file[job[c].source]]
          /\ held' = [held EXCEPT ![c] = Flip(file[job[c].source])]
          /\ pc' = [pc EXCEPT ![c] = "copy"]
          /\ UNCHANGED <<disk, plan, file, job, at, seen, printed, demos, overlap, events>>
      BY <1>9, <2>3 DEF LoadSource
    <3>2. file[job[c].source] \in Signed /\ Flip(file[job[c].source]) \in Signed
      BY <2>2, <2>3
    <3>3. QED BY <1>t, <3>1, <3>2 DEF Labels
  <2>4. CASE ~Readable(file[job[c].source])
    BY <1>9, <1>t, <2>4 DEF LoadSource, Labels, AtRest, Ended
  <2>5. QED BY <2>3, <2>4
<1>10. ASSUME NEW c \in Commands, Kill(c) PROVE P
  BY <1>10, <1>t, <1>u DEF Kill, Event, Labels, AtRest, Ended
<1>11. QED
  BY <1>1, <1>2, <1>3, <1>4, <1>5, <1>6, <1>7, <1>8, <1>9, <1>10 DEF Next, Build, Use

(* Every step keeps the types. *)
LEMMA TypeStep == ASSUME TypeOK, Stages, [Next]_vars PROVE TypeOK'
<1>1. ASSUME NEW f \in Receipts PROVE file'[f] \in Signed \cup {Absent, Torn}
  <2>1. file[f] \in Signed \cup {Absent, Torn} /\ f \in Files
    BY DEF TypeOK, Files
  <2>2. ASSUME NEW c \in Commands, Puts(c, f) PROVE file'[f] = held[c]
    BY <2>2 DEF Puts, Receipts
  <2>3. QED BY <2>1, <2>2, Filing DEF Filed, TypeOK
<1>2. file'["assessment"] \in Commands \cup {Absent, Torn}
  <2>1. ASSUME NEW c \in Commands, Puts(c, "assessment") PROVE file'["assessment"] = c
    <3>1. pc[c] = "fill_copy" => Copy(job[c].source) # "assessment"
      BY DEF Stages, KindOK, Breaking, Sources, Copy
    <3>2. QED BY <2>1, <3>1 DEF Puts, ReceiptFile
  <2>2. QED BY <2>1, Filing DEF Filed, TypeOK, Files
<1>3. file'["page"] \in [by : Commands, receipt : Signed] \cup {Absent, Torn}
  <2>1. ASSUME NEW c \in Commands, Puts(c, "page")
        PROVE  file'["page"] = [by |-> c, receipt |-> held[c]] /\ held[c] \in Signed
    <3>1. pc[c] = "fill_copy" => Copy(job[c].source) # "page"
      BY DEF Stages, KindOK, Breaking, Sources, Copy
    <3>2. QED BY <2>1, <3>1 DEF Puts, ReceiptFile, Stages, HeldOK, Holding
  <2>2. ASSUME NEW c \in Commands, Puts(c, "page")
        PROVE  file'["page"] \in [by : Commands, receipt : Signed]
    <3>1. file'["page"] = [by |-> c, receipt |-> held[c]] /\ held[c] \in Signed
      BY <2>1, <2>2
    <3>2. [by |-> c, receipt |-> held[c]] \in [by : Commands, receipt : Signed]
      BY <3>1
    <3>3. QED BY <3>1, <3>2
  <2>3. \/ file'["page"] = file["page"] \/ file'["page"] = Torn
        \/ \E c \in Commands : Puts(c, "page")
    BY Filing DEF Filed, Files
  <2>4. QED BY <2>2, <2>3 DEF TypeOK
<1>4. DOMAIN file' = Files
  BY Filing DEF Filed
<1>5. QED BY <1>1, <1>2, <1>3, <1>4, RestTypes DEF TypeOK

(* Nothing of command x changes. *)
Still(x) == /\ pc'[x] = pc[x] /\ job'[x] = job[x] /\ at'[x] = at[x] /\ held'[x] = held[x]
            /\ seen'[x] = seen[x] /\ copied'[x] = copied[x] /\ printed'[x] = printed[x]

(* A step is one command's, and leaves the others where they are.           *)
LEMMA OneMoves ==
  ASSUME TypeOK, [Next]_vars, NEW x \in Commands,
         ~(Start(x) \/ Build(x) \/ Use(x) \/ Kill(x))
  PROVE  Still(x)
<1> USE DEF Still, TypeOK, Goto, inputs, memory, history
<1>1. ASSUME NEW c \in Commands, c # x, Start(c) PROVE Still(x)
  BY <1>1 DEF Start
<1>2. ASSUME NEW c \in Commands, c # x, Build(c) PROVE Still(x)
  BY <1>2 DEF Build, ReadPlan, Read, EmptyAssessment, FillAssessment, Sign, EmptyReceipt,
     FillReceipt, VerifyReceipt, EmptyPage, FillPage, Empty, Fill
<1>3. ASSUME NEW c \in Commands, c # x, Use(c) PROVE Still(x)
  BY <1>3 DEF Use, Look, Show, LoadSource, EmptyCopy, FillCopy, VerifyCopy, Empty, Fill
<1>4. ASSUME NEW c \in Commands, c # x, Kill(c) PROVE Still(x)
  BY <1>4 DEF Kill
<1>5. CASE Edit \/ UNCHANGED vars
  BY <1>5 DEF Edit, vars
<1>6. QED BY <1>1, <1>2, <1>3, <1>4, <1>5 DEF Next

(* Nobody edits the plan. *)
LEMMA PlanStays ==
  ASSUME [Next]_vars
  PROVE  plan' = plan /\ \A kind : Readings(kind)' = Readings(kind)
<1>1. plan' = plan
  BY DEF vars, inputs, Next, Edit, Start, Build, Use, ReadPlan, Read, EmptyAssessment,
     FillAssessment, Sign, EmptyReceipt, FillReceipt, VerifyReceipt, EmptyPage, FillPage,
     Empty, Fill, Look, Show, LoadSource, EmptyCopy, FillCopy, VerifyCopy, Kill
<1>2. QED BY <1>1 DEF Readings, Prompts, Body, ForEach

(* Every step keeps the stages. *)
LEMMA StageStep ==
  ASSUME BaseInv, [Next]_vars
  PROVE  Stages'
<1> SUFFICES ASSUME NEW x \in Commands PROVE (KindOK(x) /\ PlaceOK(x) /\ HeldOK(x))'
  BY DEF Stages
<1> USE DEF BaseInv
<1>0. /\ pc' \in [Commands -> Labels] /\ job \in [Commands -> [kind : Kinds, source : Sources \cup {"none"}]]
      /\ pc \in [Commands -> Labels] /\ at \in [Commands -> Nat]
      /\ held \in [Commands -> Signed \cup {Absent}]
  BY RestTypes DEF TypeOK
<1>k. KindOK(x) /\ PlaceOK(x) /\ HeldOK(x)
  BY DEF Stages
<1>r. \A kind : Readings(kind)' = Readings(kind) /\ Prompts' = Prompts
  BY PlanStays DEF Prompts, ForEach
<1>p. Len(Prompts) = N /\ N \in Nat \ {0}
  BY Parts, Lists
<1>1. CASE Still(x)
  BY <1>1, <1>k, <1>r DEF Still, KindOK, PlaceOK, HeldOK
<1>2. CASE Start(x)
  <2>1. PICK j \in Jobs : job' = [job EXCEPT ![x] = j] /\ Goto(x, FirstStep(j.kind))
    BY <1>2 DEF Start
  <2>2. /\ j \in [kind : Kinds, source : Sources \cup {"none"}]
        /\ j.kind = "break-receipt" => j.source \in Sources
    BY JobAssumption
  <2>3. job'[x] = j /\ pc'[x] = FirstStep(j.kind) /\ at'[x] = 1
    BY <1>0, <1>2, <1>k, <2>1 DEF Start, Goto, memory, PlaceOK
  <2>4. QED
    BY <2>2, <2>3 DEF KindOK, PlaceOK, HeldOK, FirstStep, Kinds, Building, DemoOnly,
       Holding, Breaking
<1>3. CASE ReadPlan(x)
  <2>1. /\ pc[x] = "plan" /\ job' = job /\ at' = at /\ held' = held
        /\ pc'[x] \in {"read", "raised", "1"}
    BY <1>0, <1>3 DEF ReadPlan, Goto, memory
  <2>2. at[x] \in 1..Len(Readings(job[x].kind))
    BY <1>k, <2>1, ReadingLists DEF PlaceOK
  <2>3. QED
    BY <1>k, <1>r, <2>1, <2>2 DEF KindOK, PlaceOK, HeldOK, Building, DemoOnly, Holding,
       Breaking
<1>4. CASE Read(x)
  <2>1. /\ pc[x] = "read" /\ job' = job /\ at'[x] = at[x] + 1 /\ held' = held
        /\ pc'[x] = IF job[x].kind = "demo" /\ at[x] = Len(Prompts) THEN "assessment"
                    ELSE IF at[x] = Len(Readings(job[x].kind)) THEN "sign" ELSE "read"
    BY <1>0, <1>4 DEF Read, Goto
  <2>2. at[x] \in 1..Len(Readings(job[x].kind)) /\ Len(Readings(job[x].kind)) \in Nat
    BY <1>k, <2>1, ReadingLists DEF PlaceOK
  <2>3. pc'[x] = "read" => at'[x] \in 1..Len(Readings(job[x].kind))
    BY <2>1, <2>2
  <2>4. pc'[x] = "assessment" => at'[x] = Len(Prompts) + 1 /\ job[x].kind = "demo"
    BY <2>1
  <2>5. pc'[x] \in {"assessment", "sign", "read"}
    BY <2>1
  <2>6. job[x].kind \in {"demo", "run-mock"}
    BY <1>k, <2>1 DEF KindOK, Building
  <2>7. QED
    BY <1>k, <1>r, <2>1, <2>3, <2>4, <2>5, <2>6 DEF KindOK, PlaceOK, HeldOK, Building,
       DemoOnly, Holding, Breaking
<1>5. CASE EmptyAssessment(x)
  <2>1. /\ pc[x] = "assessment" /\ pc'[x] = "fill_assessment"
        /\ job' = job /\ at' = at /\ held' = held
    BY <1>0, <1>5 DEF EmptyAssessment, Empty, Goto, memory
  <2>2. QED
    BY <1>k, <1>r, <2>1 DEF KindOK, PlaceOK, HeldOK, Building, DemoOnly, Holding, Breaking
<1>6. CASE FillAssessment(x)
  <2>1. /\ pc[x] = "fill_assessment" /\ pc'[x] = "read" /\ job' = job /\ at' = at /\ held' = held
    BY <1>0, <1>6 DEF FillAssessment, Fill, Goto, memory
  <2>2. job[x].kind = "demo" /\ at[x] = N + 1
    BY <1>k, <1>p, <2>1 DEF KindOK, PlaceOK, DemoOnly
  <2>3. at[x] \in 1..Len(Readings(job[x].kind))
    <3>1. Len(Readings(job[x].kind)) = 3 * N + 5
      BY <2>2, ReadingLists
    <3>2. QED BY <1>p, <2>2, <3>1
  <2>4. QED
    BY <1>k, <1>r, <2>1, <2>2, <2>3 DEF KindOK, PlaceOK, HeldOK, Building, DemoOnly,
       Holding, Breaking
<1>7. CASE Sign(x)
  <2>1. PICK ok \in BOOLEAN, digit \in Digits :
          held' = [held EXCEPT ![x] = Receipt(x, ok, digit)]
    BY <1>7 DEF Sign
  <2>2. pc[x] = "sign" /\ pc'[x] = "receipt" /\ job' = job /\ held'[x] = Receipt(x, ok, digit)
    BY <1>0, <1>7, <2>1 DEF Sign, Goto
  <2>3. job[x].kind \in {"demo", "run-mock"}
    BY <1>k, <2>2 DEF KindOK, Building
  <2>4. /\ held'[x] \in Signed /\ held'[x].by = x /\ held'[x].kind = job[x].kind
        /\ held'[x].digit = held'[x].made
    BY <2>2, <2>3, MadeReceipts
  <2>5. QED
    BY <1>k, <2>2, <2>3, <2>4 DEF KindOK, PlaceOK, HeldOK, Building, DemoOnly, Holding,
       Breaking
<1>8. CASE EmptyReceipt(x) \/ FillReceipt(x) \/ VerifyReceipt(x) \/ EmptyPage(x) \/ FillPage(x)
  <2>1. /\ pc[x] \in Holding /\ job' = job /\ at' = at /\ held' = held
        /\ pc'[x] \in {"fill_receipt", "verify", "page", "fill_page", "0", "1", "raised"}
        /\ pc'[x] \in {"verify", "page", "fill_page"} => job[x].kind = "demo"
    BY <1>0, <1>8, <1>k DEF EmptyReceipt, FillReceipt, VerifyReceipt, EmptyPage, FillPage,
       Empty, Fill, Goto, memory, Holding, KindOK, DemoOnly
  <2>2. QED
    BY <1>k, <1>r, <2>1 DEF KindOK, PlaceOK, HeldOK, Building, DemoOnly, Holding, Breaking
<1>9. CASE Look(x) \/ Show(x)
  <2>1. /\ pc[x] \in {"look", "show"} /\ job' = job /\ at' = at /\ held' = held
        /\ pc'[x] \in {"show", "0", "1"}
    BY <1>0, <1>9 DEF Look, Show, Goto, memory
  <2>2. QED
    BY <1>k, <1>r, <2>1 DEF KindOK, PlaceOK, HeldOK, Building, DemoOnly, Holding, Breaking
<1>10. CASE LoadSource(x)
  <2>1. pc[x] = "load" /\ job' = job /\ at' = at /\ job[x].kind = "break-receipt"
    BY <1>10, <1>k DEF LoadSource, KindOK, Breaking
  <2>2. CASE Readable(file[job[x].source])
    <3>1. pc'[x] = "copy" /\ held'[x] = Flip(file[job[x].source])
      BY <1>0, <1>10, <2>2 DEF LoadSource, Goto
    <3>2. job[x].source \in Sources
      BY <1>k, <2>1 DEF KindOK
    <3>3. file[job[x].source] \in Signed
      BY <2>2, <3>2 DEF TypeOK, Readable, Sources, Receipts
    <3>4. job[x].source # "receipt_tampered" =>
            file[job[x].source].digit = file[job[x].source].made
      BY <2>2, <3>2 DEF DigitsInv, Sources
    <3>5. job[x].source # "receipt_tampered" => held'[x].digit # held'[x].made
      BY <3>1, <3>3, <3>4, MadeReceipts
    <3>6. QED
      BY <2>1, <3>1, <3>2, <3>5 DEF KindOK, PlaceOK, HeldOK, Building, DemoOnly, Holding,
         Breaking
  <2>3. CASE ~Readable(file[job[x].source])
    <3>1. pc'[x] = "1" /\ held' = held
      BY <1>0, <1>10, <2>3 DEF LoadSource, Goto
    <3>2. QED
      BY <1>k, <2>1, <3>1 DEF KindOK, PlaceOK, HeldOK, Building, DemoOnly, Holding, Breaking
  <2>4. QED BY <2>2, <2>3
<1>11. CASE EmptyCopy(x) \/ FillCopy(x) \/ VerifyCopy(x)
  <2>1. /\ pc[x] \in Breaking /\ job' = job /\ at' = at /\ held' = held
        /\ pc'[x] \in {"fill_copy", "verify_copy", "0", "1", "raised"}
        /\ pc'[x] = "fill_copy" => pc[x] = "copy"
    BY <1>0, <1>11 DEF EmptyCopy, FillCopy, VerifyCopy, Empty, Fill, Goto, memory, Breaking
  <2>2. QED
    BY <1>k, <1>r, <2>1 DEF KindOK, PlaceOK, HeldOK, Building, DemoOnly, Holding, Breaking
<1>12. CASE Kill(x)
  <2>1. pc'[x] = "killed" /\ job' = job
    BY <1>0, <1>12 DEF Kill, Goto
  <2>2. QED
    BY <1>k, <2>1 DEF KindOK, PlaceOK, HeldOK, Building, DemoOnly, Holding, Breaking
<1>13. QED
  BY <1>1, <1>2, <1>3, <1>4, <1>5, <1>6, <1>7, <1>8, <1>9, <1>10, <1>11, <1>12, OneMoves
  DEF Build, Use

(* Every step keeps the digits. *)
LEMMA DigitsStep == ASSUME BaseInv, [Next]_vars PROVE DigitsInv'
<1> USE DEF BaseInv
<1>1. ASSUME NEW f \in {"receipt", "local_receipt"}, Readable(file'[f])
      PROVE  file'[f].digit = file'[f].made
  <2>1. ASSUME NEW c \in Commands, Puts(c, f) PROVE file'[f].digit = file'[f].made
    <3>1. pc[c] = "fill_copy" => Copy(job[c].source) # f
      BY DEF Stages, KindOK, Breaking, Sources, Copy
    <3>2. file'[f] = held[c] /\ pc[c] = "fill_receipt"
      BY <2>1, <3>1 DEF Puts
    <3>3. QED BY <3>2 DEF Stages, HeldOK, Holding
  <2>2. \/ file'[f] = file[f] \/ file'[f] = Torn \/ \E c \in Commands : Puts(c, f)
    BY Filing DEF Filed, Files, Receipts
  <2>3. QED BY <1>1, <2>1, <2>2 DEF Readable, DigitsInv
<1>2. ASSUME NEW f \in {"receipt_tampered", "local_tampered"}, Readable(file'[f])
      PROVE  file'[f].digit # file'[f].made
  <2>1. ASSUME NEW c \in Commands, Puts(c, f) PROVE file'[f].digit # file'[f].made
    <3>1. pc[c] = "fill_copy" /\ f = Copy(job[c].source) /\ file'[f] = held[c]
      BY <2>1 DEF Puts, ReceiptFile
    <3>2. job[c].source # "receipt_tampered"
      BY <3>1 DEF Copy
    <3>3. QED BY <3>1, <3>2 DEF Stages, HeldOK
  <2>2. \/ file'[f] = file[f] \/ file'[f] = Torn \/ \E c \in Commands : Puts(c, f)
    BY Filing DEF Filed, Files, Receipts
  <2>3. QED BY <1>2, <2>1, <2>2 DEF Readable, DigitsInv
<1>3. QED BY <1>1, <1>2 DEF DigitsInv, Readable

(* Nobody has started at the start. *)
LEMMA InitialBase == ASSUME Init PROVE BaseInv
<1>1. TypeOK
  <2>1. <<>> \in Seq(Commands)
    BY EmptySeq
  <2>2. overlap \in BOOLEAN
    BY Zenon DEF Init
  <2>3. Unseen \in Editions
    BY DEF Unseen, Editions
  <2>4. /\ DOMAIN file = Files /\ \A f \in Files : file[f] = Absent
        /\ Receipts \cup {"assessment", "page"} = Files
    BY DEF Init, Files
  <2>5. job \in [Commands -> [kind : Kinds, source : Sources \cup {"none"}]]
    BY DEF Init, Kinds
  <2>6. disk \in [Scenario -> Nat] /\ plan \in Plans /\ events \in Nat
    BY DEF Init
  <2>7. pc \in [Commands -> Labels] /\ at \in [Commands -> Nat] /\ seen \in [Commands -> Editions]
    BY <2>3 DEF Init, Labels, AtRest
  <2>8. \A m \in {held, copied, printed} : m \in [Commands -> Signed \cup {Absent}]
    BY DEF Init
  <2>9. demos \in Seq(Commands)
    BY <2>1 DEF Init
  <2>10. QED BY <2>2, <2>4, <2>5, <2>6, <2>7, <2>8, <2>9 DEF TypeOK
<1>2. Stages
  BY DEF Init, Stages, KindOK, PlaceOK, HeldOK, Building, DemoOnly, Holding, Breaking
<1>3. DigitsInv
  BY DEF Init, DigitsInv, Readable, Files, Receipts
<1>4. QED BY <1>1, <1>2, <1>3 DEF BaseInv

(* Types, stages and digits, in every reachable state. *)
THEOREM BaseInvariance == Spec => []BaseInv
<1>1. BaseInv /\ [Next]_vars => BaseInv'
  BY TypeStep, StageStep, DigitsStep DEF BaseInv
<1>2. QED BY <1>1, InitialBase, PTL DEF Spec

(* Every file and every command holds what the code can put there. *)
THEOREM TypeCorrect == Spec => []TypeOK
BY BaseInvariance, PTL DEF BaseInv

-----------------------------------------------------------------------------
(* Only a break-receipt has copied anything, and not a copy that verifies.   *)
CopyOK(c) ==
  copied[c] # Absent =>
    /\ job[c].kind = "break-receipt"
    /\ pc[c] \in {"copy", "fill_copy", "verify_copy", "0", "1", "raised", "killed"}
    /\ Verifies(copied[c]) => job[c].source # "receipt_tampered" /\ pc[c] # "1"
CopiesInv == \A c \in Commands : CopyOK(c)

(* A copy is judged by the file, which verifies only if it was a copy of a   *)
(* copy.                                                                    *)
LEMMA CopiesStep == ASSUME BaseInv, CopiesInv, [Next]_vars PROVE CopiesInv'
<1> SUFFICES ASSUME NEW x \in Commands PROVE CopyOK(x)'
  BY DEF CopiesInv
<1> USE DEF BaseInv
<1>0. /\ pc \in [Commands -> Labels] /\ copied \in [Commands -> Signed \cup {Absent}]
      /\ job \in [Commands -> [kind : Kinds, source : Sources \cup {"none"}]]
      /\ KindOK(x) /\ CopyOK(x)
  BY DEF TypeOK, Stages, CopiesInv
<1>1. CASE Still(x)
  BY <1>0, <1>1 DEF Still, CopyOK, Verifies, Intact, Readable
<1>2. CASE Start(x) \/ ReadPlan(x) \/ Read(x) \/ EmptyAssessment(x) \/ FillAssessment(x)
           \/ Sign(x) \/ EmptyReceipt(x) \/ FillReceipt(x) \/ VerifyReceipt(x)
           \/ EmptyPage(x) \/ FillPage(x) \/ Look(x) \/ Show(x)
  <2>1. copied' = copied /\ pc[x] \in {"ready", "look", "show"} \cup Building
    BY <1>2 DEF Start, ReadPlan, Read, EmptyAssessment, FillAssessment, Sign, EmptyReceipt,
       FillReceipt, VerifyReceipt, EmptyPage, FillPage, Empty, Fill, Look, Show, history,
       Building, DemoOnly
  <2>2. copied[x] = Absent
    BY <1>0, <2>1 DEF CopyOK, Building, DemoOnly
  <2>3. QED BY <2>1, <2>2 DEF CopyOK
<1>3. CASE LoadSource(x)
  <2>1. pc[x] = "load" /\ job' = job /\ copied[x] = Absent
    BY <1>0, <1>3 DEF LoadSource, CopyOK
  <2>2. job[x].kind = "break-receipt" /\ job[x].source \in Sources
    BY <1>0, <2>1 DEF KindOK, Breaking
  <2>3. CASE Readable(file[job[x].source])
    <3>1. pc'[x] = "copy" /\ copied'[x] = file[job[x].source]
      BY <1>0, <1>3, <2>3 DEF LoadSource, Goto
    <3>2. job[x].source = "receipt_tampered" => ~Verifies(file[job[x].source])
      BY <2>3 DEF DigitsInv, Verifies, Intact
    <3>3. QED BY <2>1, <2>2, <3>1, <3>2 DEF CopyOK, Verifies, Intact, Readable
  <2>4. CASE ~Readable(file[job[x].source])
    <3>1. copied' = copied
      BY <1>3, <2>4 DEF LoadSource
    <3>2. QED BY <2>1, <3>1 DEF CopyOK
  <2>5. QED BY <2>3, <2>4
<1>4. CASE EmptyCopy(x) \/ FillCopy(x)
  <2>1. /\ copied' = copied /\ job' = job /\ pc[x] # "1"
        /\ pc'[x] \in {"fill_copy", "verify_copy"}
    BY <1>0, <1>4 DEF EmptyCopy, FillCopy, Empty, Fill, Goto, history
  <2>2. QED BY <1>0, <2>1 DEF CopyOK, Verifies, Intact, Readable
<1>5. CASE VerifyCopy(x)
  <2>1. /\ copied' = copied /\ job' = job /\ pc[x] = "verify_copy"
        /\ pc'[x] \in {"0", "1", "raised"}
        /\ pc'[x] = "1" => Verifies(file[Copy(job[x].source)])
    BY <1>0, <1>5 DEF VerifyCopy, Goto, history
  <2>2. job[x].source \in Sources
    BY <1>0, <2>1 DEF KindOK, Breaking
  <2>3. job[x].source # "receipt_tampered" => ~Verifies(file[Copy(job[x].source)])
    BY <2>2 DEF Sources, Copy, DigitsInv, Verifies, Intact
  <2>4. pc'[x] \in {"0", "1", "raised"}
        /\ (job[x].source # "receipt_tampered" => pc'[x] # "1")
    BY <2>1, <2>3
  <2>5. QED BY <1>0, <2>1, <2>4 DEF CopyOK, Verifies, Intact, Readable
<1>6. CASE Kill(x)
  <2>1. copied' = copied /\ job' = job /\ UnderWay(x) /\ pc'[x] = "killed"
    BY <1>0, <1>6 DEF Kill, Goto, history
  <2>2. QED BY <1>0, <2>1 DEF CopyOK, Verifies, Intact, Readable
<1>7. QED
  BY <1>1, <1>2, <1>3, <1>4, <1>5, <1>6, OneMoves DEF Build, Use

(***************************************************************************)
(* A copy of demo's or run-mock's receipt never verifies, and no command    *)
(* that copied a receipt which verifies is told that its copy does too, for *)
(* any number of concurrent commands and kills.                             *)
(***************************************************************************)
THEOREM TamperedCopies == Spec => []TamperedCopiesFail
<1>1. Init => CopiesInv
  BY DEF Init, CopiesInv, CopyOK
<1>2. BaseInv /\ CopiesInv /\ [Next]_vars => CopiesInv'
  BY CopiesStep
<1>3. BaseInv /\ CopiesInv => TamperedCopiesFail
  BY DEF BaseInv, DigitsInv, CopiesInv, CopyOK, TamperedCopiesFail, Verifies, Intact
<1>4. QED BY <1>1, <1>2, <1>3, BaseInvariance, PTL DEF Spec
=============================================================================
