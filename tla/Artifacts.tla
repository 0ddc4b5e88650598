----------------------------- MODULE Artifacts -----------------------------
(***************************************************************************)
(* The commands that work on one scenario and one output directory: demo    *)
(* and run-mock build a receipt from the scenario files, which they read    *)
(* several times; inspect reads what demo left, break-receipt makes a copy  *)
(* that must not verify.  Each is a process of its own and may be killed    *)
(* between any two steps; an editor may change the scenario files.          *)
(* Path.write_text empties a file and then fills it.                        *)
(*                                                                         *)
(* The content of a scenario file is the number of its edition.  An         *)
(* assessment is named by the command that made it.  Of the signing key a   *)
(* command says only whether the public key file will fit (KeyStore says    *)
(* when); of a hash only the first hex digit, the one break-receipt flips.  *)
(***************************************************************************)
EXTENDS Naturals, Sequences, FiniteSets

CONSTANTS
  Providers,   \* sequence of the provider ids
  Commands,    \* invocations of demo, run-mock, inspect and break-receipt
  Jobs,        \* what a user may start: [kind, source]
  Plans,       \* what masking_plan.yaml declares: "pair", "answered", "unanswered"
  Digits,      \* first digits of a payload's hash
  Absent, Torn, \* contents of a file that is missing, or emptied and not yet filled
  MaxEvents,   \* bound: starts, edits (counted twice) and kills, all together
  MaxTogether  \* bound: commands under way at the same time

Fragments == {Providers[n] : n \in DOMAIN Providers}
Scenario == Fragments \cup {"original", "local"}
Receipts == {"receipt", "local_receipt", "receipt_tampered", "local_tampered",
             "receipt_tampered_tampered"}
Files == Receipts \cup {"assessment", "page"}
Kinds == {"demo", "run-mock", "inspect", "break-receipt"}
Sources == {"receipt", "local_receipt", "receipt_tampered"}

ASSUME ProviderAssumption ==
  /\ Providers \in Seq(Fragments) /\ Providers # <<>>
  /\ Fragments \cap {"original", "local"} = {}
ASSUME CommandAssumption == Absent \notin Commands /\ Torn \notin Commands /\ Absent # Torn
ASSUME JobAssumption ==
  /\ Jobs \subseteq [kind : Kinds, source : Sources \cup {"none"}]
  /\ \A j \in Jobs : j.kind = "break-receipt" => j.source \in Sources
ASSUME PlanAssumption == Plans \subseteq {"pair", "answered", "unanswered"}
ASSUME BoundAssumption == MaxEvents \in Nat /\ MaxTogether \in Nat

VARIABLES
  disk,     \* the edition of each scenario file
  plan,     \* the masking plan, which nobody edits here
  file,     \* the receipts and artifacts
  job,      \* what each command is
  pc,       \* next step of each command
  at,       \* its position in the list of readings
  seen,     \* seen[c][use][f]: the edition of f that c read for that use
  held,     \* the receipt in the memory of each command
  copied,   \* history: the receipt that a break-receipt read
  printed,  \* history: the receipt that an inspect showed
  demos,    \* history: the demos in the order of their start
  overlap,  \* history: a demo was started while another was under way
  events    \* how many starts, edits and kills there were (bound)

inputs == <<disk, plan>>
memory == <<at, seen, held>>
history == <<copied, printed, demos, overlap>>
vars == <<inputs, file, job, pc, memory, history, events>>

Ended == {"0", "1", "raised", "killed"}
AtRest == Ended \cup {"ready"}
UnderWay(c) == pc[c] \notin AtRest
Uses == {"prompt", "ratio", "event", "fingerprint", "hash", "tokens"}
Unseen == [u \in Uses |-> [f \in Scenario |-> 0]]

-----------------------------------------------------------------------------
(* The readings of the scenario files, in the order of the code. *)
Reading(use, f) == [use |-> use, file |-> f]
ForEach(use) == [n \in DOMAIN Providers |-> Reading(use, Providers[n])]
(* One payload per call of a mock adapter, which answers from a fixture.     *)
Prompts == ForEach("prompt")
(* build_receipt_body: exposure_view, then load_local_only. *)
Body == <<Reading("ratio", "original")>> \o ForEach("event") \o <<Reading("fingerprint", "local")>>

(* demo re-opens all of them for what it adds to the body; run-mock hands no *)
(* payload over if the plan declares its fragments and their answers.       *)
Readings(kind) ==
  IF kind = "demo" THEN Prompts \o Body \o <<Reading("tokens", "local"),
    Reading("hash", "original"), Reading("tokens", "original")>> \o ForEach("tokens")
  ELSE IF plan = "pair" THEN Prompts \o Body ELSE Body

(* What a receipt says, with the editions read for it.  ok: the public key   *)
(* file fits; made: the digit that was signed.                              *)
Receipt(c, ok, digit) ==
  [by |-> c, kind |-> job[c].kind, told |-> seen[c], ok |-> ok, made |-> digit, digit |-> digit]

(* The strict parser, the hash, and the signature against the key file.     *)
Readable(x) == x \notin {Absent, Torn}
Intact(x) == Readable(x) /\ x.digit = x.made
Verifies(x) == Intact(x) /\ x.ok

(* Mutant: the digit becomes a zero, whatever it was. *)
BugFlip(x) == [x EXCEPT !.digit = "0"]

Flip(x) == [x EXCEPT !.digit = IF x.digit # "0" THEN "0" ELSE "1"]
Copy(source) ==
  [receipt |-> "receipt_tampered", local_receipt |-> "local_tampered",
   receipt_tampered |-> "receipt_tampered_tampered"][source]

-----------------------------------------------------------------------------
Init ==
  /\ disk = [f \in Scenario |-> 0] /\ plan \in Plans
  /\ file = [f \in Files |-> Absent]
  /\ job = [c \in Commands |-> [kind |-> "inspect", source |-> "none"]]
  /\ pc = [c \in Commands |-> "ready"] /\ at = [c \in Commands |-> 1]
  /\ seen = [c \in Commands |-> Unseen] /\ held = [c \in Commands |-> Absent]
  /\ copied = [c \in Commands |-> Absent] /\ printed = [c \in Commands |-> Absent]
  /\ demos = <<>> /\ overlap = FALSE /\ events = 0

Goto(c, l) == pc' = [pc EXCEPT ![c] = l]

(* The bound: an edit counts for two events. *)
Event(weight) == events + weight <= MaxEvents /\ events' = events + weight

Edit ==
  /\ Event(2)
  /\ \E f \in Scenario : disk' = [disk EXCEPT ![f] = @ + 1]
  /\ UNCHANGED <<plan, file, job, pc, memory, history>>

FirstStep(kind) == IF kind = "inspect" THEN "look"
                   ELSE IF kind = "break-receipt" THEN "load" ELSE "plan"

Start(c) ==
  /\ pc[c] = "ready" /\ Event(1)
  /\ Cardinality({d \in Commands : UnderWay(d)}) < MaxTogether
  /\ \E j \in Jobs :
       /\ job' = [job EXCEPT ![c] = j] /\ Goto(c, FirstStep(j.kind))
       /\ IF j.kind = "demo"
          THEN /\ demos' = Append(demos, c)
               /\ overlap' = (overlap \/ \E d \in Commands : UnderWay(d) /\ job[d].kind = "demo")
          ELSE UNCHANGED <<demos, overlap>>
  /\ UNCHANGED <<inputs, file, memory, copied, printed>>

-----------------------------------------------------------------------------
(* example_paths.  demo looks for the two payloads of a plan that declares   *)
(* no fragments; run-mock needs an answer for each fragment.                *)
ReadPlan(c) ==
  /\ pc[c] = "plan"
  /\ Goto(c, IF plan = "pair" THEN "read"
             ELSE IF job[c].kind = "demo" THEN "raised"
             ELSE IF plan = "unanswered" THEN "1" ELSE "read")
  /\ UNCHANGED <<inputs, file, job, memory, history, events>>

(* The next reading; demo writes its assessment after the calls.             *)
Read(c) ==
  /\ pc[c] = "read"
  /\ LET list == Readings(job[c].kind)
         r == list[at[c]]
     IN /\ seen' = [seen EXCEPT ![c][r.use][r.file] = disk[r.file]]
        /\ Goto(c, IF job[c].kind = "demo" /\ at[c] = Len(Prompts) THEN "assessment"
                   ELSE IF at[c] = Len(list) THEN "sign" ELSE "read")
  /\ at' = [at EXCEPT ![c] = @ + 1]
  /\ UNCHANGED <<inputs, file, job, held, history, events>>

(* Path.write_text *)
Empty(c, f, to) ==
  /\ file' = [file EXCEPT ![f] = Torn] /\ Goto(c, to)
  /\ UNCHANGED <<inputs, job, memory, history, events>>
Fill(c, f, content, to) ==
  /\ file' = [file EXCEPT ![f] = content] /\ Goto(c, to)
  /\ UNCHANGED <<inputs, job, memory, history, events>>

(* Mutant: an assessment that is there is kept. *)
BugKeepAssessment(c) ==
  /\ pc[c] = "assessment"
  /\ IF file["assessment"] = Absent THEN Empty(c, "assessment", "fill_assessment")
     ELSE Fill(c, "assessment", file["assessment"], "read")

EmptyAssessment(c) == pc[c] = "assessment" /\ Empty(c, "assessment", "fill_assessment")
FillAssessment(c) == pc[c] = "fill_assessment" /\ Fill(c, "assessment", c, "read")

(* ensure_local_keypair and sign_receipt; the readings are in the receipt    *)
(* now.  (run-mock looks for the key before the readings of Body: here,     *)
(* where the key files have no state, that is the same.)                    *)
Sign(c) ==
  /\ pc[c] = "sign" /\ Goto(c, "receipt")
  /\ \E ok \in BOOLEAN, digit \in Digits :
       held' = [held EXCEPT ![c] = Receipt(c, ok, digit)]
  /\ seen' = [seen EXCEPT ![c] = Unseen] /\ at' = [at EXCEPT ![c] = 1]
  /\ UNCHANGED <<inputs, file, job, history, events>>

(* receipt.json of the output directory, receipt.local.json of the scenario. *)
ReceiptFile(c) == IF job[c].kind = "demo" THEN "receipt" ELSE "local_receipt"
EmptyReceipt(c) == pc[c] = "receipt" /\ Empty(c, ReceiptFile(c), "fill_receipt")
FillReceipt(c) ==
  /\ pc[c] = "fill_receipt"
  /\ Fill(c, ReceiptFile(c), held[c], IF job[c].kind = "demo" THEN "verify" ELSE "0")

(* Mutant: the result of the verification is printed only. *)
BugVerifyOnlyPrints(c) ==
  /\ pc[c] = "verify" /\ Goto(c, "page")
  /\ UNCHANGED <<inputs, file, job, memory, history, events>>

(* verify.run reads the file again, whoever wrote it last.  The public key   *)
(* file is opened when the hash fits; if another command has just emptied   *)
(* it, the PEM parser's ValueError ends the command.                        *)
VerifyReceipt(c) ==
  /\ pc[c] = "verify"
  /\ \/ Goto(c, IF Verifies(file["receipt"]) THEN "page" ELSE "1")
     \/ Intact(file["receipt"]) /\ Goto(c, "raised")
  /\ UNCHANGED <<inputs, file, job, memory, history, events>>

(* render_html shows the receipt and the assessment of the memory, and says  *)
(* VERIFIED.  What else it reads again and shows, and the text of the       *)
(* assessment, is left out.                                                 *)
EmptyPage(c) == pc[c] = "page" /\ Empty(c, "page", "fill_page")
FillPage(c) == pc[c] = "fill_page" /\ Fill(c, "page", [by |-> c, receipt |-> held[c]], "0")

-----------------------------------------------------------------------------
(* Mutant: inspect asks for the receipt only. *)
BugLookForReceipt(c) ==
  /\ pc[c] = "look" /\ Goto(c, IF file["receipt"] = Absent THEN "1" ELSE "show")
  /\ UNCHANGED <<inputs, file, job, memory, history, events>>

(* inspect of a directory: all three files are there, whatever they hold.    *)
Look(c) ==
  /\ pc[c] = "look"
  /\ Goto(c, IF \E f \in {"receipt", "page", "assessment"} : file[f] = Absent
             THEN "1" ELSE "show")
  /\ UNCHANGED <<inputs, file, job, memory, history, events>>

(* Mutant: a file that is no receipt is shown too. *)
BugShowAnything(c) ==
  /\ pc[c] = "show" /\ Goto(c, "0")
  /\ printed' = [printed EXCEPT ![c] = file["receipt"]]
  /\ UNCHANGED <<inputs, file, job, memory, copied, demos, overlap, events>>

Show(c) ==
  /\ pc[c] = "show"
  /\ IF Readable(file["receipt"])
     THEN printed' = [printed EXCEPT ![c] = file["receipt"]] /\ Goto(c, "0")
     ELSE printed' = printed /\ Goto(c, "1")
  /\ UNCHANGED <<inputs, file, job, memory, copied, demos, overlap, events>>

(* break-receipt: read the source, flip one digit, write the copy, verify it. *)
LoadSource(c) ==
  /\ pc[c] = "load"
  /\ LET source == file[job[c].source] IN
     IF Readable(source)
     THEN /\ copied' = [copied EXCEPT ![c] = source]
          /\ held' = [held EXCEPT ![c] = Flip(source)] /\ Goto(c, "copy")
     ELSE UNCHANGED <<copied, held>> /\ Goto(c, "1")
  /\ UNCHANGED <<inputs, file, job, at, seen, printed, demos, overlap, events>>
EmptyCopy(c) == pc[c] = "copy" /\ Empty(c, Copy(job[c].source), "fill_copy")
FillCopy(c) == pc[c] = "fill_copy" /\ Fill(c, Copy(job[c].source), held[c], "verify_copy")
VerifyCopy(c) ==
  /\ pc[c] = "verify_copy"
  /\ LET copy == file[Copy(job[c].source)] IN
     \/ Goto(c, IF Verifies(copy) THEN "1" ELSE "0")
     \/ Intact(copy) /\ Goto(c, "raised")
  /\ UNCHANGED <<inputs, file, job, memory, history, events>>

Kill(c) ==
  /\ UnderWay(c) /\ Event(1) /\ Goto(c, "killed")
  /\ seen' = [seen EXCEPT ![c] = Unseen] /\ at' = [at EXCEPT ![c] = 1]
  /\ held' = [held EXCEPT ![c] = Absent]
  /\ UNCHANGED <<inputs, file, job, history>>

Build(c) ==
  \/ ReadPlan(c) \/ Read(c) \/ EmptyAssessment(c) \/ FillAssessment(c) \/ Sign(c)
  \/ EmptyReceipt(c) \/ FillReceipt(c) \/ VerifyReceipt(c) \/ EmptyPage(c) \/ FillPage(c)
Use(c) ==
  Look(c) \/ Show(c) \/ LoadSource(c) \/ EmptyCopy(c) \/ FillCopy(c) \/ VerifyCopy(c)
Next == Edit \/ \E c \in Commands : Start(c) \/ Build(c) \/ Use(c) \/ Kill(c)
Spec == Init /\ [][Next]_vars

-----------------------------------------------------------------------------
Labels == AtRest \cup {"plan", "read", "assessment", "fill_assessment", "sign", "receipt",
  "fill_receipt", "verify", "page", "fill_page", "look", "show", "load", "copy",
  "fill_copy", "verify_copy"}
Editions == [Uses -> [Scenario -> Nat]]
Signed == [by : Commands, kind : {"demo", "run-mock"}, told : Editions, ok : BOOLEAN,
           made : Digits, digit : Digits \cup {"0", "1"}]
(* Every file and every command holds what the code can put there. *)
TypeOK ==
  /\ disk \in [Scenario -> Nat] /\ plan \in Plans /\ events \in Nat
  /\ DOMAIN file = Files
  /\ \A f \in Receipts : file[f] \in Signed \cup {Absent, Torn}
  /\ file["assessment"] \in Commands \cup {Absent, Torn}
  /\ file["page"] \in [by : Commands, receipt : Signed] \cup {Absent, Torn}
  /\ job \in [Commands -> [kind : Kinds, source : Sources \cup {"none"}]]
  /\ pc \in [Commands -> Labels] /\ at \in [Commands -> Nat]
  /\ seen \in [Commands -> Editions]
  /\ \A m \in {held, copied, printed} : m \in [Commands -> Signed \cup {Absent}]
  /\ demos \in Seq(Commands) /\ overlap \in BOOLEAN

(***************************************************************************)
(* When the last of several demos that did not overlap has succeeded, its   *)
(* three artifacts belong together, whatever earlier ones were killed or    *)
(* failed in the same directory: the receipt on disk verifies, it hashes    *)
(* that assessment, and the page shows both (demo.py:112-142).              *)
(***************************************************************************)
DirectoryIsOneRun ==
  demos # <<>> /\ ~overlap /\ pc[demos[Len(demos)]] = "0" =>
    /\ Verifies(file["receipt"]) /\ file["assessment"] = file["receipt"].by
    /\ file["page"] = [by |-> file["assessment"], receipt |-> file["receipt"]]

(***************************************************************************)
(* A page that says "Receipt VERIFIED" shows a receipt that does, although  *)
(* it is another reading, of the disk, that was verified (demo.py:140), as  *)
(* long as no two demos share the directory at the same time.               *)
(***************************************************************************)
PageVerifies == Readable(file["page"]) => Verifies(file["page"].receipt)
PagesVerify == ~overlap => PageVerifies

(***************************************************************************)
(* "Receipt VERIFIED" (demo.py:89, 96), of any demos.  What verify.run read *)
(* may be the receipt of another demo, while the page shows the one in the  *)
(* memory of this demo, signed with a key that did not stay.                *)
(***************************************************************************)
ShownReceiptsVerify == PageVerifies

(***************************************************************************)
(* inspect takes a directory with all three files for a complete one        *)
(* (inspect.py:13): if one demo only ever wrote there, the receipt that     *)
(* inspect shows was verified, however the demo ended and whenever inspect  *)
(* looked.                                                                  *)
(***************************************************************************)
InspectionMeansVerified ==
  Len(demos) = 1 => \A c \in Commands : printed[c] # Absent => Verifies(printed[c])

(***************************************************************************)
(* "prove canonical verification fails" (break_receipt.py:2): a copy of     *)
(* demo's or run-mock's receipt never verifies, and a command that copied a *)
(* receipt which does verify is not told that its copy does too.            *)
(***************************************************************************)
TamperedCopiesFail ==
  /\ ~Verifies(file["receipt_tampered"]) /\ ~Verifies(file["local_tampered"])
  /\ \A c \in Commands : copied[c] # Absent /\ Verifies(copied[c]) => pc[c] # "1"

(***************************************************************************)
(* "A receipt is a ... record of what left the local machine for one AI      *)
(* task: which payload went to which provider ... The receipt proves what   *)
(* was sent" (RECEIPT_STANDARD.md:3-8): where payloads were handed over to  *)
(* adapters, the receipt hashes what they got.  demo and run-mock read the  *)
(* file again for the receipt (demo.py:113 and 121).                        *)
(***************************************************************************)
ReceiptTellsThePrompt ==
  plan = "pair" => \A f \in Receipts : Readable(file[f]) =>
    \A p \in Fragments : file[f].told["event"][p] = file[f].told["prompt"][p]
=============================================================================
