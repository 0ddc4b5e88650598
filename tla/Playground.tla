----------------------------- MODULE Playground -----------------------------
(***************************************************************************)
(* The page of `apl playground` (app/local_playground/app.js).  A click     *)
(* starts an asynchronous function: loadExample, runMock or showVerdict.    *)
(* Each of them gives way at every await, so several may be under way, over *)
(* the same globals and the same elements of the page.  Nothing cancels     *)
(* one, and no button is disabled meanwhile.                                *)
(***************************************************************************)
EXTENDS Naturals

CONSTANTS
  Examples,    \* directories under examples/
  FirstEx,     \* the example loaded when the page opens
  Nothing,     \* null, and what an element shows before it is filled
  Loads,       \* calls of loadExample that can be under way together
  FirstLoad,   \* the call made when the page opens
  Mocks,       \* likewise, of runMock
  Checks,      \* likewise, of showVerdict
  MaxClicks    \* bound: clicks of the user

ASSUME ExampleAssumption == FirstEx \in Examples /\ Nothing \notin Examples
ASSUME LoadAssumption == FirstLoad \in Loads
ASSUME ClickAssumption == MaxClicks \in Nat

VARIABLES
  EX, RECEIPT, TAMPERED,  \* the globals, each as the example it comes from
  load,      \* [at, ex] of each call of loadExample
  mock,      \* [at, ex] of each call of runMock
  check,     \* [at, ex, copy] of each call of showVerdict: the captured receipt
  page,      \* what is on the page: the example of each part, and whether the
             \* two sections with answers are shown
  card,      \* #verdict-card: whether it is shown, what it says
  banner,    \* the failure banner is up
  clicks,    \* how many clicks there were (bound)
  clicked,   \* history: the receipt the last Verify button was pressed for
  crowded    \* history: a function was started while another was under way

globals == <<EX, RECEIPT, TAMPERED>>
history == <<clicked, crowded>>
vars == <<globals, load, mock, check, page, card, banner, clicks, history>>

Copies == {"genuine", "tampered"}
Idle == [at |-> "resting", ex |-> Nothing]
NoCheck == [at |-> "resting", ex |-> Nothing, copy |-> "genuine"]

Busy == \/ \E l \in Loads : load[l].at # "resting"
        \/ \E m \in Mocks : mock[m].at # "resting"
        \/ \E c \in Checks : check[c].at # "resting"

(* #act2 and #act3, with their buttons, are hidden until the first render.   *)
ActsShown == page.texts # Nothing

Init ==
  /\ EX = FirstEx /\ RECEIPT = Nothing /\ TAMPERED = Nothing
  /\ load = [l \in Loads |-> IF l = FirstLoad THEN [at |-> "texts", ex |-> FirstEx]
                             ELSE Idle]
  /\ mock = [m \in Mocks |-> Idle]
  /\ check = [c \in Checks |-> NoCheck]
  /\ page = [texts |-> Nothing, receipt |-> Nothing, answerA |-> Nothing,
             answerB |-> Nothing, rehydrated |-> Nothing,
             answersShown |-> FALSE, rehydratedShown |-> FALSE]
  /\ card = [shown |-> FALSE, says |-> "nothing"]
  /\ banner = FALSE /\ clicks = 0
  /\ clicked = [ex |-> Nothing, copy |-> "genuine"] /\ crowded = FALSE

(* A rejected promise reaches the banner: loadExample's by its catch, the    *)
(* others' as unhandled rejections.                                         *)
Rejected == banner' = TRUE

(* Every click starts a function of its own. *)
Click ==
  /\ clicks < MaxClicks /\ clicks' = clicks + 1
  /\ crowded' = (crowded \/ Busy)

-----------------------------------------------------------------------------
(* loadExample up to its first await. *)
Choose(l, ex) ==
  /\ load[l].at = "resting" /\ load' = [load EXCEPT ![l] = [at |-> "texts", ex |-> ex]]
  /\ EX' = ex /\ Click
  /\ UNCHANGED <<RECEIPT, TAMPERED, mock, check, page, card, banner, clicked>>

(* The four texts: their awaits set local variables only, so they are one step. *)
TextsArrive(l) ==
  /\ load[l].at = "texts" /\ load' = [load EXCEPT ![l].at = "receipt"]
  /\ UNCHANGED <<globals, mock, check, page, card, banner, clicks, history>>

ReceiptArrives(l) ==
  /\ load[l].at = "receipt" /\ load' = [load EXCEPT ![l].at = "tampered"]
  /\ RECEIPT' = load[l].ex
  /\ UNCHANGED <<EX, TAMPERED, mock, check, page, card, banner, clicks, history>>

(* Mutant: the receipt is shown from a local variable, set before the others. *)
BugReceiptLocal(l) ==
  /\ load[l].at = "tampered" /\ load' = [load EXCEPT ![l] = Idle]
  /\ TAMPERED' = load[l].ex
  /\ page' = [page EXCEPT !.texts = load[l].ex, !.receipt = load[l].ex,
                          !.answersShown = FALSE, !.rehydratedShown = FALSE]
  /\ card' = [card EXCEPT !.shown = FALSE]
  /\ UNCHANGED <<EX, RECEIPT, mock, check, banner, clicks, history>>

(* Mutants: the answers of the last example stay; its verdict stays.        *)
BugAnswersStay(l) ==
  /\ load[l].at = "tampered" /\ load' = [load EXCEPT ![l] = Idle]
  /\ TAMPERED' = load[l].ex
  /\ page' = [page EXCEPT !.texts = load[l].ex, !.receipt = RECEIPT]
  /\ card' = [card EXCEPT !.shown = FALSE]
  /\ UNCHANGED <<EX, RECEIPT, mock, check, banner, clicks, history>>
BugVerdictStays(l) ==
  /\ load[l].at = "tampered" /\ load' = [load EXCEPT ![l] = Idle]
  /\ TAMPERED' = load[l].ex
  /\ page' = [page EXCEPT !.texts = load[l].ex, !.receipt = RECEIPT,
                          !.answersShown = FALSE, !.rehydratedShown = FALSE]
  /\ UNCHANGED <<EX, RECEIPT, card, mock, check, banner, clicks, history>>

(* The last fetch: everything is rendered, the texts from the call's own     *)
(* variables, the receipt from the global; answers and verdict are hidden.  *)
Render(l) ==
  /\ load[l].at = "tampered" /\ load' = [load EXCEPT ![l] = Idle]
  /\ TAMPERED' = load[l].ex
  /\ page' = [page EXCEPT !.texts = load[l].ex, !.receipt = RECEIPT,
                          !.answersShown = FALSE, !.rehydratedShown = FALSE]
  /\ card' = [shown |-> FALSE, says |-> card.says]
  /\ UNCHANGED <<EX, RECEIPT, mock, check, banner, clicks, history>>

(* Mutant: a failed load leaves no example chosen. *)
BugForgetExample(l) ==
  /\ load[l].at # "resting" /\ load' = [load EXCEPT ![l] = Idle]
  /\ Rejected /\ EX' = Nothing
  /\ UNCHANGED <<RECEIPT, TAMPERED, mock, check, page, card, clicks, history>>

LoadFails(l) ==
  /\ load[l].at # "resting" /\ load' = [load EXCEPT ![l] = Idle]
  /\ Rejected
  /\ UNCHANGED <<globals, mock, check, page, card, clicks, history>>

LoadStep(l) == TextsArrive(l) \/ ReceiptArrives(l) \/ Render(l) \/ LoadFails(l)

-----------------------------------------------------------------------------
(* runMock: the directory is that of EX at the click. *)
RunMock(m) ==
  /\ ActsShown /\ mock[m].at = "resting"
  /\ mock' = [mock EXCEPT ![m] = [at |-> "answer_a", ex |-> EX]]
  /\ Click
  /\ UNCHANGED <<globals, load, check, page, card, banner, clicked>>

AnswerAArrives(m) ==
  /\ mock[m].at = "answer_a" /\ mock' = [mock EXCEPT ![m].at = "answer_b"]
  /\ page' = [page EXCEPT !.answerA = mock[m].ex]
  /\ UNCHANGED <<globals, load, check, card, banner, clicks, history>>

AnswerBArrives(m) ==
  /\ mock[m].at = "answer_b" /\ mock' = [mock EXCEPT ![m].at = "rehydrated"]
  /\ page' = [page EXCEPT !.answerB = mock[m].ex, !.answersShown = TRUE]
  /\ UNCHANGED <<globals, load, check, card, banner, clicks, history>>

RehydratedArrives(m) ==
  /\ mock[m].at = "rehydrated" /\ mock' = [mock EXCEPT ![m] = Idle]
  /\ page' = [page EXCEPT !.rehydrated = mock[m].ex, !.rehydratedShown = TRUE]
  /\ UNCHANGED <<globals, load, check, card, banner, clicks, history>>

MockFails(m) ==
  /\ mock[m].at # "resting" /\ mock' = [mock EXCEPT ![m] = Idle]
  /\ Rejected
  /\ UNCHANGED <<globals, load, check, page, card, clicks, history>>

MockStep(m) == AnswerAArrives(m) \/ AnswerBArrives(m) \/ RehydratedArrives(m) \/ MockFails(m)

-----------------------------------------------------------------------------
(* #verify-good and #verify-bad: showVerdict captures a global.              *)
Press(c, copy) ==
  /\ ActsShown /\ check[c].at = "resting"
  /\ LET receipt == [ex |-> IF copy = "genuine" THEN RECEIPT ELSE TAMPERED, copy |-> copy] IN
     /\ check' = [check EXCEPT ![c] = [at |-> "hash", ex |-> receipt.ex, copy |-> copy]]
     /\ clicked' = receipt
  /\ card' = [shown |-> TRUE, says |-> "verifying"]
  /\ Click
  /\ UNCHANGED <<globals, load, mock, page, banner>>

(* The result reaches the card, hidden or not, of this press or another.     *)
Verdict(c, says) ==
  /\ check' = [check EXCEPT ![c] = NoCheck]
  /\ card' = [card EXCEPT !.says = says]
  /\ UNCHANGED <<globals, load, mock, page, banner, clicks, history>>
Advance(c, at) ==
  /\ check' = [check EXCEPT ![c].at = at]
  /\ UNCHANGED <<globals, load, mock, page, card, banner, clicks, history>>

(* Mutant: the recomputed hash is not compared. *)
BugHashIgnored(c) == check[c].at = "hash" /\ Advance(c, "key")

(* The canonical hash: the tampered copy fails here. *)
CompareHash(c) ==
  /\ check[c].at = "hash"
  /\ IF check[c].copy = "tampered" THEN Verdict(c, "fail") ELSE Advance(c, "key")

KeyArrives(c) == check[c].at = "key" /\ Advance(c, "signature")

(* Mutant: a key that cannot be had ends the function without a word. *)
BugKeyFailureLost(c) ==
  /\ check[c].at = "key" /\ check' = [check EXCEPT ![c] = NoCheck]
  /\ UNCHANGED <<globals, load, mock, page, card, banner, clicks, history>>

(* No key file, or a browser without Ed25519. *)
KeyFails(c) == check[c].at = "key" /\ Verdict(c, "fail")

(* The signature is of receipt_hash, which the tampered copy has left alone. *)
CheckSignature(c) == check[c].at = "signature" /\ Verdict(c, "ok")

CheckFails(c) ==
  /\ check[c].at \in {"hash", "signature"} /\ check' = [check EXCEPT ![c] = NoCheck]
  /\ Rejected
  /\ UNCHANGED <<globals, load, mock, page, card, clicks, history>>

CheckStep(c) ==
  CompareHash(c) \/ KeyArrives(c) \/ KeyFails(c) \/ CheckSignature(c) \/ CheckFails(c)

-----------------------------------------------------------------------------
Clicks ==
  \/ \E l \in Loads, ex \in Examples : Choose(l, ex)
  \/ \E m \in Mocks : RunMock(m)
  \/ \E c \in Checks, copy \in Copies : Press(c, copy)
Next ==
  \/ Clicks
  \/ \E l \in Loads : LoadStep(l)
  \/ \E m \in Mocks : MockStep(m)
  \/ \E c \in Checks : CheckStep(c)

Spec == Init /\ [][Next]_vars

(* The browser settles every promise: the server is a thread per request on  *)
(* loopback, a dead one closes its connections, WebCrypto answers.  The     *)
(* user need not click.                                                     *)
FairSpec ==
  /\ Spec
  /\ \A l \in Loads : WF_vars(LoadStep(l))
  /\ \A m \in Mocks : WF_vars(MockStep(m))
  /\ \A c \in Checks : WF_vars(CheckStep(c))

-----------------------------------------------------------------------------
MaybeEx == Examples \cup {Nothing}
(* Every global, call and element holds what the code can put there. *)
TypeOK ==
  /\ EX \in Examples /\ RECEIPT \in MaybeEx /\ TAMPERED \in MaybeEx
  /\ load \in [Loads -> [at : {"resting", "texts", "receipt", "tampered"}, ex : MaybeEx]]
  /\ mock \in [Mocks -> [at : {"resting", "answer_a", "answer_b", "rehydrated"}, ex : MaybeEx]]
  /\ check \in [Checks -> [at : {"resting", "hash", "key", "signature"}, ex : MaybeEx,
                           copy : Copies]]
  /\ page \in [texts : MaybeEx, receipt : MaybeEx, answerA : MaybeEx, answerB : MaybeEx,
               rehydrated : MaybeEx, answersShown : BOOLEAN, rehydratedShown : BOOLEAN]
  /\ card \in [shown : BOOLEAN, says : {"nothing", "verifying", "ok", "fail"}]
  /\ banner \in BOOLEAN /\ crowded \in BOOLEAN /\ clicks \in Nat
  /\ clicked \in [ex : MaybeEx, copy : Copies]

(***************************************************************************)
(* However many examples are loading at once, and in whatever order their   *)
(* answers come: when no load is under way and none has failed, the receipt *)
(* that the page shows is the one that the button verifies, and the texts   *)
(* are of the example whose copy the other button verifies (app.js:347).    *)
(***************************************************************************)
ButtonsVerifyWhatIsShown ==
  (\A l \in Loads : load[l].at = "resting") /\ ~banner =>
    page.receipt = RECEIPT /\ page.texts = TAMPERED /\ RECEIPT # Nothing

(***************************************************************************)
(* As long as no function was started while another was under way, and none *)
(* failed, the page is of one example: texts, receipt, the globals and the  *)
(* answers that are shown (app.js:238-306).                                 *)
(***************************************************************************)
QuietPageIsOneExample ==
  ~crowded /\ ~banner =>
    /\ (\A l \in Loads : load[l].at = "resting") =>
         {page.texts, page.receipt, RECEIPT, TAMPERED} = {EX}
    /\ page.answersShown => page.answerB = page.texts
    /\ page.rehydratedShown => {page.answerA, page.answerB, page.rehydrated} = {page.texts}

(***************************************************************************)
(* Under the same condition, a verdict that is shown is of the last press   *)
(* and of the receipt on the page, and says "verified" of no tampered copy  *)
(* (app.js:313-320).                                                        *)
(***************************************************************************)
QuietVerdictsFit ==
  ~crowded /\ ~banner /\ card.shown /\ card.says \in {"ok", "fail"} =>
    clicked.ex = page.receipt /\ (card.says = "ok" => clicked.copy = "genuine")

(***************************************************************************)
(* "a trust product must not fail silently" (app.js:324): whatever fails,   *)
(* and however often the buttons are pressed, "verifying in your browser"   *)
(* does not stay: a verdict, the banner or another example takes its place. *)
(***************************************************************************)
PressesAreAnswered ==
  card.shown /\ card.says = "verifying" ~>
    card.says # "verifying" \/ banner \/ ~card.shown

(***************************************************************************)
(* At no moment is a press forgotten (app.js:308-330): as long as the card  *)
(* says "verifying" and nothing failed, a verification is under way that    *)
(* will have the word, however many others came and went.                   *)
(***************************************************************************)
NoPressIsForgotten ==
  card.says = "verifying" /\ ~banner => \E c \in Checks : check[c].at # "resting"

(***************************************************************************)
(* "The tampered receipt must fail" (local_playground/README.md): when      *)
(* nothing failed, no verification is under way and the last button pressed *)
(* was that of the tampered copy, the card does not say that a receipt was  *)
(* verified.                                                                *)
(***************************************************************************)
TamperedMustFail ==
  ~banner /\ card.shown /\ clicked.copy = "tampered" /\ (\A c \in Checks : check[c].at = "resting") =>
    card.says # "ok"
=============================================================================
