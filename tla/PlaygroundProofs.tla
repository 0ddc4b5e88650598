-------------------------- MODULE PlaygroundProofs --------------------------
(* Proofs about Playground, for any number of examples, clicks and calls    *)
(* under way.                                                               *)
EXTENDS Playground, TLAPS

USE ExampleAssumption, LoadAssumption, ClickAssumption

(***************************************************************************)
(* The globals are set between awaits, the page only after the last: a      *)
(* receipt that the page does not show yet belongs to a load that will      *)
(* show it, or fail.                                                        *)
(***************************************************************************)
LoadedInv ==
  /\ \A l \in Loads : load[l].at # "resting" => load[l].ex \in Examples
  /\ page.texts = TAMPERED
  /\ ~banner =>
       /\ page.receipt = RECEIPT \/ \E l \in Loads : load[l].at = "tampered"
       /\ RECEIPT # Nothing \/ load[FirstLoad].at \in {"texts", "receipt"}

(***************************************************************************)
(* What one function at a time finds and leaves, if none failed.            *)
(***************************************************************************)
OneAtATime ==
  /\ \A k, l \in Loads : load[k].at # "resting" /\ load[l].at # "resting" => k = l
  /\ \A m, n \in Mocks : mock[m].at # "resting" /\ mock[n].at # "resting" => m = n
  /\ \A c, d \in Checks : check[c].at # "resting" /\ check[d].at # "resting" => c = d
  /\ \A l \in Loads, m \in Mocks : load[l].at = "resting" \/ mock[m].at = "resting"
  /\ \A l \in Loads, c \in Checks : load[l].at = "resting" \/ check[c].at = "resting"
  /\ \A m \in Mocks, c \in Checks : mock[m].at = "resting" \/ check[c].at = "resting"
OneExample ==
  /\ \A l \in Loads : load[l].at # "resting" => load[l].ex = EX
  /\ \A l \in Loads : load[l].at = "tampered" => RECEIPT = EX
  /\ (\A l \in Loads : load[l].at = "resting") =>
       page.texts = EX /\ page.receipt = EX /\ RECEIPT = EX /\ TAMPERED = EX
  /\ \A m \in Mocks :
       /\ mock[m].at # "resting" => mock[m].ex = EX
       /\ mock[m].at \in {"answer_b", "rehydrated"} => page.answerA = EX
       /\ mock[m].at = "rehydrated" => page.answerB = EX
  /\ page.answersShown => page.answerB = page.texts
  /\ page.rehydratedShown => /\ page.answerA = page.texts /\ page.answerB = page.texts
                             /\ page.rehydrated = page.texts
OneVerdict ==
  /\ \A c \in Checks : check[c].at # "resting" =>
       check[c].copy = clicked.copy /\ clicked.ex = page.receipt
  /\ \A c \in Checks : check[c].at \in {"key", "signature"} => check[c].copy = "genuine"
  /\ card.shown => clicked.ex = page.receipt
  /\ card.shown /\ card.says = "ok" => clicked.copy = "genuine"
QuietInv == ~crowded /\ ~banner => OneAtATime /\ OneExample /\ OneVerdict

PageInv == TypeOK /\ LoadedInv /\ QuietInv
-----------------------------------------------------------------------------
(* A click keeps the history if nothing else was under way.                 *)
LEMMA ClickFacts ==
  ASSUME TypeOK, Click
  PROVE  clicks' \in Nat /\ crowded' \in BOOLEAN /\ (~crowded' => ~crowded /\ ~Busy)
<1>1. crowded' = (crowded \/ Busy)
  BY Zenon DEF Click
<1>2. crowded' \in BOOLEAN
  BY <1>1, Zenon
<1>3. ~crowded' => ~crowded /\ ~Busy
  BY <1>1, Zenon
<1> QED BY <1>2, <1>3 DEF Click, TypeOK

(* Every step keeps the types. *)
LEMMA TypeStep == ASSUME TypeOK, [Next]_vars PROVE TypeOK'
<1> USE DEF TypeOK, MaybeEx, Copies, Idle, NoCheck, globals, history
<1>1. ASSUME NEW l \in Loads, NEW ex \in Examples, Choose(l, ex) PROVE TypeOK'
  BY <1>1, ClickFacts DEF Choose
<1>2. ASSUME NEW l \in Loads, TextsArrive(l) PROVE TypeOK'
  <2>1. load[l] = [at |-> load[l].at, ex |-> load[l].ex]
    OBVIOUS
  <2>2. [load[l] EXCEPT !.at = "receipt"] = [at |-> "receipt", ex |-> load[l].ex]
    BY <2>1
  <2>3. load' = [load EXCEPT ![l] = [load[l] EXCEPT !.at = "receipt"]]
    BY <1>2 DEF TextsArrive
  <2>4. load' \in [Loads -> [at : {"resting", "texts", "receipt", "tampered"}, ex : MaybeEx]]
    BY <2>2, <2>3
  <2> QED BY <1>2, <2>4 DEF TextsArrive
<1>3. ASSUME NEW l \in Loads, ReceiptArrives(l) PROVE TypeOK'
  BY <1>3 DEF ReceiptArrives
<1>4. ASSUME NEW l \in Loads, Render(l) PROVE TypeOK'
  BY <1>4 DEF Render
<1>5. ASSUME NEW l \in Loads, LoadFails(l) PROVE TypeOK'
  BY <1>5 DEF LoadFails, Rejected
<1>6. ASSUME NEW m \in Mocks, RunMock(m) PROVE TypeOK'
  BY <1>6, ClickFacts DEF RunMock
<1>7. ASSUME NEW m \in Mocks, AnswerAArrives(m) PROVE TypeOK'
  <2>1. mock' \in [Mocks -> [at : {"resting", "answer_a", "answer_b", "rehydrated"}, ex : MaybeEx]]
    BY <1>7 DEF AnswerAArrives
  <2>2. page' \in [texts : MaybeEx, receipt : MaybeEx, answerA : MaybeEx, answerB : MaybeEx,
                   rehydrated : MaybeEx, answersShown : BOOLEAN, rehydratedShown : BOOLEAN]
    BY <1>7 DEF AnswerAArrives
  <2> QED BY <1>7, <2>1, <2>2 DEF AnswerAArrives
<1>8. ASSUME NEW m \in Mocks, AnswerBArrives(m) PROVE TypeOK'
  <2>1. mock' \in [Mocks -> [at : {"resting", "answer_a", "answer_b", "rehydrated"}, ex : MaybeEx]]
    BY <1>8 DEF AnswerBArrives
  <2>2. page' \in [texts : MaybeEx, receipt : MaybeEx, answerA : MaybeEx, answerB : MaybeEx,
                   rehydrated : MaybeEx, answersShown : BOOLEAN, rehydratedShown : BOOLEAN]
    BY <1>8 DEF AnswerBArrives
  <2> QED BY <1>8, <2>1, <2>2 DEF AnswerBArrives
<1>9. ASSUME NEW m \in Mocks, RehydratedArrives(m) PROVE TypeOK'
  BY <1>9 DEF RehydratedArrives
<1>10. ASSUME NEW m \in Mocks, MockFails(m) PROVE TypeOK'
  BY <1>10 DEF MockFails, Rejected
<1>11. ASSUME NEW c \in Checks, NEW copy \in Copies, Press(c, copy) PROVE TypeOK'
  BY <1>11, ClickFacts DEF Press
<1>12. ASSUME NEW c \in Checks, CompareHash(c) PROVE TypeOK'
  BY <1>12 DEF CompareHash, Verdict, Advance
<1>13. ASSUME NEW c \in Checks, KeyArrives(c) PROVE TypeOK'
  BY <1>13 DEF KeyArrives, Advance
<1>14. ASSUME NEW c \in Checks, KeyFails(c) PROVE TypeOK'
  BY <1>14 DEF KeyFails, Verdict
<1>15. ASSUME NEW c \in Checks, CheckSignature(c) PROVE TypeOK'
  BY <1>15 DEF CheckSignature, Verdict
<1>16. ASSUME NEW c \in Checks, CheckFails(c) PROVE TypeOK'
  BY <1>16 DEF CheckFails, Rejected
<1>17. CASE UNCHANGED vars
  BY <1>17 DEF vars
<1> QED
  BY <1>1, <1>2, <1>3, <1>4, <1>5, <1>6, <1>7, <1>8, <1>9, <1>10, <1>11, <1>12, <1>13,
  <1>14, <1>15, <1>16, <1>17 DEF Next, Clicks, LoadStep, MockStep, CheckStep

(* Every step keeps what holds of loads, however many are under way. *)
LEMMA LoadedStep == ASSUME TypeOK, LoadedInv, [Next]_vars PROVE LoadedInv'
<1> USE DEF TypeOK, LoadedInv, MaybeEx, Idle, globals, history
<1>1. ASSUME NEW l \in Loads, NEW ex \in Examples, Choose(l, ex) PROVE LoadedInv'
  BY <1>1, ClickFacts DEF Choose
<1>2. ASSUME NEW l \in Loads, TextsArrive(l) PROVE LoadedInv'
  BY <1>2 DEF TextsArrive
<1>3. ASSUME NEW l \in Loads, ReceiptArrives(l) PROVE LoadedInv'
  BY <1>3 DEF ReceiptArrives
<1>4. ASSUME NEW l \in Loads, Render(l) PROVE LoadedInv'
  BY <1>4 DEF Render
<1>5. ASSUME NEW l \in Loads, LoadFails(l) PROVE LoadedInv'
  BY <1>5 DEF LoadFails, Rejected
<1>6. ASSUME NEW m \in Mocks, RunMock(m) PROVE LoadedInv'
  BY <1>6, ClickFacts DEF RunMock
<1>7. ASSUME NEW m \in Mocks, AnswerAArrives(m) PROVE LoadedInv'
  BY <1>7 DEF AnswerAArrives
<1>8. ASSUME NEW m \in Mocks, AnswerBArrives(m) PROVE LoadedInv'
  BY <1>8 DEF AnswerBArrives
<1>9. ASSUME NEW m \in Mocks, RehydratedArrives(m) PROVE LoadedInv'
  BY <1>9 DEF RehydratedArrives
<1>10. ASSUME NEW m \in Mocks, MockFails(m) PROVE LoadedInv'
  BY <1>10 DEF MockFails, Rejected
<1>11. ASSUME NEW c \in Checks, NEW copy \in Copies, Press(c, copy) PROVE LoadedInv'
  BY <1>11, ClickFacts DEF Press
<1>12. ASSUME NEW c \in Checks, CompareHash(c) PROVE LoadedInv'
  BY <1>12 DEF CompareHash, Verdict, Advance
<1>13. ASSUME NEW c \in Checks, KeyArrives(c) PROVE LoadedInv'
  BY <1>13 DEF KeyArrives, Advance
<1>14. ASSUME NEW c \in Checks, KeyFails(c) PROVE LoadedInv'
  BY <1>14 DEF KeyFails, Verdict
<1>15. ASSUME NEW c \in Checks, CheckSignature(c) PROVE LoadedInv'
  BY <1>15 DEF CheckSignature, Verdict
<1>16. ASSUME NEW c \in Checks, CheckFails(c) PROVE LoadedInv'
  BY <1>16 DEF CheckFails, Rejected
<1>17. CASE UNCHANGED vars
  BY <1>17 DEF vars
<1> QED
  BY <1>1, <1>2, <1>3, <1>4, <1>5, <1>6, <1>7, <1>8, <1>9, <1>10, <1>11, <1>12, <1>13,
  <1>14, <1>15, <1>16, <1>17 DEF Next, Clicks, LoadStep, MockStep, CheckStep

(* Every step that does not crowd the page keeps it of one example. *)
LEMMA QuietStep == ASSUME TypeOK, QuietInv, [Next]_vars PROVE QuietInv'
<1> USE DEF TypeOK, MaybeEx, Copies, Idle, NoCheck, globals, history
<1> SUFFICES ASSUME ~crowded', ~banner' PROVE (OneAtATime /\ OneExample /\ OneVerdict)'
  BY Zenon DEF QuietInv
<1> DEFINE Goal == OneAtATime /\ OneExample /\ OneVerdict
<1>1. ASSUME NEW l \in Loads, NEW ex \in Examples, Choose(l, ex) PROVE Goal'
  <2>1. ~crowded /\ ~banner /\ ~Busy /\ QuietInv
    BY <1>1, ClickFacts DEF Choose
  <2>2. OneAtATime /\ OneExample /\ OneVerdict
    BY <2>1, Zenon DEF QuietInv
  <2>3. OneAtATime'
    BY <1>1, <2>1 DEF Choose, Busy, OneAtATime
  <2>4. OneExample'
    BY <1>1, <2>1, <2>2 DEF Choose, Busy, OneExample
  <2>5. OneVerdict'
    BY <1>1, <2>1, <2>2 DEF Choose, Busy, OneVerdict, OneExample
  <2> QED BY <2>3, <2>4, <2>5
<1>2. ASSUME NEW l \in Loads, TextsArrive(l) PROVE Goal'
  BY <1>2 DEF TextsArrive, QuietInv, OneAtATime, OneExample, OneVerdict
<1>3. ASSUME NEW l \in Loads, ReceiptArrives(l) PROVE Goal'
  BY <1>3 DEF ReceiptArrives, QuietInv, OneAtATime, OneExample, OneVerdict
<1>4. ASSUME NEW l \in Loads, Render(l) PROVE Goal'
  BY <1>4 DEF Render, QuietInv, OneAtATime, OneExample, OneVerdict
<1>5. ASSUME NEW l \in Loads, LoadFails(l) PROVE Goal'
  BY <1>5 DEF LoadFails, Rejected, QuietInv, OneAtATime, OneExample, OneVerdict
<1>6. ASSUME NEW m \in Mocks, RunMock(m) PROVE Goal'
  <2>1. ~crowded /\ ~banner /\ ~Busy /\ QuietInv
    BY <1>6, ClickFacts DEF RunMock
  <2>2. OneAtATime /\ OneExample /\ OneVerdict
    BY <2>1, Zenon DEF QuietInv
  <2>3. OneAtATime'
    BY <1>6, <2>1 DEF RunMock, Busy, OneAtATime
  <2>4. OneExample'
    BY <1>6, <2>1, <2>2 DEF RunMock, Busy, OneExample
  <2>5. OneVerdict'
    BY <1>6, <2>1, <2>2 DEF RunMock, Busy, OneVerdict, OneExample
  <2> QED BY <2>3, <2>4, <2>5
<1>7. ASSUME NEW m \in Mocks, AnswerAArrives(m) PROVE Goal'
  BY <1>7 DEF AnswerAArrives, QuietInv, OneAtATime, OneExample, OneVerdict
<1>8. ASSUME NEW m \in Mocks, AnswerBArrives(m) PROVE Goal'
  BY <1>8 DEF AnswerBArrives, QuietInv, OneAtATime, OneExample, OneVerdict
<1>9. ASSUME NEW m \in Mocks, RehydratedArrives(m) PROVE Goal'
  BY <1>9 DEF RehydratedArrives, QuietInv, OneAtATime, OneExample, OneVerdict
<1>10. ASSUME NEW m \in Mocks, MockFails(m) PROVE Goal'
  BY <1>10 DEF MockFails, Rejected, QuietInv, OneAtATime, OneExample, OneVerdict
<1>11. ASSUME NEW c \in Checks, NEW copy \in Copies, Press(c, copy) PROVE Goal'
  <2>1. ~crowded /\ ~banner /\ ~Busy /\ QuietInv
    BY <1>11, ClickFacts DEF Press
  <2>2. OneAtATime /\ OneExample /\ OneVerdict
    BY <2>1, Zenon DEF QuietInv
  <2>3. OneAtATime'
    BY <1>11, <2>1 DEF Press, Busy, OneAtATime
  <2>4. OneExample'
    BY <1>11, <2>1, <2>2 DEF Press, Busy, OneExample
  <2>5. OneVerdict'
    BY <1>11, <2>1, <2>2 DEF Press, Busy, OneVerdict, OneExample
  <2> QED BY <2>3, <2>4, <2>5
<1>12. ASSUME NEW c \in Checks, CompareHash(c) PROVE Goal'
  <2>1. ~crowded /\ ~banner /\ OneAtATime /\ OneExample /\ OneVerdict
    BY <1>12, Zenon DEF CompareHash, Verdict, Advance, QuietInv
  <2>2. CASE check[c].copy = "tampered"
    <3>1. Verdict(c, "fail")
      BY <1>12, <2>2 DEF CompareHash
    <3>2. OneAtATime'
      BY <2>1, <3>1 DEF Verdict, OneAtATime
    <3>3. OneExample'
      BY <2>1, <3>1 DEF Verdict, OneExample
    <3>4. OneVerdict'
      BY <2>1, <3>1 DEF Verdict, OneVerdict
    <3> QED BY <3>2, <3>3, <3>4
  <2>3. CASE check[c].copy # "tampered"
    BY <1>12, <2>1, <2>3 DEF CompareHash, Advance, OneAtATime, OneExample, OneVerdict
  <2> QED BY <2>2, <2>3
<1>13. ASSUME NEW c \in Checks, KeyArrives(c) PROVE Goal'
  BY <1>13 DEF KeyArrives, Advance, QuietInv, OneAtATime, OneExample, OneVerdict
<1>14. ASSUME NEW c \in Checks, KeyFails(c) PROVE Goal'
  BY <1>14 DEF KeyFails, Verdict, QuietInv, OneAtATime, OneExample, OneVerdict
<1>15. ASSUME NEW c \in Checks, CheckSignature(c) PROVE Goal'
  BY <1>15 DEF CheckSignature, Verdict, QuietInv, OneAtATime, OneExample, OneVerdict
<1>16. ASSUME NEW c \in Checks, CheckFails(c) PROVE Goal'
  BY <1>16 DEF CheckFails, Rejected, QuietInv, OneAtATime, OneExample, OneVerdict
<1>17. CASE UNCHANGED vars
  BY <1>17 DEF vars, QuietInv, OneAtATime, OneExample, OneVerdict
<1> QED
  BY <1>1, <1>2, <1>3, <1>4, <1>5, <1>6, <1>7, <1>8, <1>9, <1>10, <1>11, <1>12, <1>13,
  <1>14, <1>15, <1>16, <1>17 DEF Next, Clicks, LoadStep, MockStep, CheckStep

(* A new page. *)
LEMMA PageInit == Init => PageInv
<1> SUFFICES ASSUME Init PROVE PageInv
  OBVIOUS
<1> USE DEF Init, Idle, NoCheck
<1>1. TypeOK
  BY DEF TypeOK, MaybeEx, Copies
<1>2. LoadedInv
  BY DEF LoadedInv
<1>3. OneAtATime /\ OneExample /\ OneVerdict
  BY DEF OneAtATime, OneExample, OneVerdict
<1> QED BY <1>1, <1>2, <1>3 DEF PageInv, QuietInv

(* The inductive invariant of the page. *)
THEOREM PageInvariance == Spec => []PageInv
<1>1. ASSUME PageInv, [Next]_vars PROVE PageInv'
  BY <1>1, TypeStep, LoadedStep, QuietStep DEF PageInv
<1> QED BY <1>1, PageInit, PTL DEF Spec

(* Every global, call and element of the page (app.js) keeps its type.      *)
THEOREM TypeCorrect == Spec => []TypeOK
<1>1. PageInv => TypeOK
  BY DEF PageInv
<1> QED BY <1>1, PageInvariance, PTL

(* The buttons verify what the page shows (app.js:347-348) whenever no load *)
(* is under way and none failed, for any number of loads at once.           *)
THEOREM ButtonsFit == Spec => []ButtonsVerifyWhatIsShown
<1>1. PageInv => ButtonsVerifyWhatIsShown
  BY DEF PageInv, LoadedInv, ButtonsVerifyWhatIsShown
<1> QED BY <1>1, PageInvariance, PTL

(* One function at a time leaves a page of one example (app.js:238-306).    *)
THEOREM QuietPage == Spec => []QuietPageIsOneExample
<1>1. PageInv => QuietPageIsOneExample
  BY DEF PageInv, QuietInv, OneExample, QuietPageIsOneExample
<1> QED BY <1>1, PageInvariance, PTL

(* One function at a time leaves the verdict of the receipt that is shown   *)
(* and of the last button pressed (app.js:308-322).                         *)
THEOREM QuietVerdict == Spec => []QuietVerdictsFit
<1>1. PageInv => QuietVerdictsFit
  BY DEF PageInv, QuietInv, OneVerdict, QuietVerdictsFit
<1> QED BY <1>1, PageInvariance, PTL

-----------------------------------------------------------------------------
(* A step of a verification leaves another one under way, or its own, or    *)
(* ends it with a word on the card or a rejection.                          *)
LEMMA PressStep ==
  ASSUME TypeOK, NoPressIsForgotten, [Next]_vars
  PROVE  NoPressIsForgotten'
<1> USE DEF NoPressIsForgotten, TypeOK, globals, history, Rejected, Click
<1>1. CASE \E l \in Loads, ex \in Examples : Choose(l, ex)
  BY <1>1 DEF Choose
<1>2. CASE \E m \in Mocks : RunMock(m)
  BY <1>2 DEF RunMock
<1>3. CASE \E c \in Checks, copy \in Copies : Press(c, copy)
  <2>1. PICK c \in Checks, copy \in Copies : Press(c, copy)
    BY <1>3
  <2>2. check'[c].at # "resting"
    BY <2>1 DEF Press
  <2> QED
    BY <2>2
<1>4. CASE \E l \in Loads : LoadStep(l)
  BY <1>4 DEF LoadStep, TextsArrive, ReceiptArrives, Render, LoadFails
<1>5. CASE \E m \in Mocks : MockStep(m)
  BY <1>5 DEF MockStep, AnswerAArrives, AnswerBArrives, RehydratedArrives, MockFails
<1>6. ASSUME NEW c \in Checks, CheckStep(c) PROVE NoPressIsForgotten'
  <2>1. CASE \E at \in {"key", "signature"} : Advance(c, at)
    <3>1. check'[c].at # "resting"
      BY <2>1 DEF Advance
    <3> QED
      BY <3>1
  <2>2. CASE \E says \in {"ok", "fail"} : Verdict(c, says)
    <3>1. card'.says # "verifying"
      BY <2>2 DEF Verdict
    <3> QED
      BY <3>1
  <2>3. CASE CheckFails(c)
    BY <2>3 DEF CheckFails
  <2> QED
    BY <1>6, <2>1, <2>2, <2>3
    DEF CheckStep, CompareHash, KeyArrives, KeyFails, CheckSignature
<1>7. CASE UNCHANGED vars
  BY <1>7 DEF vars
<1> QED
  BY <1>1, <1>2, <1>3, <1>4, <1>5, <1>6, <1>7 DEF Next, Clicks

(* Whatever overtakes what, a press that was not answered is being answered *)
(* (app.js:308-330), for any number of verifications at once: the safety in *)
(* PressesAreAnswered.                                                      *)
THEOREM NoneForgotten == Spec => []NoPressIsForgotten
<1>1. Init => NoPressIsForgotten
  BY DEF Init, NoPressIsForgotten
<1>2. TypeOK /\ NoPressIsForgotten /\ [Next]_vars => NoPressIsForgotten'
  BY PressStep
<1> QED BY <1>1, <1>2, TypeCorrect, PTL DEF Spec
=============================================================================
