---------------------------- MODULE MCPlayground ----------------------------
(* Small instances of Playground: the two examples of the page.             *)
EXTENDS Playground

CONSTANTS l1, l2, m1, c1, c2

TwoLoads == {l1, l2}
OneMock == {m1}
OneCheck == {c1}
TwoChecks == {c1, c2}
TwoExamples == {"00_private_matter", "01_private_code_context"}
=============================================================================
