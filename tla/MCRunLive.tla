----------------------------- MODULE MCRunLive -----------------------------
(* Small instances of RunLive: names for the constants of the .cfg files.   *)
EXTENDS RunLive

A == "mock_provider_a"
B == "mock_provider_b"
C == "pricing"
Pair == <<A, B>>

(* "u" is the text the secret "s" leaks into; "q" leaks into nothing. *)
SmallLeaks == [s \in Secrets |-> IF s = "s" THEN {"u"} ELSE {}]

SmallChars == [t \in Texts |-> IF t = "" THEN 0 ELSE 1]

Legacy == [fragments |-> <<>>, task |-> TRUE]
NoTask == [fragments |-> <<>>, task |-> FALSE]
Three == [fragments |-> <<C, A, B>>, task |-> TRUE]
One == [fragments |-> <<A>>, task |-> TRUE]
Twice == [fragments |-> <<A, A>>, task |-> TRUE]
Two == [fragments |-> <<A, C>>, task |-> TRUE]

LegacyPlans == {Legacy}
Swapped == [fragments |-> <<B, A>>, task |-> TRUE]
EditedPlans == {Legacy, Swapped}
AllPlans == {Legacy, Three, One, Twice, Two, NoTask}
TaskPlans == {Legacy, NoTask}

S(f, k) == [id |-> f, kind |-> k]
Default == <<>>
NoSeatArgs == {Default}
Named == <<S(A, "openai"), S(C, "openai")>>
AllSeatArgs ==
  {Default, Named,
   <<S(C, "openai"), S(A, "anthropic"), S(B, "openai")>>,      \* in another order
   <<S(A, "openai"), S(A, "anthropic"), S(B, "openai")>>,      \* named twice
   <<S(A, "mystery"), S(B, "openai")>>,                        \* unknown kind
   <<S(B, "anthropic"), S(A, "openai")>>}

Genuine == [id |-> ForeignId, keyId |-> "demo", signer |-> DemoKey, prev |-> NoPrev]
Modified == [id |-> ForeignId, keyId |-> "demo", signer |-> ForgedKey, prev |-> NoPrev]
Missing == NoReceipt
NoOther == {Missing}
AllOthers == {Genuine, Modified, Missing}

Global(n) == [name |-> n, seat |-> EverySeat, loopback |-> FALSE]
Own(n, f) == [name |-> n, seat |-> f, loopback |-> FALSE]
Local(f) == [name |-> "APL_OPENAI_BASE_URL", seat |-> f, loopback |-> TRUE]
Anthropic == {Global("ANTHROPIC_API_KEY")}
Key == {Global("OPENAI_API_KEY")}
Model == {Global("APL_OPENAI_MODEL")}
LocalModel == Model \cup {Local(EverySeat)}
OneEnv == {Anthropic \cup Key \cup Model}
AllEnvs ==
  {{}, Anthropic, Key \cup Model, Anthropic \cup Key, Anthropic \cup Model,
   Anthropic \cup Key \cup Model, Anthropic \cup LocalModel,
   Anthropic \cup Key \cup {Own("APL_OPENAI_MODEL", B)},            \* a model for one seat
   Anthropic \cup Model \cup {Local(A)},                           \* a local seat
   Anthropic \cup LocalModel \cup {Own("APL_OPENAI_BASE_URL", B)}}  \* all but one

AllAndSwapped == AllPlans \cup {Swapped}

-----------------------------------------------------------------------------
(* Three parts of the state space, which RunLive_scenes visits in one run.  *)
Holds(texts) == disk.original \in texts /\ \A f \in Fragments : disk.payload[f] \in texts
Answers(texts, completions) ==
  \A f \in Fragments : resp[f].text \in texts /\ resp[f].completion \in completions
Usual == args.seats = Default /\ args.user = "yes" /\ args.env \in OneEnv

(* A file is edited during the only run. *)
EditScene ==
  /\ run <= 1 /\ disk.plan \in EditedPlans /\ disk.other = Missing /\ disk.payload[C] = ""
  /\ run = 1 => Usual /\ args.chain = "none"
  /\ Answers({"", "yes"}, {"none", "complete"})

(* The only run has some arguments, environment, plan and answers; if not    *)
(* the usual environment, then of texts that are all the same.              *)
ArgumentScene ==
  /\ run <= 1 /\ edits = 0 /\ disk.local = "q" /\ disk.other = Missing
  /\ Holds({"", "t"}) /\ disk.plan \in AllPlans
  /\ run = 1 => /\ args.chain = "none"
                /\ args.env \notin OneEnv => args.user = "yes" /\ Holds({""})

(* Several runs over the same files, each chained onto what there is.       *)
RunScene ==
  /\ edits = 0 /\ Holds({""}) /\ disk.local = "q" /\ disk.plan = Legacy
  /\ disk.other # Missing       \* "kept" may name no file as well
  /\ run > 0 => Usual
  /\ Answers({""}, {"none", "complete"})
  /\ \A r \in ledger : \A f \in DOMAIN r.events :
       r.events[f].answer = "" /\ r.events[f].completion \in {"none", "complete"}
  /\ \A f \in Fragments : out.answer[f].text = ""

InScene == EditScene \/ ArgumentScene \/ RunScene

(* A scene of one run is over with that run. *)
UsualArgs == [seats : {Default}, chain : ChainArgs, user : {"yes"}, env : OneEnv]
SceneNext ==
  /\ \/ pc # "idle" \/ run = 0
     \/ RunScene /\ args' \in UsualArgs
  /\ Next /\ InScene'
SceneInit == Init /\ InScene
SceneSpec == SceneInit /\ [][SceneNext]_vars /\ WF_vars(Step)
=============================================================================
