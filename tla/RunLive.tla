------------------------------- MODULE RunLive -------------------------------
(***************************************************************************)
(* `apl run-live` (cli/commands/run_live.py): one process reads a scenario *)
(* directory, gates it, shows it, sends one payload to each seat and leaves *)
(* a signed receipt.  The user's editor may change the files at any time,   *)
(* providers may answer, fail or say nothing, and the process may be killed *)
(* between any two steps.  The output directory, the key files and every    *)
(* receipt outlive the process, so the runs of one user follow each other.  *)
(***************************************************************************)
EXTENDS Naturals, Sequences, FiniteSets

CONSTANTS
  Fragments,    \* ids a masking plan may declare
  LegacyPair,   \* the two ids of a plan that declares no fragments
  Texts,        \* what an input or payload file may hold
  EmptyText,    \* the empty text
  NoText,       \* what a buffer holds before its file is read
  Secrets,      \* what local_only.json may hold
  Leaks,        \* Leaks[s]: the texts in which a value of s is a substring
  Chars,        \* Chars[t]: how many characters a text has
  Plans,        \* what masking_plan.yaml may hold: [fragments, task]
  AnswerTexts,  \* what a provider may answer
  Unencodable,  \* the answers that have no UTF-8 encoding (lone surrogates)
  StopReasons,  \* why a provider may say that its answer ended
  SeatArgs,     \* the --seat lists a user may type
  ChainArgs,    \* the --chain arguments a user may type
  OtherFiles,   \* what the receipt file outside the output directory may hold
  Users,        \* how the user consents: --yes, at a terminal, with neither
  Envs,         \* which of Settings the environment holds
  MaxRuns,      \* bound: runs of the command
  MaxEdits      \* bound: edits of the scenario files

Kinds == {"anthropic", "openai"}
(* A variable of the environment, its name with the suffix of one seat or   *)
(* with none; of its value only whether it is the URL of a loopback host.   *)
EverySeat == "every seat"
Names == {"ANTHROPIC_API_KEY", "OPENAI_API_KEY", "APL_OPENAI_MODEL", "APL_OPENAI_BASE_URL"}
Settings == [name : Names, seat : Fragments \cup {EverySeat}, loopback : BOOLEAN]
Completions == {"complete", "truncated", "unknown"}

FRAGMENT_MIN == 2
FRAGMENT_MAX == 5

(* Key pairs are numbers: run n makes key n if it has to make one. *)
NoKey == 0
DemoKey == MaxRuns + 1                   \* the published key of spec/
ForgedKey == MaxRuns + 2                 \* what no public key file matches
KeyIds == {"apl-local-demo-key", "demo"}
LocalKeyId == "apl-local-demo-key"

NoPrev == 0
ForeignId == MaxRuns + 1                 \* the hash of the receipt elsewhere
NoReceipt == [id |-> NoPrev]
NoResponse == [text |-> EmptyText, completion |-> "none"]
NoPlan == [fragments |-> <<>>, task |-> FALSE]

ASSUME FragmentAssumption ==
  /\ IsFiniteSet(Fragments)
  /\ LegacyPair \in Seq(Fragments) /\ Len(LegacyPair) = 2
  /\ \A m, n \in DOMAIN LegacyPair : LegacyPair[m] = LegacyPair[n] => m = n
ASSUME TextAssumption ==
  /\ EmptyText \in Texts \cap AnswerTexts /\ EmptyText \notin Unencodable
  /\ NoText \notin Texts \cup Secrets
  /\ Leaks \in [Secrets -> SUBSET Texts] /\ Chars \in [Texts -> Nat]
ASSUME PlanAssumption == Plans \subseteq [fragments : Seq(Fragments), task : BOOLEAN]
ASSUME SeatAssumption == SeatArgs \subseteq Seq([id : STRING, kind : STRING])
ASSUME ChainAssumption ==
  /\ ChainArgs \subseteq {"none", "own", "other", "kept"}
  /\ \A r \in OtherFiles :
       \/ r = NoReceipt
       \/ r \in [id : {ForeignId}, keyId : KeyIds, signer : Nat, prev : Nat \ (1 .. MaxRuns)]
ASSUME UserAssumption == Users \subseteq {"yes", "tty", "no_tty"} /\ Envs \subseteq SUBSET Settings
ASSUME BoundAssumption == MaxRuns \in Nat /\ MaxEdits \in Nat

VARIABLES
  disk,     \* the scenario files, and a receipt file kept elsewhere
  edits,    \* how many edits there were (bound)
  keys,     \* the key directory: the private and the public key file
  out,      \* the output directory: receipt.live.json, live_answer_*.txt
  run,      \* number of the current (or last) run; it stands for its ULID
  pc,       \* next step of the run, "idle" between runs
  exit,     \* how the last run ended: "0", "1", "2", "raised", "killed"
  args,     \* command line and environment of the run
  ids,      \* fragment ids in the order of the plan
  buf,      \* the single-read buffers (load_run_inputs)
  kind,     \* provider kind of each seat (resolve_seats)
  prev,     \* prev_hash
  key,      \* the private key held in memory
  i,        \* position in ids, of the reading loop and of the transmit loop
  resp,     \* responses
  failed,   \* failures
  shown,    \* history: what the preflight of this run printed, seat by seat
  wire,     \* history: the requests that reached a provider
  posts,    \* history: requests made to each seat in this run
  ledger    \* history: every receipt ever written

world == <<disk, edits>>
inputs == <<args, ids, buf, kind, prev>>
loop == <<i, resp, failed>>
history == <<shown, wire, posts, ledger>>
vars == <<world, keys, out, run, pc, exit, inputs, key, loop, history>>

-----------------------------------------------------------------------------
Elems(s) == {s[n] : n \in DOMAIN s}
Injective(s) == \A m, n \in DOMAIN s : s[m] = s[n] => m = n

(* load_fragments: a plan without fragments means the two legacy seats; a  *)
(* bad count or a repeated id is a SystemExit.                              *)
FragmentsAccepted(plan) ==
  \/ plan.fragments = <<>>
  \/ /\ FRAGMENT_MIN <= Len(plan.fragments) /\ Len(plan.fragments) <= FRAGMENT_MAX
     /\ Injective(plan.fragments)
DeclaredIds(plan) == IF plan.fragments = <<>> THEN LegacyPair ELSE plan.fragments

(* _seat_env: the setting of the seat, or else that of every seat.          *)
SeatEnv(name, f) ==
  LET of(g) == {x \in args.env : x.name = name /\ x.seat = g}
  IN IF of(f) # {} THEN of(f) ELSE of(EverySeat)

(* from_env of the two adapters, for the seat of fragment f; the API keys    *)
(* are never a seat's own.                                                  *)
AnthropicFromEnv == SeatEnv("ANTHROPIC_API_KEY", EverySeat) # {}
OpenAIFromEnv(f) ==
  /\ SeatEnv("APL_OPENAI_MODEL", f) # {}
  /\ \/ SeatEnv("OPENAI_API_KEY", EverySeat) # {}
     \/ \E x \in SeatEnv("APL_OPENAI_BASE_URL", f) : x.loopback
FromEnv(k, f) == IF k = "anthropic" THEN AnthropicFromEnv ELSE OpenAIFromEnv(f)

(* resolve_seats: ByokConfigError unless every fragment is named exactly    *)
(* once with a known kind (two fragments may go unnamed), and every adapter *)
(* finds its configuration in the environment.                              *)
SeatsResolve ==
  IF args.seats = <<>>
  THEN Len(ids) = 2 /\ FromEnv("anthropic", ids[1]) /\ FromEnv("openai", ids[2])
  ELSE LET named == {spec.id : spec \in Elems(args.seats)} IN
       /\ named = Elems(ids) /\ Cardinality(named) = Len(args.seats)
       /\ \A spec \in Elems(args.seats) : spec.kind \in Kinds /\ FromEnv(spec.kind, spec.id)
ResolvedKind(f) ==
  IF args.seats = <<>> THEN IF f = ids[1] THEN "anthropic" ELSE "openai"
  ELSE (CHOOSE spec \in Elems(args.seats) : spec.id = f).kind

(* Mutant: the gate of `apl mask`, which reads the files again. *)
BugGateRereads == \E f \in Elems(ids) : disk.payload[f] \in Leaks[disk.local]

(* leak_findings_from_texts over the buffers. *)
LeakFound == \E f \in Elems(ids) : buf.payload[f] \in Leaks[buf.local]

(* exposure_view_from_texts refuses an empty original with payloads. *)
ExposureRefused ==
  buf.original = EmptyText /\ \E f \in Elems(ids) : buf.payload[f] # EmptyText

(* resolve_pubkey_path and verify_receipt: the key directory is searched    *)
(* first, then spec/, which holds the demo key only.  A malformed or        *)
(* modified receipt is one whose signer no public key matches.              *)
PublicKey(keyId) == IF keyId = LocalKeyId THEN keys.pub ELSE DemoKey
Verifies(r) == r # NoReceipt /\ PublicKey(r.keyId) = r.signer /\ r.signer # NoKey

(* Mutant: prev_hash stays that of the first receipt. *)
BugFirstHash(rs, pub) ==
  /\ \A n \in DOMAIN rs : rs[n].signer = pub /\ pub # NoKey
  /\ \A n \in DOMAIN rs \ {1} : rs[n].prev = rs[1].id

(* verify_chain: each receipt against ONE key, and linked to the one before. *)
ChainVerifies(rs, pub) ==
  /\ \A n \in DOMAIN rs : rs[n].signer = pub /\ pub # NoKey
  /\ \A n \in DOMAIN rs \ {1} : rs[n].prev = rs[n - 1].id

(* The bridge's: without --pubkey (NoKey) it is the key of the first.        *)
BridgeVerifies(rs, pub) == ChainVerifies(rs, IF pub = NoKey THEN PublicKey(rs[1].keyId) ELSE pub)

(* The exit codes of `apl verify`, of the standalone `apl-verify`, which     *)
(* insists on --pubkey, and of the old verifier/apl_verify.py.               *)
AplVerify(rs, pub) ==
  IF NoReceipt \in Elems(rs) THEN "1"
  ELSE IF rs = <<>> THEN "2"
  ELSE IF BridgeVerifies(rs, pub) THEN "0" ELSE "1"
StandaloneVerify(rs, pub) ==
  IF rs = <<>> \/ pub = NoKey THEN "2"
  ELSE IF NoReceipt \in Elems(rs) THEN "1"
  ELSE IF ChainVerifies(rs, pub) THEN "0" ELSE "1"
OldVerify(rs, pub) == IF rs = <<>> THEN "2" ELSE AplVerify(rs, pub)

(* What --chain may name: receipt.live.json of the output directory, the    *)
(* receipt elsewhere, a copy the user kept of any receipt, or no file.      *)
ChainFiles ==
  CASE args.chain = "own" -> {out.receipt}
    [] args.chain = "other" -> {disk.other}
    [] args.chain = "kept" -> ledger \cup {NoReceipt}
    [] OTHER -> {}

Message(f) == [run |-> run, seat |-> f, kind |-> kind[f], text |-> buf.payload[f]]
Seat == ids[i]

(* What _preflight prints of a message: the seat, whom it goes to and how    *)
(* many characters it has, never the text.                                  *)
Description(m) == [run |-> m.run, seat |-> m.seat, kind |-> m.kind, chars |-> Chars[m.text]]

(* Mutant: the receipt hashes the payload file, not the buffer. *)
BugEventRereads(f) ==
  [kind |-> kind[f], payload |-> disk.payload[f], answer |-> resp[f].text,
   type |-> IF resp[f].text = EmptyText THEN "no_response" ELSE "live_response",
   completion |-> resp[f].completion]

(* build_receipt_body and sign_receipt. *)
Event(f) ==
  [kind |-> kind[f], payload |-> buf.payload[f], answer |-> resp[f].text,
   type |-> IF resp[f].text = EmptyText THEN "no_response" ELSE "live_response",
   completion |-> resp[f].completion]
SignedReceipt ==
  [id |-> run, keyId |-> LocalKeyId, signer |-> key, prev |-> prev,
   events |-> [f \in Elems(ids) |-> Event(f)], local |-> buf.local,
   sawFull |-> \E f \in Elems(ids) : buf.payload[f] = buf.original]

-----------------------------------------------------------------------------
Disk == [original : Texts, payload : [Fragments -> Texts], local : Secrets,
         plan : Plans, other : OtherFiles]
Unread == [original |-> NoText, payload |-> [f \in Fragments |-> NoText],
           local |-> NoText, plan |-> NoPlan]
NoArgs == [seats |-> <<>>, chain |-> "none", user |-> "no_tty", env |-> {}]

Init ==
  /\ disk \in Disk /\ edits = 0
  /\ keys = [priv |-> NoKey, pub |-> NoKey]
  /\ out = [receipt |-> NoReceipt,
            answer |-> [f \in Fragments |-> [run |-> 0, text |-> EmptyText]]]
  /\ run = 0 /\ pc = "idle" /\ exit = "none"
  /\ args = NoArgs /\ ids = <<>> /\ buf = Unread
  /\ kind = [f \in Fragments |-> "openai"] /\ prev = NoPrev /\ key = NoKey
  /\ i = 1 /\ resp = [f \in Fragments |-> NoResponse] /\ failed = {}
  /\ shown = {} /\ wire = {} /\ posts = [f \in Fragments |-> 0] /\ ledger = {}

(* The user's editor: one file of the scenario changes, at any time. *)
Edit ==
  /\ edits < MaxEdits /\ edits' = edits + 1
  /\ \/ \E t \in Texts : disk' = [disk EXCEPT !.original = t]
     \/ \E f \in Fragments, t \in Texts : disk' = [disk EXCEPT !.payload[f] = t]
     \/ \E s \in Secrets : disk' = [disk EXCEPT !.local = s]
     \/ \E p \in Plans : disk' = [disk EXCEPT !.plan = p]
  /\ UNCHANGED <<keys, out, run, pc, exit, inputs, key, loop, history>>

(* The user starts the command; a new process, the old files. *)
Start ==
  /\ pc = "idle" /\ run < MaxRuns
  /\ \E s \in SeatArgs, c \in ChainArgs, u \in Users, e \in Envs :
       args' = [seats |-> s, chain |-> c, user |-> u, env |-> e]
  /\ run' = run + 1 /\ pc' = "fragments" /\ exit' = "running"
  /\ ids' = <<>> /\ buf' = Unread /\ kind' = [f \in Fragments |-> "openai"]
  /\ prev' = NoPrev /\ key' = NoKey
  /\ i' = 1 /\ resp' = [f \in Fragments |-> NoResponse] /\ failed' = {}
  /\ shown' = {} /\ posts' = [f \in Fragments |-> 0]
  /\ UNCHANGED <<world, keys, out, wire, ledger>>

(* The run ends: run returns a code, or an exception ends the process. *)
End(how) == pc' = "idle" /\ exit' = how
Goto(l) == pc' = l /\ exit' = exit

(* example_paths: the plan is read for the fragment list ... *)
LoadFragments ==
  /\ pc = "fragments"
  /\ IF FragmentsAccepted(disk.plan)
     THEN ids' = DeclaredIds(disk.plan) /\ Goto("original")
     ELSE ids' = ids /\ End("1")
  /\ UNCHANGED <<world, keys, out, run, args, buf, kind, prev, key, loop, history>>

(* ... then load_run_inputs reads each file once, one after the other. *)
ReadOriginal ==
  /\ pc = "original" /\ Goto("payloads")
  /\ buf' = [buf EXCEPT !.original = disk.original]
  /\ UNCHANGED <<world, keys, out, run, args, ids, kind, prev, key, loop, history>>

ReadPayload ==
  /\ pc = "payloads"
  /\ buf' = [buf EXCEPT !.payload[Seat] = disk.payload[Seat]]
  /\ IF i < Len(ids) THEN i' = i + 1 /\ Goto("payloads") ELSE i' = 1 /\ Goto("local")
  /\ UNCHANGED <<world, keys, out, run, args, ids, kind, prev, key, resp, failed, history>>

ReadLocalOnly ==
  /\ pc = "local" /\ Goto("plan")
  /\ buf' = [buf EXCEPT !.local = disk.local]
  /\ UNCHANGED <<world, keys, out, run, args, ids, kind, prev, key, loop, history>>

ReadPlan ==
  /\ pc = "plan" /\ Goto("leaks")
  /\ buf' = [buf EXCEPT !.plan = disk.plan]
  /\ UNCHANGED <<world, keys, out, run, args, ids, kind, prev, key, loop, history>>

LeakGate ==
  /\ pc = "leaks"
  /\ IF LeakFound THEN End("1") ELSE Goto("chain")
  /\ UNCHANGED <<world, keys, out, run, inputs, key, loop, history>>

(* Mutant: the chained receipt is parsed and not verified. *)
BugChainUnverified ==
  /\ pc = "chain"
  /\ \/ args.chain = "none" /\ prev' = NoPrev /\ Goto("seats")
     \/ \E r \in ChainFiles : r # NoReceipt /\ prev' = r.id /\ Goto("seats")
     \/ NoReceipt \in ChainFiles /\ prev' = prev /\ End("1")
  /\ UNCHANGED <<world, keys, out, run, args, ids, buf, kind, key, loop, history>>

ChainGate ==
  /\ pc = "chain"
  /\ \/ args.chain = "none" /\ prev' = NoPrev /\ Goto("seats")
     \/ \E r \in ChainFiles : Verifies(r) /\ prev' = r.id /\ Goto("seats")
     \/ \E r \in ChainFiles : ~Verifies(r) /\ prev' = prev /\ End("1")
  /\ UNCHANGED <<world, keys, out, run, args, ids, buf, kind, key, loop, history>>

ResolveSeats ==
  /\ pc = "seats"
  /\ IF SeatsResolve
     THEN kind' = [f \in Fragments |-> IF f \in Elems(ids) THEN ResolvedKind(f) ELSE kind[f]]
          /\ Goto("preflight")
     ELSE kind' = kind /\ End("2")
  /\ UNCHANGED <<world, keys, out, run, args, ids, buf, prev, key, loop, history>>

Preflight ==
  /\ pc = "preflight"
  /\ IF ExposureRefused THEN shown' = shown /\ End("1")
     ELSE shown' = {Description(Message(f)) : f \in Elems(ids)} /\ Goto("confirm")
  /\ UNCHANGED <<world, keys, out, run, inputs, key, loop, wire, posts, ledger>>

(* _confirm: --yes, or a terminal whose user types "send". *)
Confirm ==
  /\ pc = "confirm" /\ args.user # "tty"
  /\ IF args.user = "yes" THEN Goto("transmit") ELSE End("1")
  /\ UNCHANGED <<world, keys, out, run, inputs, key, loop, history>>

UserTypes ==
  /\ pc = "confirm" /\ args.user = "tty"
  /\ Goto("transmit") \/ End("1")
  /\ UNCHANGED <<world, keys, out, run, inputs, key, loop, history>>

(* Mutant: the transmit loop reads the payload file again. *)
BugPostRereads ==
  /\ pc = "transmit" /\ i <= Len(ids) /\ Goto("await")
  /\ posts' = [posts EXCEPT ![Seat] = @ + 1]
  /\ wire' \in {wire, wire \cup {[Message(Seat) EXCEPT !.text = disk.payload[Seat]]}}
  /\ UNCHANGED <<world, keys, out, run, inputs, key, loop, shown, ledger>>

(* adapter.complete posts the payload; the request may be lost on its way. *)
Post ==
  /\ pc = "transmit" /\ i <= Len(ids) /\ Goto("await")
  /\ posts' = [posts EXCEPT ![Seat] = @ + 1]
  /\ wire' \in {wire, wire \cup {Message(Seat)}}
  /\ UNCHANGED <<world, keys, out, run, inputs, key, loop, shown, ledger>>

(* The request reached the provider (this model's knowledge, not the code's). *)
Delivered == Message(Seat) \in wire

(* complete of the two adapters: only a known reason says "complete".        *)
AnthropicResponse(text, reason) ==
  [text |-> text, completion |-> CASE reason = "max_tokens" -> "truncated"
                                   [] reason \in {"end_turn", "stop_sequence"} -> "complete"
                                   [] OTHER -> "unknown"]
OpenAIResponse(text, reason) ==
  [text |-> text, completion |-> CASE reason = "length" -> "truncated"
                                   [] reason = "stop" -> "complete"
                                   [] OTHER -> "unknown"]

ProviderAnswers ==
  /\ pc = "await" /\ Delivered /\ Goto("answered")
  /\ \E t \in AnswerTexts, reason \in StopReasons :
       resp' = [resp EXCEPT ![Seat] = IF kind[Seat] = "anthropic" THEN AnthropicResponse(t, reason)
                                      ELSE OpenAIResponse(t, reason)]
  /\ UNCHANGED <<world, keys, out, run, inputs, key, i, failed, history>>

(* Mutants: a failed call is tried again; no timeout ends a call whose      *)
(* request arrived; a failed call skips the next seat.                      *)
BugRetry ==
  /\ pc = "await" /\ Goto("transmit")
  /\ UNCHANGED <<world, keys, out, run, inputs, key, loop, history>>
BugNoTimeout ==
  /\ pc = "await" /\ ~Delivered /\ Goto("transmit")
  /\ resp' = [resp EXCEPT ![Seat] = NoResponse]
  /\ failed' = failed \cup {Seat} /\ i' = i + 1
  /\ UNCHANGED <<world, keys, out, run, inputs, key, history>>
BugSkip ==
  /\ pc = "await" /\ Goto("transmit")
  /\ resp' = [resp EXCEPT ![Seat] = NoResponse]
  /\ failed' = failed \cup {Seat} /\ i' = i + 2
  /\ UNCHANGED <<world, keys, out, run, inputs, key, history>>

(* Refused, timed out, HTTP error, oversized, not JSON, wrong shape. *)
TransportFails ==
  /\ pc = "await" /\ Goto("transmit")
  /\ resp' = [resp EXCEPT ![Seat] = NoResponse]
  /\ failed' = failed \cup {Seat} /\ i' = i + 1
  /\ UNCHANGED <<world, keys, out, run, inputs, key, history>>

(* A text block whose text is not a string: TypeError in the adapter's join. *)
AnswerMalformed ==
  /\ pc = "await" /\ Delivered /\ kind[Seat] = "anthropic" /\ End("raised")
  /\ UNCHANGED <<world, keys, out, run, inputs, key, loop, history>>

(* Mutant: an empty answer is not written. *)
BugEmptyNotSaved ==
  /\ pc = "answered" /\ i' = i + 1 /\ Goto("transmit")
  /\ out' = IF resp[Seat].text = EmptyText THEN out
            ELSE [out EXCEPT !.answer[Seat] = [run |-> run, text |-> resp[Seat].text]]
  /\ UNCHANGED <<world, keys, run, inputs, key, resp, failed, history>>

(* live_answer_<id>.local.txt; an unencodable text raises and leaves the    *)
(* file empty.                                                              *)
SaveAnswer ==
  /\ pc = "answered"
  /\ LET text == resp[Seat].text
         save(t) == out' = [out EXCEPT !.answer[Seat] = [run |-> run, text |-> t]]
     IN IF text \in Unencodable THEN save(EmptyText) /\ i' = i /\ End("raised")
        ELSE save(text) /\ i' = i + 1 /\ Goto("transmit")
  /\ UNCHANGED <<world, keys, run, inputs, key, resp, failed, history>>

(* Mutant: a new key pair for every run. *)
BugKeyEveryRun ==
  /\ pc = "transmit" /\ i > Len(ids)
  /\ key' = run /\ keys' = [keys EXCEPT !.priv = run] /\ Goto("pubkey")
  /\ UNCHANGED <<world, out, run, inputs, loop, history>>

(* ensure_local_keypair: load the private key, or make one and write the    *)
(* private file, then the public one.                                       *)
EnsureKey ==
  /\ pc = "transmit" /\ i > Len(ids)
  /\ IF keys.priv # NoKey THEN key' = keys.priv /\ keys' = keys /\ Goto("receipt")
     ELSE key' = run /\ keys' = [keys EXCEPT !.priv = run] /\ Goto("pubkey")
  /\ UNCHANGED <<world, out, run, inputs, loop, history>>

WritePublicKey ==
  /\ pc = "pubkey" /\ Goto("receipt")
  /\ keys' = [keys EXCEPT !.pub = key]
  /\ UNCHANGED <<world, out, run, inputs, key, loop, history>>

(* Mutant: a run with a failed seat leaves no receipt. *)
BugNoPartialReceipt ==
  /\ pc = "receipt"
  /\ IF failed = {} THEN out' = [out EXCEPT !.receipt = NoReceipt] /\ Goto("filling")
     ELSE out' = out /\ End("1")
  /\ UNCHANGED <<world, keys, run, inputs, key, loop, history>>

(* build_receipt_body, then write_text opens the file, which empties it.  A  *)
(* plan without task_type is a KeyError, raised only now.                   *)
OpenReceipt ==
  /\ pc = "receipt"
  /\ IF buf.plan.task THEN out' = [out EXCEPT !.receipt = NoReceipt] /\ Goto("filling")
     ELSE out' = out /\ End("raised")
  /\ UNCHANGED <<world, keys, run, inputs, key, loop, history>>

WriteReceipt ==
  /\ pc = "filling" /\ Goto("selfverify")
  /\ out' = [out EXCEPT !.receipt = SignedReceipt]
  /\ ledger' = ledger \cup {SignedReceipt}
  /\ UNCHANGED <<world, keys, run, inputs, key, loop, shown, wire, posts>>

SelfVerify ==
  /\ pc = "selfverify"
  /\ IF Verifies(out.receipt) THEN Goto("combined") ELSE End("raised")
  /\ UNCHANGED <<world, keys, out, run, inputs, key, loop, history>>

WriteCombined ==
  /\ pc = "combined" /\ End(IF failed = {} THEN "0" ELSE "1")
  /\ UNCHANGED <<world, keys, out, run, inputs, key, loop, history>>

(* A kill, Ctrl-C, or an OSError nobody catches, between any two steps. *)
Kill ==
  /\ pc # "idle" /\ End("killed")
  /\ UNCHANGED <<world, keys, out, run, inputs, key, loop, history>>

Step ==
  \/ LoadFragments \/ ReadOriginal \/ ReadPayload \/ ReadLocalOnly \/ ReadPlan
  \/ LeakGate \/ ChainGate \/ ResolveSeats \/ Preflight \/ Confirm
  \/ Post \/ TransportFails \/ SaveAnswer
  \/ EnsureKey \/ WritePublicKey \/ OpenReceipt \/ WriteReceipt \/ SelfVerify \/ WriteCombined
Others == Edit \/ Start \/ UserTypes \/ ProviderAnswers \/ AnswerMalformed \/ Kill
Next == Step \/ Others

Spec == Init /\ [][Next]_vars

(* The process is scheduled, and post_json gives every call a timeout, so   *)
(* TransportFails needs no provider.  Nothing is assumed of the user, the   *)
(* editor or the providers.                                                 *)
FairSpec == Spec /\ WF_vars(Step)

-----------------------------------------------------------------------------
(* Where the process can be, and the ways it can end. *)
Labels == {"idle", "fragments", "original", "payloads", "local", "plan", "leaks",
           "chain", "seats", "preflight", "confirm", "transmit", "await",
           "answered", "pubkey", "receipt", "filling", "selfverify", "combined"}
Exits == {"none", "running", "0", "1", "2", "raised", "killed"}
RunNumbers == 0 .. MaxRuns
Events == [kind : Kinds, payload : Texts, answer : AnswerTexts,
           type : {"no_response", "live_response"}, completion : Completions \cup {"none"}]
IsReceipt(r) ==
  /\ DOMAIN r.events \subseteq Fragments /\ r.events \in [DOMAIN r.events -> Events]
  /\ r \in [id : RunNumbers, keyId : {LocalKeyId}, signer : Nat, prev : Nat,
            events : {r.events}, local : Secrets, sawFull : BOOLEAN]
Messages == [run : RunNumbers, seat : Fragments, kind : Kinds, text : Texts]
Descriptions == [run : RunNumbers, seat : Fragments, kind : Kinds, chars : Nat]

KeyFiles == [priv : RunNumbers, pub : RunNumbers]
AnswerFiles == [Fragments -> [run : RunNumbers, text : AnswerTexts]]
IsOutDir(o) ==
  /\ o \in [receipt : {o.receipt}, answer : AnswerFiles]
  /\ o.receipt # NoReceipt => IsReceipt(o.receipt)
Arguments == [seats : SeatArgs \cup {<<>>}, chain : {"none", "own", "other", "kept"},
              user : {"yes", "tty", "no_tty"}, env : SUBSET Settings]
Buffers == [original : Texts \cup {NoText}, payload : [Fragments -> Texts \cup {NoText}],
            local : Secrets \cup {NoText}, plan : Plans \cup {NoPlan}]
Responses == [text : AnswerTexts, completion : Completions \cup {"none"}]

(* Every variable holds what the code can put into it. *)
TypeOK ==
  /\ disk \in Disk /\ edits \in Nat /\ keys \in KeyFiles /\ IsOutDir(out)
  /\ run \in RunNumbers /\ pc \in Labels /\ exit \in Exits
  /\ args \in Arguments /\ ids \in Seq(Fragments) /\ buf \in Buffers
  /\ kind \in [Fragments -> Kinds] /\ prev \in Nat /\ key \in RunNumbers
  /\ i \in 1 .. Len(ids) + 1
  /\ resp \in [Fragments -> Responses] /\ failed \subseteq Fragments
  /\ shown \subseteq Descriptions /\ wire \subseteq Messages
  /\ posts \in [Fragments -> Nat] /\ \A r \in ledger : IsReceipt(r)

(* What reached a provider in the current run, and the receipt it wrote. *)
Sent == {m \in wire : m.run = run}
Recorded == \E r \in ledger : r.id = run

(***************************************************************************)
(* "a failing plan is never transmitted" and "to whom, and how much - per   *)
(* seat" (run_live.py:7-11): whatever the user edits while the command      *)
(* runs, a request that reaches a provider goes to the destination, and has *)
(* the size, that the preflight printed for its seat, and it holds no value *)
(* of the local-only file the run read.                                     *)
(***************************************************************************)
OnlyVettedBytesLeave ==
  \A m \in Sent : Description(m) \in shown /\ m.text \notin Leaks[buf.local]

(***************************************************************************)
(* What the documentation says the preflight does besides, "show exactly    *)
(* what will leave the machine" (run_live.py:9): what was printed of a      *)
(* request that left fits its text and no other.                            *)
(***************************************************************************)
PreflightShowsWhatLeaves ==
  \A m \in Sent, t \in Texts : Description([m EXCEPT !.text = t]) \in shown => t = m.text

(***************************************************************************)
(* A receipt attests exactly the disclosure: of each request that reached a *)
(* provider it names the seat, the kind and the payload; it claims an       *)
(* answer only from a provider that got its payload; and the local-only     *)
(* values it fingerprints are those the leak gate compared with the wire.   *)
(***************************************************************************)
ReceiptTellsTheWire ==
  \A r \in ledger :
    /\ \A m \in wire : m.run = r.id =>
         /\ m.seat \in DOMAIN r.events /\ m.text \notin Leaks[r.local]
         /\ r.events[m.seat].payload = m.text /\ r.events[m.seat].kind = m.kind
    /\ \A f \in DOMAIN r.events : r.events[f].type = "live_response" =>
         \E m \in wire : m.run = r.id /\ m.seat = f

(***************************************************************************)
(* "one user message per seat" (run_live.py:12): no seat is asked twice in  *)
(* a run, however its call ended, so no failure doubles a disclosure.       *)
(***************************************************************************)
OneMessagePerSeat == \A f \in Fragments : posts[f] <= 1

(***************************************************************************)
(* The exit code tells the disclosure.  2: a configuration error sent       *)
(* nothing.  1: nothing was sent, or some call failed and the receipt of    *)
(* this run stands on disk and verifies.  0: no call failed, and the        *)
(* receipt and all answer files on disk are of this run and agree.          *)
(***************************************************************************)
ExitCodeTellsTheDisclosure ==
  LET onDisk == out.receipt # NoReceipt /\ out.receipt.id = run /\ Verifies(out.receipt) IN
  /\ exit = "2" => Sent = {}
  /\ exit = "1" => Sent = {} \/ (failed # {} /\ onDisk)
  /\ exit = "0" => /\ onDisk /\ failed = {}
                   /\ \A f \in Elems(ids) :
                        /\ out.answer[f].run = run
                        /\ out.answer[f].text = out.receipt.events[f].answer

(***************************************************************************)
(* "refuse to chain onto a receipt that does not verify" (run_live.py:331): *)
(* the parent a receipt names is another receipt that verifies, with the    *)
(* keys of now as with those of then.                                       *)
(***************************************************************************)
ParentsAreGenuine ==
  \A r \in ledger : r.prev # NoPrev =>
    \E p \in ledger \cup {disk.other} : p.id = r.prev /\ p.id # r.id /\ Verifies(p)

(***************************************************************************)
(* A receipt that verifies keeps verifying ("Create (once)",                *)
(* _signing.py:20): no later run replaces the key pair it was signed with.  *)
(***************************************************************************)
EvidenceLasts == [][\A r \in ledger : Verifies(r) => Verifies(r)']_vars

(***************************************************************************)
(* What the verifiers make of a chain (receipt.py:295-310).  The receipts   *)
(* of a list that one of them accepts, with the key resolved or given, are  *)
(* in the order in which they were signed, none twice, no two of them rival *)
(* children of one parent; nothing leads to the receipt elsewhere.  And a   *)
(* receipt that verifies makes an accepted chain with its parent, and with  *)
(* the parent's parent, if they are of the local key.                       *)
(***************************************************************************)
Accepted(rs, pub) ==
  "0" \in {AplVerify(rs, pub), StandaloneVerify(rs, pub), OldVerify(rs, pub)}
InLine(p, r) == p.id < r.id /\ p.prev # r.prev
AcceptedChainsAreHistory ==
  \A p, r \in ledger :
    /\ \A pub \in {NoKey, keys.pub} : Accepted(<<p, r>>, pub) => InLine(p, r)
    /\ \A q \in ledger : AplVerify(<<p, q, r>>, NoKey) = "0" =>
         InLine(p, q) /\ InLine(q, r) /\ InLine(p, r)
    /\ AplVerify(<<r, disk.other>>, NoKey) # "0"
    /\ Verifies(r) /\ r.prev = p.id =>
         /\ AplVerify(<<p, r>>, NoKey) = "0" /\ StandaloneVerify(<<p, r>>, keys.pub) = "0"
         /\ \A q \in ledger : p.prev = q.id => OldVerify(<<q, p, r>>, NoKey) = "0"

(***************************************************************************)
(* A run comes to its end, or to the question at a terminal: no answer a    *)
(* provider withholds, and no failure, keeps the command going for ever.    *)
(***************************************************************************)
RunEnds == pc # "idle" ~> (pc = "idle" \/ (pc = "confirm" /\ args.user = "tty"))

(***************************************************************************)
(* No provider can keep the command busy either (run_live.py:372): whatever *)
(* it answers, and whatever fails, every step of a run but those of the     *)
(* editor leaves it fewer steps to go.  There are 35 at the start, since no *)
(* plan has more than FRAGMENT_MAX fragments: one step to read each, three  *)
(* to ask its provider.                                                     *)
(***************************************************************************)
StepsLeft ==
  LET n == Len(ids) IN
  CASE pc = "idle" -> 0
    [] pc = "combined" -> 1
    [] pc = "selfverify" -> 2
    [] pc = "filling" -> 3
    [] pc = "receipt" -> 4
    [] pc = "pubkey" -> 5
    [] pc = "transmit" -> 6 + 3 * (n + 1 - i)
    [] pc = "await" -> 8 + 3 * (n - i)
    [] pc = "answered" -> 7 + 3 * (n - i)
    [] pc = "confirm" -> 7 + 3 * n
    [] pc = "preflight" -> 8 + 3 * n
    [] pc = "seats" -> 9 + 3 * n
    [] pc = "chain" -> 10 + 3 * n
    [] pc = "leaks" -> 11 + 3 * n
    [] pc = "plan" -> 12 + 3 * n
    [] pc = "local" -> 13 + 3 * n
    [] pc = "payloads" -> 14 + 3 * n + (n - i)
    [] pc = "original" -> 14 + 4 * n
    [] pc = "fragments" -> 15 + 4 * FRAGMENT_MAX
RunsRunOut ==
  [][pc # "idle" /\ edits' = edits => StepsLeft' \in 0 .. StepsLeft - 1]_vars

(***************************************************************************)
(* "`N < 2` or `N > 5` exits with code 2" (docs/fragmentation.md:100), "abort *)
(* before anything else runs (exit 2 semantics)" (_common.py:82-83): a run  *)
(* that its fragments end, before there are any ids, ends so.               *)
(***************************************************************************)
RefusedFragmentsExitWith2 ==
  pc = "idle" /\ run > 0 /\ ids = <<>> => exit \in {"2", "killed"}

(***************************************************************************)
(* "a live call either happened once or it did not, which keeps             *)
(* provider_events honest" (_http.py:8-9): the receipt says no_response of  *)
(* a seat exactly if its call failed.                                       *)
(***************************************************************************)
EventsAreHonest ==
  \A r \in ledger : r.id = run =>
    \A f \in DOMAIN r.events : r.events[f].type = "no_response" <=> f \in failed

(***************************************************************************)
(* The documented promise that the code does not keep: "A partial run (one  *)
(* provider failed) still produces a signed receipt recording exactly which *)
(* payload was disclosed" (run_live.py:16-18).  A run that was not killed   *)
(* and sent something has written its receipt.                              *)
(***************************************************************************)
FailuresLeaveEvidence == exit \in {"0", "1", "2", "raised"} /\ Sent # {} => Recorded

(***************************************************************************)
(* The advice a chained run prints, "verify both: apl verify {chain}        *)
(* {receipt_path}" (run_live.py:413-414), succeeds when it is printed.      *)
(***************************************************************************)
VerifyBothSucceeds ==
  exit \in {"0", "1"} /\ Recorded /\ prev # NoPrev
    => \E r \in ChainFiles : AplVerify(<<r, out.receipt>>, NoKey) = "0"

(* The promise of the command, and how this process keeps it. *)
Phase == CASE pc = "idle" -> "over"
           [] pc = "confirm" -> "offered"
           [] pc \in {"transmit", "await", "answered", "pubkey", "receipt", "filling"} -> "telling"
           [] pc \in {"selfverify", "combined"} -> "attested"
           [] OTHER -> "deciding"
Bare(m) == [seat |-> m.seat, kind |-> m.kind, text |-> m.text]
Claimed(r) == {[seat |-> f, kind |-> r.events[f].kind, text |-> r.events[f].payload] :
                 f \in DOMAIN r.events}
Offered == {Bare(Message(f)) : f \in {d.seat : d \in shown}}   \* what the preflight describes
Told == {Bare(m) : m \in Sent}
Claim == IF out.receipt.id = run /\ run # 0 THEN Claimed(out.receipt) ELSE {}

Promise == INSTANCE Disclosure WITH
  Seats <- Fragments, phase <- Phase, offer <- Offered, told <- Told, claim <- Claim

(* run-live implements the abstract promise of Disclosure. *)
ImplementsPromise == Promise!Spec
=============================================================================
