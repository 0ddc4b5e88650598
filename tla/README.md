# APL Sidecar: a TLA+ verification project

APL Sidecar splits a confidential task into fragments, sends each fragment to a
different AI provider ("seat"), keeps the rest local, and leaves a signed
receipt of who was told what. These modules model the parts of the program whose
correctness depends on order, failure and concurrency: the live run, the signing
keys, the threads of the demo relay, the commands that share one directory of
artifacts, the promises of the local page, and the accounting that the receipt's
builder and its verifier must agree on. TLC checks them on small instances; the
TLA+ proof system proves all of the safety properties that hold, for every value of
the constants.

Paths below are relative to `src/apl_sidecar/` (runtime) and
`packages/apl-verifier/src/apl_verifier/` (verifier).

## 1. The system

| Component | State | Operations | Speaks to |
|---|---|---|---|
| `apl run-live` (`cli/commands/run_live.py`, `_common.py`, `adapters/byok/`) | single-read buffers, seats, responses, failures; output directory with `receipt.live.json`, `live_answer_*.local.txt`, `combined_answer.local.md` | load, leak gate, chain gate, seat resolution, preflight, consent, transmit, sign, write, self-verify | scenario files (an editor may change them), providers over HTTP, key files, verifier |
| signing keys (`_signing.py`, `_verifier_boot.py`) | two PEM files | `ensure_local_keypair`, `sign_receipt`, `resolve_pubkey_path` | `demo`, `run-mock`, `run-live`, `verify`: separate processes, one directory |
| hosted-demo relay (`relay/relay_server.py`) | `ip_counts`, `session_counts`, `cost_by_day`, in memory | `check`, `book`, `handle_demo_run`, one thread per request | HTTP clients, the clock |
| receipt builder and verifier (`run_live.py`, `receipt.py`, `trust.py`) | none: functions of one receipt | `trust_domain_view`, `build_receipt_body`, `verify_receipt`, `verify_chain` | `run-live`, `verify`, holders of receipts, other signers |
| `apl demo`, `run-mock`, `inspect`, `break-receipt` | `receipt.json`, `assessment.md`, `exposure.html`, `receipt.local.json` | run the mock providers, sign, verify, render | scenario files, key files |
| `mask`, `preview`, `rehydrate` | none | read and print | scenario files |
| local playground (`app/local_playground/app.js`) | the page's example, receipt and verdict | asynchronous load, mock run, verify | fetch, WebCrypto |
| mock proxy (`relay/openai_proxy.py`) | none | answer one chat request | HTTP clients |
| CLI dispatch, resources, adapter registry | none beyond the process | parse, look up | all commands |

What is hard in it, and what makes each part correct:

* **run-live** is a sequence of gates before an irreversible act. Files may change
  under it, a call may be delivered and yet time out, it may be killed anywhere,
  and the next run finds the remains of the last. It is correct if nothing but
  vetted bytes leave, where and as big as announced, once per seat; if its receipt says exactly what
  left; and if its exit code and files never suggest otherwise.
* **signing keys** are made by a check followed by a creation, in two files, by
  unsynchronised processes. Correct: receipts go on verifying.
* **relay**: check and book are not atomic, nor is `x = x.get() + 1`, and the date
  may change in between. Correct: limits hold, and a refusal is backed by the books.
* **receipt**: two programs compute the same aggregates from rounded numbers, and a
  third may sign anything. Correct: they agree, and nothing understated passes.
* **verify**, in its three programs, has no state, but receipts reach it in lists
  that users put together from several runs. Correct: it accepts the links of the
  real order, and all of them, and no others.
* **demo, run-mock, inspect, break-receipt** share a scenario and an output
  directory. The builders read the same scenario files several times, each artifact
  is emptied and then filled, and a command may be killed anywhere or meet another
  one. Correct: what a finished demo leaves belongs together; what is shown as
  verified was verified; a broken copy stays broken; a receipt tells what was sent.
* **local playground**: loads, a mock run and verifications interleave at every
  `await`, over the same globals and the same elements. Correct: the buttons verify
  what the page shows, and every press is answered.

The list of hazards, each with the line where it bites and the properties that
guard it, is in `PROJECT.json`.

## 2. The modules

    Disclosure      abstract promise of a live run       <---- implemented by ----+
    RunLive         the command, step by step, run after run; chains  ------------+
    KeyStore        the key files, step by step (RunLive's EnsureKey, among many processes)
    Relay           the relay's threads and counters
    Receipt         builder and verifier as operators, and who may alter what when
    Artifacts       demo, run-mock, inspect, break-receipt over one directory
    Playground      the page: its asynchronous functions, globals and elements
    MC*             values of the constants for TLC
    *Proofs         theorems and proofs

### Disclosure

Five phases and three sets: what was offered to the user, that is, the messages
that were described to them (the preflight prints no text), what was told to
providers, what the receipt claims. An offer has one message per seat, all free
of the values of one local-only file; only offered messages are told, each once;
the receipt claims the whole offer, because a message that may have arrived
counts as disclosed; it may stop anywhere.

### RunLive

One action per step of `run`. `pc` names the next one:

| Action | Code |
|---|---|
| `LoadFragments` | `example_paths`, `load_fragments`: the plan is read a first time (`_common.py:70-138`) |
| `ReadOriginal`, `ReadPayload`, `ReadLocalOnly`, `ReadPlan` | `load_run_inputs`, one file per step, so an edit may fall between two (`_common.py:150-165`) |
| `LeakGate`, `ChainGate`, `ResolveSeats` | `run_live.py:322-359`, with their exits 1, 1 and 2 |
| `Preflight`, `Confirm`, `UserTypes` | `run_live.py:258-291, 361-365`, an empty original being a `SystemExit` |
| `Post`, `ProviderAnswers`, `TransportFails`, `AnswerMalformed`, `SaveAnswer` | the loop of `run_live.py:372-397` with the adapters and `post_json` |
| `EnsureKey`, `WritePublicKey` | `_signing.py:19-35` |
| `OpenReceipt`, `WriteReceipt`, `SelfVerify`, `WriteCombined` | `run_live.py:399-422` |
| `Edit`, `Kill`, `Start` | the user's editor; the end of the process at any step; the next run |

`disk`, `keys` and `out` outlive a run; `args` to `failed` are the process's own;
`shown`, `wire`, `posts` and `ledger` are history that only properties read.
Texts are members of a small set and `Leaks[s]` says which of them contain a
value of the local-only file `s`, so the substring rule is a parameter. A key
pair is the number of the run that made it, and a receipt is identified by the
number of its run in place of its hash. A signature is represented by the key
that made it: a receipt verifies if the public key its key id resolves to is
that key. A modified receipt is one that no public key file matches.
`SelfVerify` reads `out.receipt`, which is the in-memory receipt just written.

What the preflight prints of a message is its `Description`: the seat, the
destination and the number of characters, `Chars` of its text. The domains and
ratios that it prints besides are functions of those and of the original.

The environment is the set of `Settings` that are set, each for every seat or for
one (`APL_OPENAI_MODEL_PRICING`); `SeatEnv` prefers the seat's own, `AnthropicFromEnv`
and `OpenAIFromEnv` are what the two adapters insist on, and `SeatsResolve` puts them
together with the `--seat` list. Why a provider stopped is one of `StopReasons`;
each adapter maps it to a completion of its own kind. A plan is its list of
fragments and whether it has a `task_type`, which is read only when the receipt is
built. `--chain` may name the receipt of the output directory, one kept from any
earlier run, one from elsewhere or no file (`ChainFiles`).

`ChainVerifies` is `verify_chain` of the verifier; `AplVerify`, `StandaloneVerify`
and `OldVerify` are the exit codes of the three programs that call it, as functions
of a list of receipts and a key. They have no state, so they are operators, and
`AcceptedChainsAreHistory` quantifies over the lists that can be made of all
receipts ever written.

`Kill` stands for a kill, Ctrl-C, an end of input at the prompt, and an `OSError`
that nobody catches. Its place between any two steps is what makes the
properties worth checking: each of them holds in every state, not at the end.

The receipt file is emptied and then filled, in two steps, so that a kill may leave
it torn. A torn file does not parse and counts as none. An answer is written whole:
a later step of the same run is what makes it count. So are the key files, because
`KeyStore` is about the steps of their writing, and runs here do not overlap.

Abstracted or left out: field formats, token usage, model names, the text of
messages; a masking plan that does not exist; `int()` of a malformed
`APL_ANTHROPIC_MAX_TOKENS` (an exception before anything is sent); writing
`combined_answer.local.md`, which nothing reads.

### KeyStore

`ensure_local_keypair` among concurrent commands: looking, loading, and emptying
and filling each of the two files are separate steps; a torn file is one that was
emptied and not yet filled. Every command signs; `demo` and `run-live` then
verify against the public key file. Two commands that start together may both
make a key pair; `OneMakerNoOrphans` says what holds as long as they did not, and
`SerialCommandsSucceed` what holds if commands did not even overlap and none was
killed, which the history variables `overlap` and `kills` record. What is not true
without these conditions is in `VerifyAnyTime` and `LaterCommandsSucceed` (section 3).

### Artifacts

One process per command. A builder (`demo`, `run-mock`) goes through its list
`Readings`: the payloads for the mock calls, then what `build_receipt_body` reads,
then what `demo` reads again for hashes and token estimates. The content of a
scenario file is the number of its edition, so `seen[c][use][f]` is the edition
that command `c` read of `f` for one use, and the receipt tells these numbers.
`demo` writes its assessment after the calls, then receipt and page, and verifies
the receipt from the disk in between; every `write_text` is an emptying and a
filling. `inspect` looks whether three files exist and shows one; `break-receipt`
loads a source, flips one digit, writes the copy and verifies it.

Whether the public key file fits the key that signs is a choice at `Sign`:
`KeyStore` says when it does. A verification may also end in a traceback, when the
hash fits and another command has just emptied the public key file, whose parser's
`ValueError` `verify.py:30` does not catch; then the command ends as "raised". Of the flipped hash only the first digit is in the
model. Not in the model: the fixtures with the answers and the rehydrated text,
which are read once and never edited here; the readings for the assessment and the
page, which go into no receipt (an assessment is named by its command, a page by
the receipt it shows), so nothing is claimed of the payloads that the page calls
"SENT"; edits of the masking plan; an `OSError`, which ends a command
like `Kill`; `inspect` of a single file.

### Playground

`load`, `mock` and `check` are the calls of `loadExample`, `runMock` and
`showVerdict` that are under way, each at the `await` it is waiting for; the globals
`EX`, `RECEIPT` and `TAMPERED` and the elements of the page hold the example they
come from. Every answer may be late, or be a failure, which raises the banner.
Nothing cancels a call, so any number of them may be under way. The history variable
`crowded` records whether a function was ever started while another was under way.
The four texts of an example are one step, because the code keeps them in local
variables until all are there. The language switch and the layout are left out.

### Relay

Each request passes through the tests of `check`, then `book`, with the read and
the write of every counter apart, because a thread of a `ThreadingHTTPServer` may
be suspended between them. The clock is read in `check` and again in `book`, and
`Midnight` may fall anywhere. Costs are whole units. A request for another
scenario or of the wrong length is rejected before it touches a counter. Not in
the model: requests answered 400 or 404 before `handle_demo_run`, and a configured
scenario without an example directory (the default configuration has none).
The history variable `overlap` records whether a request ever came while another
was served.

### Receipt

The numbers of a receipt, as operators: `BuiltBody` is what `build_receipt_body`
signs, `Valid` what `verify_receipt` accepts, with one operator for each check.
The actions say who may change a body and when: another signer before it is
signed (`Draft`), a holder after (`Tamper`). Ratios are integers in units of
1/`Scale`: the code rounds every ratio to 6 decimals, so sums of rounded ratios
are exact; the tolerance 1e-6 is one unit. At exactly one unit the code's
comparison of floats may go either way and the model accepts, which is the
weaker assumption for what is claimed of valid receipts. The hash of a body is the
body and a signature is what was signed. A field that is not there is `Missing`,
which is no name and no number (`MissingAssumption`); what the verifier recomputes
from a body (`seat_domain`, `seat_by_id`, `seat_ratio`, `Recomputed`) are operators of
their own, with the names of the code. There is at least one seat, because
`run-live` refuses a plan with fewer than two fragments. A host is spelled with the
parts of its name between colons (several in an IPv6 address), brackets, a port and a
final dot. `EndpointHost` is what an adapter reports of it, `NormalizeHost` what
`trust.py` makes of that, and `TrustDomain` the label. `BuiltReceiptsTellTheTexts`
does not use them: it says itself which hosts are one party (`SameParty`,
`LocalMachine`), and that the receipt lists each party once with all its seats.
Letter case, which both functions drop, and full URLs, which no adapter reports, are
left out.

## 3. What TLC checks

Deadlock is not checked in any run (`CHECK_DEADLOCK FALSE`): a program that has
finished its bounded work stops.

| Run | Checks | Bounds, and why they are enough |
|---|---|---|
| `RunLive_scenes` | `TypeOK`, `OnlyVettedBytesLeave`, `ReceiptTellsTheWire`, `ExitCodeTellsTheDisclosure`, `OneMessagePerSeat`, `ParentsAreGenuine`, `AcceptedChainsAreHistory`, `ImplementsPromise`, `EvidenceLasts`, `RunEnds`, `RunsRunOut` | the three scenes below |
| `KeyStore_commands` | `TypeOK`, `OneMakerNoOrphans`, `SerialCommandsSucceed` | four commands and a kill: a maker, one that loads, one that interferes, one that comes after. |
| `Relay_limits` | `TypeOK`, `NeverOvercount`, `RefusalsAreBooked`, `LimitsHold` | four requests that do not overlap, or three that race or come in turn (`FewRaceSpec`); two addresses, two sessions, two days; two per address and day, two per session, a cost of three a day. Each limit can be exceeded by a wrong test without another one being in the way, on either side of midnight, and each is the one that refuses in some behaviour. |
| `Receipt_checks` | `BuiltReceiptsAreValid`, `BuiltReceiptsTellTheTexts`, `ValidReceiptsAggregate`, `ModifiedReceiptsFail` | three seats on six hosts (a vendor with a port and with a final dot, two local names, one of them IPv6, another IPv6 address, another host), lengths 1-3 of 7, so that ratios are rounded up and down; any two fields altered, each before or after signing, where the seats are on two of the hosts with payloads of one length (`Changing`). Two changes let one field cover up for another. |
| `Artifacts_commands` | `TypeOK`, `DirectoryIsOneRun`, `PagesVerify`, `InspectionMeansVerified`, `TamperedCopiesFail` | three commands of six kinds, two under way at a time, two providers, four events (a start or a kill is one, an edit two): a demo, what disturbs it and what comes after. The proofs need no such bound. |
| `Playground_clicks` | `TypeOK`, `ButtonsVerifyWhatIsShown`, `QuietPageIsOneExample`, `QuietVerdictsFit`, `NoPressIsForgotten`, `PressesAreAnswered` | two examples, four clicks, with two loads, one mock run and two verifications under way at a time: enough for calls of each kind to overtake those of the others, and for loads and verifications to overtake their own kind. |

`RunLive_scenes` visits three parts of the state space, because no property needs
everything to vary at once, and their product would be too large (`SceneSpec`):

* `EditScene`: one run, one edit of any file at any moment, two plans (in either order
  of seats), a text that leaks and one that does not. One edit is enough to make any
  second read differ from the first. All texts but the empty one have the same
  number of characters.
* `ArgumentScene`: one run, six plans (legacy, three fragments, two, too few, repeated,
  without `task_type`), six `--seat` lists, ten environments (no key, one, both; a
  model or a local endpoint for all seats or for one), all ways to consent, an
  unencodable and an empty answer, stop reasons of both kinds of provider and of none.
* `RunScene`: three runs, kills anywhere, chains onto a receipt kept from any earlier
  run, onto genuine and modified others, and onto no file. Three runs are needed for
  a fork and for a chain of three; chains longer than that are pairs of neighbours to
  `verify_chain`.

A scene restricts only what the user, the editor, the providers and the files may be;
it stops no step of the process, so the fairness of those steps means in it what it
means in `FairSpec`.

**Fairness.** `RunEnds` assumes weak fairness of the process's own steps: the
operating system schedules it. `TransportFails` is among them because
`urlopen` is called with a timeout (`_http.py:47`), so a call that gets no answer
ends without the provider's doing. Nothing is assumed of providers, the
editor or the user: a run may wait for ever at the prompt of a terminal, and
`RunEnds` says so. A provider that sends a byte now and then may stretch a call,
as the timeout is one of the socket's operations; the model takes a call as one
operation.

`PressesAreAnswered` assumes that the browser settles every promise, with a value or
a failure: the fetches go to the page's own server, which has a thread for each
request on the loopback interface, and `WebCrypto` needs nobody. The user need not
click. The other modules state no liveness: their commands are short, and what a
killed one leaves is a question of safety.

**Where code and documentation differ.** Six runs expect a violation; each
checks one sentence of the repository against the code. They are described, with
the lines they quote, under `findings` in `PROJECT.json`:

| Run | What the code does |
|---|---|
| `RunLive_evidence` | an exception other than `TransportError` ends a run that has sent something without a receipt |
| `RunLive_verifyboth` | the advice "verify both" of a chained run fails |
| `Relay_cap` | concurrent requests exceed the daily cost cap |
| `Relay_fallbacks` | limits of "live runs" are used up by fallbacks |
| `Artifacts_prompt` | after an edit, `demo`'s receipt hashes what was not sent |
| `Playground_verdict` | after the button of the tampered receipt the card may read "verified", because the verdict of an earlier press comes last |

Eight more sentences are stated as invariants in the modules, and TLC finds each of
them violated when it is put into a configuration under `INVARIANTS`. They have no
configuration of their own:

| Invariant | The sentence, and what the code does | Violated under |
|---|---|---|
| `RunLive!PreflightShowsWhatLeaves` | "show exactly what will leave the machine" (`run_live.py:9`): the preflight prints destinations, sizes and ratios (`run_live.py:263-279`), no text | `RunLive_scenes.cfg` |
| `RunLive!RefusedFragmentsExitWith2` | "`N < 2` or `N > 5` exits with code 2" (`docs/fragmentation.md:100`), "exit 2 semantics" (`_common.py:82-83`): `SystemExit` with a text exits with 1 | `RunLive_scenes.cfg` |
| `RunLive!EventsAreHonest` | "a live call either happened once or it did not, which keeps provider_events honest" (`_http.py:8-9`): an empty answer is recorded as `no_response` (`run_live.py:182`) | `RunLive_scenes.cfg` |
| `KeyStore!VerifyAnyTime` | "Verify any time" (`run_live.py:417`), "Create (once)" (`_signing.py:20`): two commands without keys each make a pair, and a receipt of the first stops verifying | `KeyStore_commands.cfg`, also without a kill |
| `KeyStore!LaterCommandsSucceed` | "every completed (even partial) run must leave a signed, verifiable live receipt" (`tests/test_run_live.py:4-5`): a command killed between the two key files makes all later ones fail | `KeyStore_commands.cfg` |
| `Receipt!LocalSeatsKeepTheirHost` | "Both seats normalize to trust domain `127.0.0.1`" (`docs/byok_reference.md:139`), "anything else aggregates by its host (e.g. `127.0.0.1`, your vLLM box)" (`docs/fragmentation.md:66-74`): the label is `loopback` (`trust.py:60-61`) | `Receipt_checks.cfg` with `Hosts <- LocalHosts`, `Changing <- NoSeats` |
| `Receipt!IPv6HostsAreApart` | "genuinely different endpoints ... are different trust domains" (`docs/fragmentation.md:76-78`), "IPv6-safe" (`trust.py:31`): hosts without brackets are cut off at the first colon (`trust.py:39-42`) | `Receipt_checks.cfg` with `Hosts <- IPv6Hosts`, `Changing <- NoSeats` |
| `Artifacts!ShownReceiptsVerify` | "Receipt · VERIFIED" (`demo.py:89, 96`): the page shows the receipt in memory, `verify.run` read the file (`demo.py:140`), which may be another demo's | `Artifacts_commands.cfg` |

Several passing properties are the part of these claims that does hold:
`OnlyVettedBytesLeave` keeps the destination, the size and the leak gate,
`OneMakerNoOrphans` and `SerialCommandsSucceed` the keys of commands that do not
compete or die, `LimitsHold` the limits of requests that do not overlap,
`RefusalsAreBooked` limits that count fallbacks, `PagesVerify` the pages of demos
that do not overlap. None of them is to be read as covering more.

## 4. What is proved

For every value of the constants that satisfies the named assumptions, that is for
any number of fragments, texts, hosts, runs, edits, commands, kills, threads and days:

| Theorem | Says |
|---|---|
| `RunLiveProofs!TypeCorrect` | `Spec => []TypeOK` |
| `RunLiveProofs!Vetted` | `Spec => []OnlyVettedBytesLeave` |
| `RunLiveProofs!AskedOnce` | `Spec => []OneMessagePerSeat` |
| `RunLiveProofs!Attestation` | `Spec => []ReceiptTellsTheWire` |
| `RunLiveProofs!Shrinking` | `Spec => RunsRunOut` |
| `RunLiveProofs!Implementation` | `Spec => Disclosure!Spec` under the mapping at the end of `RunLive` |
| `KeyStoreProofs!TypeCorrect`, `NoOrphans`, `SerialSuccess` | `[]TypeOK`, `[]OneMakerNoOrphans`, `[]SerialCommandsSucceed` |
| `RunLiveFileProofs!GenuineParents`, `LastingEvidence`, `ChainsAreHistory`, `ExitCodes` | `[]ParentsAreGenuine`, `EvidenceLasts`, `[]AcceptedChainsAreHistory`, `[]ExitCodeTellsTheDisclosure` |
| `RelayProofs!TypeCorrect`, `NoOvercount`, `Justified`, `Limits` | `[]TypeOK`, `[]NeverOvercount`, `[]RefusalsAreBooked`, `[]LimitsHold` |
| `ReceiptProofs!Accepted`, `Tells`, `Aggregated`, `Unmodified` | `[]BuiltReceiptsAreValid`, `[]BuiltReceiptsTellTheTexts`, `[]ValidReceiptsAggregate`, `[]ModifiedReceiptsFail` |
| `ArtifactsProofs!TypeCorrect`, `TamperedCopies` | `[]TypeOK`, `[]TamperedCopiesFail` |
| `ArtifactsRunProofs!OneRun`, `Pages`, `Inspections` | `[]DirectoryIsOneRun`, `[]PagesVerify`, `[]InspectionMeansVerified` |
| `PlaygroundProofs!TypeCorrect`, `ButtonsFit`, `QuietPage`, `QuietVerdict`, `NoneForgotten` | `[]TypeOK`, `[]ButtonsVerifyWhatIsShown`, `[]QuietPageIsOneExample`, `[]QuietVerdictsFit`, `[]NoPressIsForgotten` |

*RunLive.* None of the invariants is inductive. `ReadInv` says which buffers are
filled at which step and that the plan's ids are distinct; with it the reading
loop yields texts for every seat. `WireInv` says that nothing was sent before the
gates, and that past them the leak gate still holds of the buffers and `shown`
still describes them: this is the single-read rule of the code in the form of an
invariant, and `OnlyVettedBytesLeave` follows. `PostInv` counts requests against
the position of the loop, which needs the distinctness of ids. `ReceiptInv` says
that no receipt of this run exists until it is written, so a later disclosure
cannot fall outside one, and that an answer in memory comes from a provider that
was reached. The refinement uses all of them: `Tell` needs that the message was
offered and not told before, `Attest` that the claim is the whole offer.

`RunsRunOut` is the safety in `RunEnds`: `StepsLeft` counts the steps a run can
still take, and every step of a run, whoever takes it and whatever fails, takes at
least one off. The count needs the bound on the number of fragments, which a run
knows only once the plan is read, and `ReadInv`, for the position of each loop. A
retry anywhere would break it.

*What runs leave.* `FileInv` adds three parts. `KeyInv`: the public key file is
written once and after the private one, so no later run replaces it. `LedgerInv`:
one receipt per run. `ParentInv`: a run holds `prev` only of a receipt that is
earlier, or from elsewhere, and that verifies. `AnswerInv`, for the exit codes, follows the loop: every
seat before its position has failed or has its answer on disk, so that at exit 0
none is left over from another run. That accepted lists are history then needs only
that each link leads to an earlier receipt; the converse, that genuine lists are
accepted, needs that all receipts that verify are of the one local key.

*KeyStore.* `OriginInv` follows every key to the command that made it and says
that a private key file, once there, stays. `SerialInv` says, step by step, what
the two files hold while one command makes them.

*Relay.* The books are sets of requests that only grow. `SeenInv` is the heart: a
thread about to write a counter has read a value not above the size of the book,
before it joined itself, so what it writes is not above the size of the book
after. `RefusalsAreBooked` then follows, because the counter that refused a
request was a lower bound of a book that only grows. For `LimitsHold`, `SerialInv`
says what requests that do not overlap have besides: at most one is being served,
the counters are exact, nothing is booked ahead of the calendar, and a request that
passed a test has room in that book, on the day it asked for while it is at the
gate, and on the day it is booked for afterwards. The step between the two is where
midnight may fall: the books of the new day are empty.

*Receipt.* The sums are folds over sets, and the prover has no induction over data.
`SetInduction` gets by without: the subsets of a finite set on which a fact holds are
themselves a set, and a minimal subset outside it, which there would be because strict
inclusion is well-founded, is a contradiction. With it `SumCounts` says that a sum of naturals is the number of unit cells below its
summands, so that sums are compared by bijections of those cells (`SumReindex`), and
`RoundedSum` carries the rounding of one ratio over to a sum of them.
`DictsAreLists` then says that in a receipt that passes `ShapeOK` a dict has exactly
what its list has, since no key repeats; `RecomputedIsSent`, that what the verifier
recomputes for a domain is what its events sum to, one by one; this is what
`ValidReceiptsAggregate` needs. `PartyDomain` says that the label of a host is that of
its party, however it is spelled, which is all that `BuiltReceiptsTellTheTexts` needs
of the host parser. `BuiltBodyPasses` takes the checks of the verifier
one by one through what the builder computed. `Bodies` is the type of a receipt
whoever made it: an altered one stays in it (`AlteredType`), so the dicts of a draft
by another program are typed too. The invariant has four parts: a body nobody
changed is the built one, with its hash and signature; a signature is of what was
issued; the verdict is that of the body that was judged; and the types.

*Artifacts.* `BaseInv` ties every command to the steps and the place in the list of
its kind and says what it holds; `DigitsInv` says which files have the signed digit.
It gives types and tampered copies. `RunInv` is about demos that do not overlap:
what the last of them has done so far is what the directory holds, and, if there was
only one, no page exists before its receipt was verified.

*Playground.* `LoadedInv` holds however many calls are under way: the page shows the
receipt of the global, or a load that will render it is at its last fetch. `QuietInv`
says what a single call finds and leaves. `NoPressIsForgotten` is inductive with
the types: the call that ends is the one that changes the word on the card, or shows
the banner.

The proofs rest on the named assumptions of the modules, which TLC evaluates in
every run, and on nothing else.

Model-checked only: the two liveness properties, `RunEnds` and `PressesAreAnswered`.
They need fairness, hence `ENABLED`, which is beyond the prover; their safety
halves, `RunsRunOut` and `NoPressIsForgotten`, are proved. What is left to TLC is that
a run at work always has a step of its own or a timeout to take, and that the
promise of a press under way takes it to its verdict.

## 5. Not modelled, and why

* `mask`, `preview`, `rehydrate` read files once and print. The gate of `mask` is
  `LeakFound` of RunLive. There is no state to be wrong about.
* The mock proxy (`relay/openai_proxy.py`) answers each request from its own body;
  two requests share nothing.
* Argument parsing and packaged resources (`cli/apl.py`, `_resources.py`), the
  adapter registry and the mock adapters: a table filled once, and adapters that
  return the text of a file. What the parser hands on is the choice of arguments in
  `Start` of RunLive and Artifacts.
* Plugin protocols and the release scripts have no behaviour in the running system.
* The rounding of the relay's float costs: a question of arithmetic over hundreds of
  additions, not of order.
* Formats of ids, hashes, timestamps and base64, the duplicate-key parser, the
  wording of pages and messages.
* Receipts that leave an optional field out skip its checks by design
  (`receipt.py:175`); the properties of Receipt are about those that carry it.

## 6. Running it

    tlc -config RunLive_scenes.cfg MCRunLive
    tlapm RunLiveProofs.tla

The largest runs, `RunLive_scenes` and `Relay_limits`, take a few minutes, most others
seconds.

Each configuration is named after its module and the question it asks; every
property of a passing run has a mutant, a `Bug...` operator next to the definition
it replaces, that makes TLC find the property violated.
