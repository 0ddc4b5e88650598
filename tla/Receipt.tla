------------------------------ MODULE Receipt ------------------------------
(***************************************************************************)
(* What a receipt says of who saw how much, and what the verifier makes of   *)
(* it: trust_domain_view and build_receipt_body (cli/commands/run_live.py)  *)
(* build the body, verify_receipt (apl_verifier/receipt.py) re-derives the   *)
(* aggregates from the signed events.  The signer may be another program,   *)
(* whose body differs from that of build_receipt_body before it is signed;  *)
(* a holder may change the receipt after.                                   *)
(*                                                                         *)
(* Ratios are whole units of 1/Scale (the code rounds to 6 decimals, so a   *)
(* sum of rounded ratios is exact).  The verifier's tolerance of 1e-6 is    *)
(* one unit; at exactly one unit, where the code's float comparison may go  *)
(* either way, the model accepts.  Hash and signature are what they are     *)
(* good for: the hash of a body is the body, a signature what was signed.   *)
(***************************************************************************)
EXTENDS Integers, Sequences, SequencesExt, FiniteSetsExt

CONSTANTS
  Fragments,    \* sequence of the fragment ids, in order of declaration
  Hosts,        \* hosts [name, bracketed, port, dot] that a base URL may name
  Original,     \* length of the original text
  Lengths,      \* lengths of the payloads
  Scale,        \* units of a ratio
  Missing,      \* value of a field that is not there
  MaxChanges,   \* bound: fields that are changed
  Changing      \* bound: if all seats are of these, fields are changed

ASSUME FragmentAssumption ==
  Fragments \in Seq(Range(Fragments)) /\ IsInjective(Fragments) /\ Fragments # <<>>
ASSUME HostAssumption == \A h \in Hosts :
  /\ {"name", "bracketed", "port", "dot"} \subseteq DOMAIN h
  /\ h.name # <<>> /\ (~h.bracketed => Len(h.name) = 1)
ASSUME NumberAssumption ==
  Original \in Nat \ {0} /\ Lengths \subseteq Nat /\ Scale \in Nat \ {0} /\ MaxChanges \in Nat
ASSUME ChangingAssumption == Changing \subseteq Hosts \X Lengths

VARIABLES
  host, length,   \* of each seat: where its payload goes, how long it is
  phase,          \* "seats", "draft", "issued", "judged"
  body,           \* the receipt's fields
  hash, signed,   \* the body that receipt_hash is of, that signature.value signs
  issued,         \* history: the body at the time of signing
  changes,        \* how many fields were changed (bound)
  verdict         \* "none", "valid", "failed"

vars == <<host, length, phase, body, hash, signed, issued, changes, verdict>>

Seats == DOMAIN Fragments
MaxOr0(S) == Max(S \cup {0})

-----------------------------------------------------------------------------
(***************************************************************************)
(* A host as it is spelled: its name, as the sequence of its parts between  *)
(* colons (one part but for an IPv6 address), brackets around it, a port    *)
(* (0: none) and a final dot.  Letter case is left out: urlparse and        *)
(* normalize_host both drop it.  So are the full URLs that normalize_host   *)
(* takes; no adapter hands one over.                                        *)
(***************************************************************************)

(* endpoint_host of the adapters, urlparse(base_url).hostname: without       *)
(* brackets and port.  A URL has an IPv6 address in brackets only.          *)
EndpointHost(h) == [h EXCEPT !.bracketed = FALSE, !.port = 0]

(* Mutant: a final dot makes another name. *)
BugDotIsolates(h) ==
  LET name == IF h.bracketed \/ Head(h.name) = "" THEN h.name ELSE <<Head(h.name)>>
  IN IF h.dot THEN Append(name, ".") ELSE name

(* normalize_host: hostname is what stands in the brackets, or else what     *)
(* stands before the first colon; when that is nothing, as of '::1', the    *)
(* whole of it.                                                             *)
NormalizeHost(h) ==
  IF h.bracketed \/ Head(h.name) = "" THEN h.name ELSE <<Head(h.name)>>

(* Mutant: of the local names, the IPv6 one is forgotten. *)
BugNoIPv6 == {<<"localhost">>, <<"127.0.0.1">>}

Loopback == {<<"localhost">>, <<"127.0.0.1">>, <<"", "", "1">>}

(* Two vendors have a label. *)
Vendor(name) ==
  CASE name = <<"api.anthropic.com">> -> <<"anthropic">>
    [] name = <<"api.openai.com">> -> <<"openai">>
    [] name = <<"">> -> <<"unknown">>
    [] OTHER -> name

(* trust_domain *)
TrustDomain(h) ==
  IF NormalizeHost(h) \in Loopback THEN <<"loopback">> ELSE Vendor(NormalizeHost(h))

Spellings == Hosts \cup {EndpointHost(h) : h \in Hosts}

ASSUME MissingAssumption ==
  /\ Missing \notin Range(Fragments) \cup {TrustDomain(h) : h \in Spellings}
  /\ Missing \notin Nat

(* round(len(payload) / n, 6) *)
Ratio(n) == (2 * n * Scale + Original) \div (2 * Original)

(* trust_domain_view: per domain, the sum of its seats' ratios and the seats. *)
SeatDomain(i) == TrustDomain(EndpointHost(host[i]))
SeatsOf(d) == {i \in Seats : SeatDomain(i) = d}
SeatDomains == {SeatDomain(i) : i \in Seats}

(* Mutant: the domain's entry is what its largest seat says. *)
BugLargestSeat(d) == MaxOr0({Ratio(length[i]) : i \in SeatsOf(d)})

DomainRatio(d) == SumFunction([i \in SeatsOf(d) |-> Ratio(length[i])])

(* build_receipt_body, without the fields that no check relates. *)
BuiltBody ==
  LET largest == MaxOr0({DomainRatio(d) : d \in SeatDomains}) IN
  [provider_events |-> [i \in Seats |->
     [provider_id |-> Fragments[i], seat_id |-> Fragments[i],
      trust_domain |-> SeatDomain(i), endpoint_host |-> EndpointHost(host[i])]],
   single_provider_exposure |-> [i \in Seats |->
     [provider_id |-> Fragments[i], exposure_ratio |-> Ratio(length[i])]],
   max_single_seat_exposure |-> MaxOr0({Ratio(length[i]) : i \in Seats}),
   trust_domain_exposure |-> SetToSeq(
     {[trust_domain |-> d, exposure_ratio |-> DomainRatio(d),
       seat_ids |-> {Fragments[i] : i \in SeatsOf(d)}] : d \in SeatDomains}),
   max_single_trust_domain_exposure |-> largest,
   max_single_provider_exposure |-> largest,
   no_single_trust_domain_received_all_fragments |->
     ~ \E d \in SeatDomains : SeatsOf(d) = Seats]

-----------------------------------------------------------------------------
(* A dict comprehension over a list: of a repeated key the last value stays. *)
Dict(list, key, value) ==
  [k \in {list[i][key] : i \in DOMAIN list} |->
     list[Max({i \in DOMAIN list : list[i][key] = k})][value]]
Differs(x, y) == x - y > 1 \/ y - x > 1
Mismatch(b, field, value) == b[field] # Missing /\ Differs(b[field], value)

(* Mutant: the ids of a list may repeat. *)
BugRepeats(list, key, exempt) == \A i \in DOMAIN list : list[i][key] = list[i][key]

Unique(list, key, exempt) ==
  \A i, j \in DOMAIN list : list[i][key] = list[j][key] => i = j \/ list[i][key] \in exempt

(* _check_shape: ids do not repeat (an event may lack a seat_id), and a      *)
(* required field is there.                                                 *)
ShapeOK(b) ==
  /\ b.max_single_provider_exposure # Missing
  /\ Unique(b.provider_events, "provider_id", {})
  /\ Unique(b.provider_events, "seat_id", {Missing})
  /\ Unique(b.single_provider_exposure, "provider_id", {})
  /\ b.trust_domain_exposure # Missing => Unique(b.trust_domain_exposure, "trust_domain", {})

(* (0) of _check_trust_domain_consistency *)
HostsAgree(b) ==
  \A i \in DOMAIN b.provider_events :
    LET e == b.provider_events[i] IN
    e.endpoint_host # Missing /\ e.trust_domain # Missing =>
      e.trust_domain = TrustDomain(e.endpoint_host)

(* _check_max_single_seat *)
MaxSeatAgrees(b) ==
  b.max_single_seat_exposure # Missing =>
    LET ratios == {b.single_provider_exposure[i].exposure_ratio :
                     i \in DOMAIN b.single_provider_exposure} IN
    ratios # {} /\ ~Differs(b.max_single_seat_exposure, Max(ratios))

(* What is recomputed: the dicts over the events and the ratios, the seats   *)
(* of a domain and the sum of their ratios.                                 *)
seat_domain(b) == Dict(b.provider_events, "seat_id", "trust_domain")
seat_by_id(b) == Dict(b.provider_events, "seat_id", "provider_id")
seat_ratio(b) == Dict(b.single_provider_exposure, "provider_id", "exposure_ratio")
AllSeats(b) == DOMAIN seat_domain(b)
Domains(b) == Range(seat_domain(b))
SeatsIn(b, d) == {s \in AllSeats(b) : seat_domain(b)[s] = d}
Recomputed(b, d) ==
  SumFunction([s \in SeatsIn(b, d) |-> seat_ratio(b)[seat_by_id(b)[s]]])

(* The rest of it, for a receipt with trust_domain_exposure: every event     *)
(* names its seat, its domain and a provider with a ratio, and domains,     *)
(* ratios, seat_ids (a), the flag (b) and both maxima follow from them.     *)
AggregatesAgree(b) ==
  LET claims == b.trust_domain_exposure
      largest == MaxOr0({Recomputed(b, d) : d \in Domains(b)})
  IN
  /\ \A s \in AllSeats(b) : /\ s # Missing /\ seat_domain(b)[s] # Missing
                            /\ seat_by_id(b)[s] \in DOMAIN seat_ratio(b)
  /\ {claims[i].trust_domain : i \in DOMAIN claims} = Domains(b)
  /\ \A i \in DOMAIN claims :
       /\ ~Differs(claims[i].exposure_ratio, Recomputed(b, claims[i].trust_domain))
       /\ claims[i].seat_ids \in {Missing, SeatsIn(b, claims[i].trust_domain)}
  /\ b.no_single_trust_domain_received_all_fragments \in
       {Missing, ~ \E d \in Domains(b) : SeatsIn(b, d) = AllSeats(b)}
  /\ ~Mismatch(b, "max_single_trust_domain_exposure", largest)
  /\ ~Mismatch(b, "max_single_provider_exposure", largest)

(* Mutant: the signature is checked, the hash is not recomputed. *)
BugHashNotRecomputed(b, h, s) ==
  /\ ShapeOK(b) /\ HostsAgree(b) /\ MaxSeatAgrees(b)
  /\ b.trust_domain_exposure # Missing => AggregatesAgree(b)
  /\ s = h

(* verify_receipt *)
Valid(b, h, s) ==
  /\ ShapeOK(b) /\ HostsAgree(b) /\ MaxSeatAgrees(b)
  /\ b.trust_domain_exposure # Missing => AggregatesAgree(b)
  /\ h = b /\ s = h

-----------------------------------------------------------------------------
Init ==
  /\ host \in [Seats -> Hosts] /\ length \in [Seats -> Lengths]
  /\ phase = "seats" /\ body = Missing /\ hash = Missing /\ signed = Missing
  /\ issued = Missing /\ changes = 0 /\ verdict = "none"

Build ==
  /\ phase = "seats" /\ phase' = "draft" /\ body' = BuiltBody
  /\ UNCHANGED <<host, length, hash, signed, issued, changes, verdict>>

(* What another signer or a holder may make of a body: one field differs.   *)
Near(x) == {x - 2, x - 1, x + 1, x + 2} \cap Nat
AlteredNumber(b) ==
  (UNION {{[b EXCEPT ![f] = v] :
             v \in IF b[f] = Missing THEN {} ELSE Near(b[f]) \cup {Missing}} :
          f \in {"max_single_seat_exposure", "max_single_trust_domain_exposure",
                 "max_single_provider_exposure"}})
  \cup {[b EXCEPT !.no_single_trust_domain_received_all_fragments = v] :
          v \in BOOLEAN \cup {Missing}}
Other(f, b) == {e[f] : e \in Range(b.provider_events)} \cup {Missing}
               \cup (IF f = "endpoint_host" THEN Hosts ELSE {})
AlteredEvent(b) ==
  (UNION {{[b EXCEPT !.provider_events[i][f] = v] : v \in Other(f, b)} :
          i \in DOMAIN b.provider_events,
          f \in {"provider_id", "seat_id", "trust_domain", "endpoint_host"}})
  \cup {[b EXCEPT !.provider_events = Append(@, e)] : e \in Range(b.provider_events)}
  \cup {[b EXCEPT !.provider_events = RemoveAt(@, i)] : i \in DOMAIN b.provider_events}
AlteredExposure(b) ==
  (UNION {{[b EXCEPT !.single_provider_exposure[i].exposure_ratio = v] :
             v \in Near(b.single_provider_exposure[i].exposure_ratio)} :
          i \in DOMAIN b.single_provider_exposure})
  \cup {[b EXCEPT !.single_provider_exposure = Append(@, x)] :
          x \in {[b.single_provider_exposure[i] EXCEPT !.exposure_ratio = 0] :
                   i \in DOMAIN b.single_provider_exposure}}
  \cup {[b EXCEPT !.single_provider_exposure = RemoveAt(@, i)] :
          i \in DOMAIN b.single_provider_exposure}
AlteredAggregate(b) ==
  IF b.trust_domain_exposure = Missing THEN {}
  ELSE {[b EXCEPT !.trust_domain_exposure = Missing]}
    \cup (UNION {{[b EXCEPT !.trust_domain_exposure[i].exposure_ratio = v] :
                    v \in Near(b.trust_domain_exposure[i].exposure_ratio)} :
                 i \in DOMAIN b.trust_domain_exposure})
    \cup (UNION {{[b EXCEPT !.trust_domain_exposure[i].seat_ids = v] :
                    v \in {Missing, {}, Range(Fragments)}} :
                 i \in DOMAIN b.trust_domain_exposure})
    \cup {[b EXCEPT !.trust_domain_exposure = RemoveAt(@, i)] :
            i \in DOMAIN b.trust_domain_exposure}
Altered(b) == (AlteredNumber(b) \cup AlteredEvent(b) \cup AlteredExposure(b)
               \cup AlteredAggregate(b)) \ {b}

MayChange ==
  changes < MaxChanges /\ \A i \in Seats : <<host[i], length[i]>> \in Changing

(* Another program signs another body. *)
Draft ==
  /\ phase = "draft" /\ MayChange /\ changes' = changes + 1
  /\ body' \in Altered(body)
  /\ UNCHANGED <<host, length, phase, hash, signed, issued, verdict>>

(* sign_receipt *)
Sign ==
  /\ phase = "draft" /\ phase' = "issued"
  /\ hash' = body /\ signed' = body /\ issued' = body
  /\ UNCHANGED <<host, length, body, changes, verdict>>

(* A holder changes a field, and may put the new hash in; the signature is  *)
(* beyond them.                                                             *)
Tamper ==
  /\ phase = "issued" /\ MayChange /\ changes' = changes + 1
  /\ body' \in Altered(body) /\ hash' \in {hash, body'}
  /\ UNCHANGED <<host, length, phase, signed, issued, verdict>>

Verify ==
  /\ phase = "issued" /\ phase' = "judged"
  /\ verdict' = IF Valid(body, hash, signed) THEN "valid" ELSE "failed"
  /\ UNCHANGED <<host, length, body, hash, signed, issued, changes>>

Next == Build \/ Draft \/ Sign \/ Tamper \/ Verify
Spec == Init /\ [][Next]_vars

-----------------------------------------------------------------------------
(***************************************************************************)
(* The two ends of the standard agree (run_live.py:160, receipt.py:168):    *)
(* the verifier accepts every receipt that build_receipt_body builds, for   *)
(* every assignment of seats to hosts, as it is judged from its own events. *)
(***************************************************************************)
BuiltReceiptsAreValid == verdict = "failed" => changes > 0

(* What a receipt's events say, counted event by event. *)
EventDomain(e) ==
  IF e.endpoint_host # Missing THEN TrustDomain(e.endpoint_host) ELSE e.trust_domain
EventsIn(b, d) == {i \in DOMAIN b.provider_events : EventDomain(b.provider_events[i]) = d}
Priced(b, d) ==
  {p \in EventsIn(b, d) \X DOMAIN b.single_provider_exposure :
     b.provider_events[p[1]].provider_id = b.single_provider_exposure[p[2]].provider_id}
SentTo(b, d) ==
  SumFunction([p \in Priced(b, d) |-> b.single_provider_exposure[p[2]].exposure_ratio])
Told(b) == {EventDomain(b.provider_events[i]) : i \in DOMAIN b.provider_events}
OneGotAll(b) == \E d \in Told(b) : EventsIn(b, d) = DOMAIN b.provider_events

(***************************************************************************)
(* Whoever built it, a valid receipt that aggregates by trust domain does   *)
(* not understate: each domain's entry, and both maxima, are within the     *)
(* verifier's tolerance of what its events sum to, every domain is listed,  *)
(* and the flag says whether one of them got everything.                    *)
(***************************************************************************)
EveryDomainListed(b) ==
  \A d \in Told(b) : \E i \in DOMAIN b.trust_domain_exposure :
    LET claim == b.trust_domain_exposure[i] IN
    claim.trust_domain = d /\ ~Differs(claim.exposure_ratio, SentTo(b, d))
MaximaCover(b) ==
  \A d \in Told(b) :
    /\ b.max_single_trust_domain_exposure = Missing
         \/ b.max_single_trust_domain_exposure + 1 >= SentTo(b, d)
    /\ b.max_single_provider_exposure + 1 >= SentTo(b, d)
FlagTells(b) ==
  b.no_single_trust_domain_received_all_fragments \in {Missing, ~OneGotAll(b)}

ValidReceiptsAggregate ==
  verdict = "valid" /\ body.trust_domain_exposure # Missing =>
    EveryDomainListed(body) /\ MaximaCover(body) /\ FlagTells(body)

(* Who sees a payload, told without the rule of trust_domain: hosts of one   *)
(* name are one party whatever else is spelled, and the names of the local  *)
(* machine are names of one (trust.py:4-6, 22-24).                          *)
LocalMachine == {<<"localhost">>, <<"127.0.0.1">>, <<"", "", "1">>}
SameParty(g, h) == g.name = h.name \/ {g.name, h.name} \subseteq LocalMachine

(***************************************************************************)
(* The receipt that run-live signs tells how much text each party got: all  *)
(* seats of one party are listed in one entry, however their base URLs      *)
(* spell it (an entry may list more: see IPv6HostsAreApart), and what an    *)
(* entry says is the share of the original's characters that the seats it   *)
(* lists got, to within their rounding.                                     *)
(***************************************************************************)
PartiesAreWhole(claims) ==
  \A i, j \in Seats : SameParty(host[i], host[j]) =>
    \E c \in DOMAIN claims : {Fragments[i], Fragments[j]} \subseteq claims[c].seat_ids
EntryTells(claim) ==
  LET listed == {i \in Seats : Fragments[i] \in claim.seat_ids}
      off == 2 * (Original * claim.exposure_ratio
                  - Scale * SumFunction([i \in listed |-> length[i]]))
  IN off <= Original * Cardinality(listed) /\ -off <= Original * Cardinality(listed)

BuiltReceiptsTellTheTexts ==
  verdict # "none" /\ changes = 0 =>
    LET claims == body.trust_domain_exposure IN
    PartiesAreWhole(claims) /\ \A c \in DOMAIN claims : EntryTells(claims[c])

(***************************************************************************)
(* "Trust-domain rule (exactly as implemented)": vendors collapse to their   *)
(* label, "anything else aggregates by its host (e.g. 127.0.0.1 ...)"       *)
(* (docs/fragmentation.md:66-74); a local provider's seats "normalize to    *)
(* trust domain 127.0.0.1" (docs/byok_reference.md:139).  The code's        *)
(* receipts say "loopback" (trust.py:60-61).                                *)
(***************************************************************************)
LocalSeatsKeepTheirHost ==
  issued # Missing /\ changes = 0 =>
    \A i \in Seats : host[i].name = <<"127.0.0.1">> =>
      issued.provider_events[i].trust_domain = <<"127.0.0.1">>

(***************************************************************************)
(* "Two seats with the same kind but genuinely different endpoints ... are   *)
(* different trust domains" (docs/fragmentation.md:76-78), and              *)
(* normalize_host is "IPv6-safe" (trust.py:31): seats on two IPv6 hosts,    *)
(* not both local, are listed apart.  The code cuts a bare IPv6 address, as *)
(* the adapters report it, at its first colon.                              *)
(***************************************************************************)
IPv6HostsAreApart ==
  issued # Missing /\ changes = 0 =>
    \A i, j \in Seats :
      Len(host[i].name) > 1 /\ Len(host[j].name) > 1 /\ ~SameParty(host[i], host[j]) =>
        issued.provider_events[i].trust_domain # issued.provider_events[j].trust_domain

(***************************************************************************)
(* "receipt was modified or signature is invalid" (receipt.py:44): no       *)
(* change after signing, with or without a new hash, passes.                *)
(***************************************************************************)
ModifiedReceiptsFail == verdict = "valid" => body = issued
=============================================================================
