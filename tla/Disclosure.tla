----------------------------- MODULE Disclosure -----------------------------
(***************************************************************************)
(* What `apl run-live` promises its user, whatever its steps are: it offers *)
(* a set of messages free of local-only values, one per seat; after consent *)
(* it tells the providers nothing but offered messages; and the receipt it  *)
(* leaves claims the whole offer.  It may stop at any point.                *)
(***************************************************************************)
CONSTANTS Seats, Kinds, Texts, Secrets, Leaks

VARIABLES
  phase,   \* "over", "deciding", "offered", "telling", "attested"
  offer,   \* the messages described to the user
  told,    \* the messages that reached a provider
  claim    \* the messages the run's receipt attests

vars == <<phase, offer, told, claim>>

Message == [seat : Seats, kind : Kinds, text : Texts]

Init == phase = "over" /\ offer = {} /\ told = {} /\ claim = {}

Begin ==
  /\ phase = "over" /\ phase' = "deciding"
  /\ offer' = {} /\ told' = {} /\ claim' = {}

Offer ==
  /\ phase = "deciding" /\ phase' = "offered"
  /\ offer' \subseteq Message
  /\ \A m, n \in offer' : m.seat = n.seat => m = n
  /\ \E s \in Secrets : \A m \in offer' : m.text \notin Leaks[s]
  /\ UNCHANGED <<told, claim>>

Consent ==
  /\ phase = "offered" /\ phase' = "telling"
  /\ UNCHANGED <<offer, told, claim>>

Tell ==
  /\ phase = "telling"
  /\ \E m \in offer \ told : told' = told \cup {m}
  /\ UNCHANGED <<phase, offer, claim>>

Attest ==
  /\ phase = "telling" /\ phase' = "attested"
  /\ claim' = offer
  /\ UNCHANGED <<offer, told>>

Stop ==
  /\ phase # "over" /\ phase' = "over"
  /\ UNCHANGED <<offer, told, claim>>

Next == Begin \/ Offer \/ Consent \/ Tell \/ Attest \/ Stop

Spec == Init /\ [][Next]_vars
=============================================================================
