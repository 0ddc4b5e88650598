------------------------------ MODULE KeyStore ------------------------------
(***************************************************************************)
(* ensure_local_keypair (cli/commands/_signing.py) as the commands that     *)
(* sign use it: demo and run-live verify the receipt they signed against    *)
(* the public key file, run-mock does not.  The commands are separate       *)
(* processes; nothing keeps two of them from running at the same time, and  *)
(* each may be killed between any two steps.  write_bytes empties the file  *)
(* and then fills it, so another process may see it torn.                   *)
(***************************************************************************)
EXTENDS Naturals

CONSTANTS
  Commands,    \* invocations of demo, run-mock and run-live
  Verifying,   \* those that verify what they signed (demo, run-live)
  Absent, Torn, \* contents of a key file that is missing, or not yet filled
  MaxKills     \* bound: commands that are killed

ASSUME CommandAssumption == Verifying \subseteq Commands
ASSUME FileAssumption == Absent \notin Commands /\ Torn \notin Commands /\ Absent # Torn
ASSUME KillAssumption == MaxKills \in Nat

VARIABLES
  priv,    \* <key id>.private.pem: the command that made the key, Absent or Torn
  pub,     \* <key id>.pem, in the same terms
  pc,      \* next step of each command
  mine,    \* the key each command holds; Absent if none
  signed,  \* history: the key that signed the receipt of each command
  made,    \* history: the commands that found no private key and made one
  overlap, \* history: a command was started while another was under way
  kills    \* how many commands were killed (bound)

vars == <<priv, pub, pc, mine, signed, made, overlap, kills>>

Labels == {"ready", "load", "empty_priv", "fill_priv", "empty_pub", "fill_pub",
           "sign", "verify", "done", "failed", "killed"}
AtRest == {"ready", "done", "failed", "killed"}
Making == {"empty_priv", "fill_priv", "empty_pub", "fill_pub"}

(* No two commands make a key pair. *)
OneMaker == \A c, d \in made : c = d

Init ==
  /\ priv = Absent /\ pub = Absent
  /\ pc = [c \in Commands |-> "ready"] /\ mine = [c \in Commands |-> Absent]
  /\ signed = [c \in Commands |-> Absent] /\ made = {} /\ overlap = FALSE /\ kills = 0

Goto(c, l) == pc' = [pc EXCEPT ![c] = l]

(* priv_path.exists() *)
Look(c) ==
  /\ pc[c] = "ready"
  /\ overlap' = (overlap \/ \E d \in Commands : pc[d] \notin AtRest)
  /\ \/ priv # Absent /\ made' = made /\ Goto(c, "load")
     \/ priv = Absent /\ made' = made \cup {c} /\ Goto(c, "empty_priv")
  /\ UNCHANGED <<priv, pub, mine, signed, kills>>

(* Mutant: an unreadable private key is replaced in memory only. *)
BugFreshKey(c) ==
  /\ pc[c] = "load" /\ Goto(c, "sign")
  /\ mine' = [mine EXCEPT ![c] = IF priv = Torn THEN c ELSE priv]
  /\ UNCHANGED <<priv, pub, signed, made, overlap, kills>>

(* Mutant: a torn private key file is taken for a key. *)
BugTakesTorn(c) ==
  /\ pc[c] = "load" /\ mine' = [mine EXCEPT ![c] = priv] /\ Goto(c, "sign")
  /\ UNCHANGED <<priv, pub, signed, made, overlap, kills>>

(* load_pem_private_key raises on a torn file. *)
Load(c) ==
  /\ pc[c] = "load"
  /\ \/ priv # Torn /\ mine' = [mine EXCEPT ![c] = priv] /\ Goto(c, "sign")
     \/ priv = Torn /\ mine' = mine /\ Goto(c, "failed")
  /\ UNCHANGED <<priv, pub, signed, made, overlap, kills>>

EmptyPrivate(c) ==
  /\ pc[c] = "empty_priv" /\ Goto(c, "fill_priv")
  /\ priv' = Torn /\ mine' = [mine EXCEPT ![c] = c]
  /\ UNCHANGED <<pub, signed, made, overlap, kills>>

(* Mutant: the public key is never written. *)
BugNoPublic(c) ==
  /\ pc[c] = "fill_priv" /\ Goto(c, "sign") /\ priv' = c
  /\ UNCHANGED <<pub, mine, signed, made, overlap, kills>>

FillPrivate(c) ==
  /\ pc[c] = "fill_priv" /\ Goto(c, "empty_pub") /\ priv' = c
  /\ UNCHANGED <<pub, mine, signed, made, overlap, kills>>

EmptyPublic(c) ==
  /\ pc[c] = "empty_pub" /\ Goto(c, "fill_pub") /\ pub' = Torn
  /\ UNCHANGED <<priv, mine, signed, made, overlap, kills>>

FillPublic(c) ==
  /\ pc[c] = "fill_pub" /\ Goto(c, "sign") /\ pub' = c
  /\ UNCHANGED <<priv, mine, signed, made, overlap, kills>>

(* sign_receipt, and the receipt file is written. *)
Sign(c) ==
  /\ pc[c] = "sign" /\ signed' = [signed EXCEPT ![c] = mine[c]]
  /\ Goto(c, IF c \in Verifying THEN "verify" ELSE "done")
  /\ UNCHANGED <<priv, pub, mine, made, overlap, kills>>

(* resolve_pubkey_path and verify_receipt: an absent, torn or foreign       *)
(* public key fails the command, after run-live has disclosed everything.   *)
Verify(c) ==
  /\ pc[c] = "verify"
  /\ Goto(c, IF pub = signed[c] THEN "done" ELSE "failed")
  /\ UNCHANGED <<priv, pub, mine, signed, made, overlap, kills>>

Kill(c) ==
  /\ pc[c] \notin AtRest /\ kills < MaxKills
  /\ kills' = kills + 1 /\ Goto(c, "killed")
  /\ UNCHANGED <<priv, pub, mine, signed, made, overlap>>

Run(c) ==
  \/ Look(c) \/ Load(c) \/ EmptyPrivate(c) \/ FillPrivate(c) \/ EmptyPublic(c)
  \/ FillPublic(c) \/ Sign(c) \/ Verify(c)
Next == \E c \in Commands : Run(c) \/ Kill(c)
Spec == Init /\ [][Next]_vars

-----------------------------------------------------------------------------
Keys == Commands \cup {Absent}
Files == Commands \cup {Absent, Torn}
(* Every file and every command holds what the code can put there. *)
TypeOK ==
  /\ priv \in Files /\ pub \in Files /\ pc \in [Commands -> Labels]
  /\ mine \in [Commands -> Keys] /\ signed \in [Commands -> Keys]
  /\ made \subseteq Commands /\ overlap \in BOOLEAN /\ kills \in Nat

(***************************************************************************)
(* As long as one command only made a key pair, then whatever crashed and   *)
(* however the commands interleaved, every receipt was signed with the one  *)
(* key that the key files hold or will hold: no receipt is orphaned.        *)
(***************************************************************************)
OneMakerNoOrphans ==
  OneMaker => \A c \in Commands : signed[c] # Absent =>
    /\ priv \in {signed[c], Torn}
    /\ pub \in {signed[c], Torn, Absent}
    /\ signed[c] \in made

(***************************************************************************)
(* Commands that never overlapped, none of them killed, all succeed: each   *)
(* finds or makes a complete key pair, and the self-verification of a run   *)
(* never fails after the disclosure (run_live.py:408).                      *)
(***************************************************************************)
SerialCommandsSucceed ==
  ~overlap /\ kills = 0 => \A c \in Commands : pc[c] # "failed"

(***************************************************************************)
(* "Verify any time: apl verify ..." (run_live.py:417), and the key pair is  *)
(* created "(once)" (_signing.py:20): when all commands are at rest, the    *)
(* receipt of each that succeeded fits the public key file.  A second       *)
(* command that found no private key writes its pair over the first's.      *)
(***************************************************************************)
VerifyAnyTime ==
  (\A d \in Commands : pc[d] \in AtRest) =>
    \A c \in Verifying : pc[c] = "done" => pub = signed[c]

(***************************************************************************)
(* "every completed (even partial) run must leave a signed, verifiable live  *)
(* receipt" (tests/test_run_live.py:4-5), one command after the other, even  *)
(* when an earlier command was killed: a key file emptied and not filled,   *)
(* or a private key without its public one, fails every later command.      *)
(***************************************************************************)
LaterCommandsSucceed == ~overlap => \A c \in Commands : pc[c] # "failed"
=============================================================================
