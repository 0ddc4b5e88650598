--------------------------- MODULE KeyStoreProofs ---------------------------
(* Proofs about KeyStore, for any number of commands and of kills.          *)
EXTENDS KeyStore, TLAPS

USE CommandAssumption, FileAssumption, KillAssumption

(***************************************************************************)
(* Whoever holds or has written a key got it, in the end, from a maker, and *)
(* the private key file is never removed once a command holds a key.        *)
(***************************************************************************)
OriginInv ==
  /\ priv \in Commands => priv \in made
  /\ pub \in Commands => pub \in made
  /\ \A c \in Commands :
       /\ pc[c] \in Making => c \in made
       /\ pc[c] = "load" => priv # Absent
       /\ pc[c] \in {"fill_priv", "empty_pub", "fill_pub"} => mine[c] = c
       /\ pc[c] = "sign" => mine[c] # Absent
       /\ mine[c] # Absent => mine[c] \in made /\ priv # Absent
       /\ signed[c] # Absent =>
            signed[c] = mine[c] /\ pc[c] \in {"verify", "done", "failed", "killed"}

(***************************************************************************)
(* If commands never overlapped and none was killed, one is under way at    *)
(* most, and the files are as its place in the code has them; at rest they  *)
(* are both missing, or hold one key.                                       *)
(***************************************************************************)
Complete == priv = pub /\ priv \in Commands
SerialInv ==
  ~overlap /\ kills = 0 =>
    /\ \A c, d \in Commands : pc[c] \in AtRest \/ pc[d] \in AtRest \/ c = d
    /\ \A c \in Commands :
         /\ pc[c] # "failed" /\ pc[c] # "killed"
         /\ pc[c] = "load" => Complete
         /\ pc[c] = "empty_priv" => priv = Absent /\ pub = Absent
         /\ pc[c] = "fill_priv" => priv = Torn /\ pub = Absent /\ mine[c] = c
         /\ pc[c] = "empty_pub" => priv = c /\ pub = Absent /\ mine[c] = c
         /\ pc[c] = "fill_pub" => priv = c /\ pub = Torn /\ mine[c] = c
         /\ pc[c] = "sign" => Complete /\ mine[c] = priv
         /\ pc[c] = "verify" => Complete /\ signed[c] = priv
    /\ (\A c \in Commands : pc[c] \in AtRest) =>
         Complete \/ (priv = Absent /\ pub = Absent)

(* Every step keeps the types. *)
LEMMA TypeStep == ASSUME TypeOK, [Next]_vars PROVE TypeOK'
<1>1. CASE UNCHANGED vars
  BY <1>1 DEF vars, TypeOK
<1>2. ASSUME NEW c \in Commands, Look(c) PROVE TypeOK'
  <2>1. overlap' \in BOOLEAN
    BY <1>2, Zenon DEF Look, TypeOK
  <2>2. QED BY <1>2, <2>1 DEF Look, Goto, TypeOK, Labels
<1>3. ASSUME NEW c \in Commands, Run(c), ~Look(c) PROVE TypeOK'
  BY <1>3 DEF Run, Load, EmptyPrivate, FillPrivate, EmptyPublic, FillPublic,
     Sign, Verify, Goto, TypeOK, Labels, Keys, Files
<1>4. ASSUME NEW c \in Commands, Kill(c) PROVE TypeOK'
  BY <1>4 DEF Kill, Goto, TypeOK, Labels
<1>5. QED BY <1>1, <1>2, <1>3, <1>4 DEF Next

(* Every key held or written has a maker. *)
LEMMA OriginStep == ASSUME TypeOK, OriginInv, [Next]_vars PROVE OriginInv'
<1> USE DEF OriginInv, Making
<1>1. CASE UNCHANGED vars
  BY <1>1 DEF vars
<1>2. ASSUME NEW c \in Commands, Look(c) PROVE OriginInv'
  BY <1>2 DEF Look, Goto, TypeOK, Labels
<1>3. ASSUME NEW c \in Commands, Load(c) PROVE OriginInv'
  BY <1>3 DEF Load, Goto, TypeOK, Files
<1>4. ASSUME NEW c \in Commands, EmptyPrivate(c) PROVE OriginInv'
  BY <1>4 DEF EmptyPrivate, Goto, TypeOK
<1>5. ASSUME NEW c \in Commands, FillPrivate(c) PROVE OriginInv'
  BY <1>5 DEF FillPrivate, Goto, TypeOK
<1>6. ASSUME NEW c \in Commands, EmptyPublic(c) PROVE OriginInv'
  BY <1>6 DEF EmptyPublic, Goto, TypeOK
<1>7. ASSUME NEW c \in Commands, FillPublic(c) PROVE OriginInv'
  BY <1>7 DEF FillPublic, Goto, TypeOK
<1>8. ASSUME NEW c \in Commands, Sign(c) \/ Verify(c) \/ Kill(c) PROVE OriginInv'
  BY <1>8 DEF Sign, Verify, Kill, Goto, TypeOK
<1>9. QED BY <1>1, <1>2, <1>3, <1>4, <1>5, <1>6, <1>7, <1>8 DEF Next, Run

(* One command at a time finds and leaves complete files. *)
LEMMA SerialStep ==
  ASSUME TypeOK, OriginInv, SerialInv, [Next]_vars PROVE SerialInv'
<1> USE DEF SerialInv, Complete, AtRest
<1>1. CASE UNCHANGED vars
  BY <1>1 DEF vars
<1>2. ASSUME NEW c \in Commands, Look(c) PROVE SerialInv'
  <2>1. ASSUME ~overlap' PROVE ~overlap /\ \A d \in Commands : pc[d] \in AtRest
    BY <1>2, <2>1, Zenon DEF Look
  <2>2. QED BY <1>2, <2>1 DEF Look, Goto, TypeOK
<1>3. ASSUME NEW c \in Commands, Load(c) PROVE SerialInv'
  BY <1>3 DEF Load, Goto, TypeOK
<1>4. ASSUME NEW c \in Commands, EmptyPrivate(c) PROVE SerialInv'
  BY <1>4 DEF EmptyPrivate, Goto, TypeOK
<1>5. ASSUME NEW c \in Commands, FillPrivate(c) PROVE SerialInv'
  BY <1>5 DEF FillPrivate, Goto, TypeOK
<1>6. ASSUME NEW c \in Commands, EmptyPublic(c) PROVE SerialInv'
  BY <1>6 DEF EmptyPublic, Goto, TypeOK
<1>7. ASSUME NEW c \in Commands, FillPublic(c) PROVE SerialInv'
  BY <1>7 DEF FillPublic, Goto, TypeOK
<1>8. ASSUME NEW c \in Commands, Sign(c) PROVE SerialInv'
  BY <1>8 DEF Sign, Goto, TypeOK
<1>9. ASSUME NEW c \in Commands, Verify(c) PROVE SerialInv'
  BY <1>9 DEF Verify, Goto, TypeOK
<1>10. ASSUME NEW c \in Commands, Kill(c) PROVE SerialInv'
  BY <1>10 DEF Kill, TypeOK
<1>11. QED
  BY <1>1, <1>2, <1>3, <1>4, <1>5, <1>6, <1>7, <1>8, <1>9, <1>10 DEF Next, Run

(* The inductive invariant: types, the origin of keys, serial order. *)
THEOREM Invariance == Spec => [](TypeOK /\ OriginInv /\ SerialInv)
<1>1. Init => TypeOK /\ OriginInv /\ SerialInv
  <2>1. ASSUME Init PROVE overlap \in BOOLEAN
    BY <2>1, Zenon DEF Init
  <2>2. ASSUME Init PROVE TypeOK
    BY <2>1, <2>2 DEF Init, TypeOK, Labels, Keys, Files
  <2>3. QED
    BY <2>2 DEF Init, OriginInv, SerialInv, Making, Complete, AtRest
<1>2. TypeOK /\ OriginInv /\ SerialInv /\ [Next]_vars
        => (TypeOK /\ OriginInv /\ SerialInv)'
  BY TypeStep, OriginStep, SerialStep
<1>3. QED BY <1>1, <1>2, PTL DEF Spec

(* Every file and every command holds what the code can put there. *)
THEOREM TypeCorrect == Spec => []TypeOK
BY Invariance, PTL

(***************************************************************************)
(* If one command only made a key, every receipt of every command, through  *)
(* crashes and interleavings, was signed with the key of the key files.     *)
(***************************************************************************)
THEOREM NoOrphans == Spec => []OneMakerNoOrphans
<1>1. TypeOK /\ OriginInv => OneMakerNoOrphans
  BY DEF TypeOK, OriginInv, OneMakerNoOrphans, OneMaker, Files
<1>2. QED BY <1>1, Invariance, PTL

(* Commands that never overlapped, none of them killed, all succeed. *)
THEOREM SerialSuccess == Spec => []SerialCommandsSucceed
<1>1. SerialInv => SerialCommandsSucceed
  BY DEF SerialInv, SerialCommandsSucceed
<1>2. QED BY <1>1, Invariance, PTL
=============================================================================
