--------------------------- MODULE ReceiptProofs ---------------------------
(***************************************************************************)
(* Proofs about Receipt, for any number of seats, hosts and lengths, for    *)
(* every original and scale, and for any number of changed fields: the two  *)
(* ends of the standard agree, a receipt that verifies does not understate, *)
(* and one that is modified does not verify.                                *)
(*                                                                         *)
(* The sums are folds over sets.  What a fold computes is proved by         *)
(* induction over the subsets of a finite set, as membership in a set of    *)
(* subsets, and a sum of naturals is counted: it is the number of units     *)
(* below the summands, so that sums are compared by bijections.             *)
(***************************************************************************)
EXTENDS Receipt, FiniteSetTheorems, SequenceTheorems, TLAPS

-----------------------------------------------------------------------------
(* What holds of the empty set, and of a set if of it without any one       *)
(* element, holds of every finite set.                                      *)
LEMMA SetInduction ==
  ASSUME NEW S, IsFiniteSet(S), NEW G, {} \in G,
         \A T \in SUBSET S : T # {} /\ (\A x \in T : T \ {x} \in G) => T \in G
  PROVE  S \in G
<1> DEFINE Bad == (SUBSET S) \ G
<1>1. SUFFICES ASSUME Bad # {} PROVE FALSE
  OBVIOUS
<1>2. IsWellFoundedOn(StrictSubsetOrdering(S), SUBSET S)
  BY FS_StrictSubsetOrderingWellFounded, FS_FiniteSubsetsOfFinite
<1>3. PICK T \in Bad : \A U \in Bad : <<U, T>> \notin StrictSubsetOrdering(S)
  <2>1. Bad \subseteq SUBSET S
    OBVIOUS
  <2> HIDE DEF Bad
  <2>2. QED
    BY <1>1, <1>2, <2>1, WFMin
<1>4. ASSUME NEW x \in T PROVE T \ {x} \in G
  <2>1. <<T \ {x}, T>> \in StrictSubsetOrdering(S)
    BY DEF StrictSubsetOrdering
  <2> QED
    BY <1>3, <2>1
<1> QED
  BY <1>4

(* The units below the summands f[x], x in S. *)
Units(f, S) == {p \in S \X Nat : p[2] < f[p[1]]}

(* The units below one summand. *)
LEMMA Column ==
  ASSUME NEW x, NEW n \in Nat
  PROVE  IsFiniteSet({x} \X (0..(n - 1))) /\ Cardinality({x} \X (0..(n - 1))) = n
<1> DEFINE X == {x}
           N == 0..(n - 1)
<1>1. IsFiniteSet(N) /\ Cardinality(N) = n
  BY FS_Interval
<1>2. IsFiniteSet(X) /\ Cardinality(X) = 1
  BY FS_Singleton
<1>3. IsFiniteSet(X \X N) /\ Cardinality(X \X N) = 1 * n
  <2> HIDE DEF X, N
  <2> QED BY <1>1, <1>2, FS_Product
<1> QED
  BY <1>3

(* There are finitely many units. *)
LEMMA FiniteUnits ==
  ASSUME NEW S, IsFiniteSet(S), NEW f, \A x \in S : f[x] \in Nat
  PROVE  IsFiniteSet(Units(f, S)) /\ Cardinality(Units(f, S)) \in Nat
<1> DEFINE G == {T \in SUBSET S : IsFiniteSet(Units(f, T))}
<1>1. {} \in G
  <2>1. Units(f, {}) = {}
    BY DEF Units
  <2> QED
    BY <2>1, FS_EmptySet
<1>2. ASSUME NEW T \in SUBSET S, T # {}, \A x \in T : T \ {x} \in G
      PROVE  T \in G
  <2> PICK x \in T : TRUE
    BY <1>2
  <2> DEFINE C == {x} \X (0..(f[x] - 1))
  <2>1. Units(f, T) = Units(f, T \ {x}) \cup C
    BY DEF Units
  <2>2. IsFiniteSet(C)
    BY Column
  <2> HIDE DEF C
  <2>3. IsFiniteSet(Units(f, T \ {x}) \cup C)
    BY <1>2, <2>2, FS_Union
  <2> QED
    BY <2>1, <2>3
<1>3. S \in G
  <2> HIDE DEF G
  <2> QED
    BY <1>1, <1>2, SetInduction
<1> QED
  BY <1>3, FS_CardinalityType

(* One summand more adds its units. *)
LEMMA OneMoreColumn ==
  ASSUME NEW S, IsFiniteSet(S), NEW f, \A x \in S : f[x] \in Nat, NEW x \in S
  PROVE  Cardinality(Units(f, S)) = f[x] + Cardinality(Units(f, S \ {x}))
<1> DEFINE C == {x} \X (0..(f[x] - 1))
           U == Units(f, S \ {x})
<1>1. Units(f, S) = U \cup C /\ U \cap C = {}
  BY DEF Units
<1>2. IsFiniteSet(C) /\ Cardinality(C) = f[x]
  BY Column
<1>3. IsFiniteSet(S \ {x})
  BY FS_RemoveElement
<1>4. IsFiniteSet(U) /\ Cardinality(U) \in Nat
  BY <1>3, FiniteUnits
<1> HIDE DEF C, U
<1>5. Cardinality(U \cup C) = Cardinality(U) + Cardinality(C) - Cardinality(U \cap C)
  BY <1>2, <1>4, FS_Union
<1>6. Cardinality(U \cap C) = 0
  BY <1>1, FS_EmptySet
<1>7. Cardinality(Units(f, S)) = f[x] + Cardinality(U)
  BY <1>1, <1>2, <1>4, <1>5, <1>6
<1> QED
  BY <1>7 DEF U

(* A sum of naturals is the number of units below its summands. *)
LEMMA SumCounts ==
  ASSUME NEW S, IsFiniteSet(S), NEW f, \A x \in S : f[x] \in Nat
  PROVE  SumFunctionOnSet(f, S) = Cardinality(Units(f, S))
<1> DEFINE pick(s) == CHOOSE x \in s : TRUE
           F(it) == [s \in SUBSET S |->
                       IF s = {} THEN 0 ELSE f[pick(s)] + it[s \ {pick(s)}]]
           card == [s \in SUBSET S |-> Cardinality(Units(f, s))]
           iter == CHOOSE it : it = F(it)
<1>1. SumFunctionOnSet(f, S) = iter[S]
  BY DEF SumFunctionOnSet, FoldFunctionOnSet, MapThenFoldSet
<1>2. ASSUME NEW s \in SUBSET S
      PROVE  card[s] = IF s = {} THEN 0 ELSE f[pick(s)] + card[s \ {pick(s)}]
  <2>1. CASE s = {}
    <3>1. Units(f, s) = {}
      BY <2>1 DEF Units
    <3> QED
      BY <2>1, <3>1, FS_EmptySet
  <2>2. CASE s # {}
    <3>1. pick(s) \in s
      BY <2>2
    <3>2. IsFiniteSet(s)
      BY FS_Subset
    <3> HIDE DEF pick
    <3> QED
      BY <2>2, <3>1, <3>2, OneMoreColumn
  <2> QED
    BY <2>1, <2>2
<1>3. card = F(card)
  BY <1>2
<1>4. iter = F(iter)
  <2> HIDE DEF F, card
  <2> QED
    BY <1>3
<1> DEFINE G == {s \in SUBSET S : iter[s] = card[s]}
<1> HIDE DEF iter
<1>5. {} \in G
  BY <1>2, <1>4
<1>6. ASSUME NEW T \in SUBSET S, T # {}, \A x \in T : T \ {x} \in G
      PROVE  T \in G
  <2>1. pick(T) \in T
    BY <1>6
  <2>2. T \ {pick(T)} \in G
    BY <2>1, <1>6
  <2>3. iter[T] = f[pick(T)] + iter[T \ {pick(T)}]
    BY <1>4, <1>6
  <2>4. card[T] = f[pick(T)] + card[T \ {pick(T)}]
    BY <1>2, <1>6
  <2> QED
    BY <2>2, <2>3, <2>4
<1>7. S \in G
  <2> HIDE DEF G
  <2> QED
    BY <1>5, <1>6, SetInduction
<1> QED
  BY <1>1, <1>7

(* A sum of naturals is a natural; taking a summand out takes it off.       *)
LEMMA SumStep ==
  ASSUME NEW S, IsFiniteSet(S), NEW f, \A x \in S : f[x] \in Nat
  PROVE  /\ SumFunctionOnSet(f, S) \in Nat
         /\ S = {} => SumFunctionOnSet(f, S) = 0
         /\ \A x \in S : SumFunctionOnSet(f, S) = f[x] + SumFunctionOnSet(f, S \ {x})
<1>1. SumFunctionOnSet(f, S) = Cardinality(Units(f, S))
  BY SumCounts
<1>2. Cardinality(Units(f, S)) \in Nat
  BY FiniteUnits
<1>3. S = {} => Cardinality(Units(f, S)) = 0
  <2>1. S = {} => Units(f, S) = {}
    BY DEF Units
  <2> QED
    BY <2>1, FS_EmptySet
<1>4. ASSUME NEW x \in S
      PROVE  SumFunctionOnSet(f, S) = f[x] + SumFunctionOnSet(f, S \ {x})
  <2>1. IsFiniteSet(S \ {x})
    BY FS_RemoveElement
  <2>2. SumFunctionOnSet(f, S \ {x}) = Cardinality(Units(f, S \ {x}))
    BY <2>1, SumCounts
  <2>3. Cardinality(Units(f, S)) = f[x] + Cardinality(Units(f, S \ {x}))
    BY OneMoreColumn
  <2> QED
    BY <1>1, <2>2, <2>3
<1> QED
  BY <1>1, <1>2, <1>3, <1>4

(* Sums whose summands correspond one to one are equal.                     *)
LEMMA SumReindex ==
  ASSUME NEW S, IsFiniteSet(S), NEW f \in [S -> Nat],
         NEW T, NEW g \in [T -> Nat],
         NEW h \in Bijection(S, T), \A x \in S : g[h[x]] = f[x]
  PROVE  SumFunction(f) = SumFunction(g)
<1> DEFINE U == Units(f, S)
           V == Units(g, T)
           k == [p \in U |-> <<h[p[1]], p[2]>>]
<1>1. /\ h \in [S -> T] /\ \A x, y \in S : h[x] = h[y] => x = y
      /\ \A y \in T : \E x \in S : h[x] = y
  BY DEF Bijection, Injection, Surjection, IsInjective
<1>2. IsFiniteSet(T)
  BY FS_Bijection DEF ExistsBijection
<1>3. k \in [U -> V]
  BY <1>1 DEF Units
<1>4. \A p, q \in U : k[p] = k[q] => p = q
  BY <1>1 DEF Units
<1>5. \A q \in V : \E p \in U : k[p] = q
  <2> SUFFICES ASSUME NEW q \in V PROVE \E p \in U : k[p] = q
    OBVIOUS
  <2>1. PICK x \in S : h[x] = q[1]
    BY <1>1 DEF Units
  <2>2. <<x, q[2]>> \in U /\ k[<<x, q[2]>>] = q
    BY <2>1 DEF Units
  <2> QED
    BY <2>2
<1>6. k \in Bijection(U, V)
  <2> HIDE DEF U, V, k
  <2> QED
    BY <1>3, <1>4, <1>5 DEF Bijection, Injection, Surjection, IsInjective
<1>7. Cardinality(V) = Cardinality(U)
  <2>1. IsFiniteSet(U)
    BY FiniteUnits
  <2> HIDE DEF U, V, k
  <2> QED
    BY <1>6, <2>1, FS_Bijection DEF ExistsBijection
<1>8. SumFunctionOnSet(f, S) = Cardinality(U) /\ SumFunctionOnSet(g, T) = Cardinality(V)
  BY <1>2, SumCounts
<1>9. DOMAIN f = S /\ DOMAIN g = T
  OBVIOUS
<1> QED
  BY <1>7, <1>8, <1>9 DEF SumFunction

(* The largest of finitely many numbers is one of them.                     *)
LEMMA MaxExists ==
  ASSUME NEW S, IsFiniteSet(S), S # {}, S \subseteq Int
  PROVE  Max(S) \in S /\ \A x \in S : Max(S) >= x
<1> DEFINE G == {T \in SUBSET S : T # {} => \E x \in T : \A y \in T : x >= y}
<1>1. ASSUME NEW T \in SUBSET S, T # {}, \A x \in T : T \ {x} \in G
      PROVE  T \in G
  <2>1. PICK x \in T : TRUE
    BY <1>1
  <2>2. CASE T = {x}
    BY <2>2
  <2>3. CASE T \ {x} # {}
    <3>1. PICK z \in T \ {x} : \A y \in T \ {x} : z >= y
      BY <1>1, <2>1, <2>3
    <3>2. CASE z >= x
      BY <3>1, <3>2
    <3>3. CASE ~(z >= x)
      <4>1. \A y \in T : x >= y
        BY <3>1, <3>3
      <4> QED
        BY <4>1
    <3> QED
      BY <3>2, <3>3
  <2> QED
    BY <2>2, <2>3
<1>2. S \in G
  <2>1. {} \in G
    OBVIOUS
  <2> HIDE DEF G
  <2> QED
    BY <1>1, <2>1, SetInduction
<1> QED
  BY <1>2 DEF Max

(* The largest of a finite set of naturals, or 0.                           *)
LEMMA MaxOr0Bounds ==
  ASSUME NEW S, IsFiniteSet(S), S \subseteq Nat
  PROVE  /\ MaxOr0(S) \in Nat /\ \A x \in S : MaxOr0(S) >= x
         /\ S # {} => MaxOr0(S) = Max(S)
<1> DEFINE m == Max(S \cup {0})
           n == Max(S)
<1>1. IsFiniteSet(S \cup {0}) /\ S \cup {0} # {} /\ S \cup {0} \subseteq Int
  BY FS_AddElement
<1>2. m \in S \cup {0} /\ \A x \in S \cup {0} : m >= x
  BY <1>1, MaxExists
<1>3. S # {} => n \in S /\ \A x \in S : n >= x
  <2>1. S \subseteq Int
    OBVIOUS
  <2> QED
    BY <2>1, MaxExists
<1>4. MaxOr0(S) = m
  BY DEF MaxOr0
<1> HIDE DEF m, n
<1>5. S # {} => m = n
  <2> SUFFICES ASSUME S # {} PROVE m = n
    OBVIOUS
  <2>1. n \in S /\ n \in Nat /\ m \in Nat
    <3>1. n \in S
      BY <1>3
    <3>2. m \in S \cup {0}
      BY <1>2
    <3> QED
      BY <3>1, <3>2
  <2>2. m >= n
    BY <1>2, <2>1
  <2>3. n >= m
    <3>1. CASE m \in S
      BY <1>3, <3>1
    <3>2. CASE m = 0
      BY <2>1, <3>2
    <3> QED
      BY <1>2, <3>1, <3>2
  <2> QED
    BY <2>1, <2>2, <2>3
<1> QED
  BY <1>2, <1>4, <1>5 DEF n

(* The image of a finite set.                                               *)
LEMMA FiniteImage ==
  ASSUME NEW S, IsFiniteSet(S), NEW f
  PROVE  IsFiniteSet({f[x] : x \in S})
<1> DEFINE g == [x \in S |-> f[x]]
           T == {f[x] : x \in S}
<1>1. g \in Surjection(S, T)
  BY DEF Surjection
<1> QED
  BY <1>1, FS_Surjection

(* A list whose keys do not repeat, numbered as a sequence is.               *)
Keyed(list, key) == DOMAIN list \subseteq Int /\ Unique(list, key, {})

(* The dict over a list whose keys do not repeat has what the list has.     *)
LEMMA UniqueDict ==
  ASSUME NEW list, NEW key, NEW value, Keyed(list, key)
  PROVE  \A i \in DOMAIN list : Dict(list, key, value)[list[i][key]] = list[i][value]
<1> SUFFICES ASSUME NEW i \in DOMAIN list
             PROVE  Dict(list, key, value)[list[i][key]] = list[i][value]
  OBVIOUS
<1> DEFINE at == {j \in DOMAIN list : list[j][key] = list[i][key]}
<1>1. at = {i} /\ i \in Int
  BY DEF Keyed, Unique
<1>2. Max(at) = i
  BY <1>1 DEF Max
<1>3. Dict(list, key, value)[list[i][key]] = list[Max(at)][value]
  BY DEF Dict
<1> QED
  BY <1>2, <1>3

(* The rounded ratio of a text is its exact share to within half a unit.    *)
LEMMA RatioRounds ==
  ASSUME NEW n \in Nat
  PROVE  /\ Ratio(n) \in Nat
         /\ 2 * (Original * Ratio(n) - Scale * n) <= Original
         /\ 2 * (Scale * n - Original * Ratio(n)) <= Original
<1> DEFINE a == 2 * n * Scale + Original
           b == 2 * Original
           q == a \div b
<1>1. /\ Original \in Nat /\ Original > 0 /\ Scale \in Nat /\ Scale > 0
  BY NumberAssumption
<1>2. n * Scale \in Nat
  BY <1>1
<1>3. a \in Nat /\ b \in Nat /\ b > 0
  BY <1>1, <1>2
<1>4. q \in Int /\ b * q <= a /\ a < b * q + b
  <2> HIDE DEF a, b
  <2> QED BY <1>3
<1>5. q >= 0
  <2> SUFFICES ASSUME q <= -1 PROVE FALSE
    BY <1>4
  <2>1. b * q <= -b
    <3> HIDE DEF a, b, q
    <3> QED BY <1>3, <1>4
  <2> HIDE DEF q
  <2> QED BY <2>1, <1>3, <1>4
<1>6. b * q = 2 * (Original * q) /\ Original * q \in Int
  BY <1>1, <1>4
<1>7. Ratio(n) = q
  BY DEF Ratio
<1>8. a = 2 * (Scale * n) + Original
  BY <1>1
<1> QED
  <2> DEFINE oq == Original * q
             sn == Scale * n
  <2>1. oq \in Int /\ sn \in Int
    BY <1>1, <1>4
  <2>2. 2 * oq <= 2 * sn + Original /\ 2 * sn + Original < 2 * oq + 2 * Original
    BY <1>4, <1>6, <1>8
  <2>3. 2 * (oq - sn) <= Original /\ 2 * (sn - oq) <= Original
    <3> HIDE DEF oq, sn
    <3> QED BY <1>1, <2>1, <2>2
  <2> QED
    BY <1>4, <1>5, <1>7, <2>3

-----------------------------------------------------------------------------
(* What a receipt may hold, whoever made it.                                *)
Names == {TrustDomain(h) : h \in Spellings}
Event ==
  [provider_id : Range(Fragments) \cup {Missing}, seat_id : Range(Fragments) \cup {Missing},
   trust_domain : Names \cup {Missing}, endpoint_host : Spellings \cup {Missing}]
Exposure == [provider_id : Range(Fragments), exposure_ratio : Nat]
Claim ==
  [trust_domain : Names, exposure_ratio : Nat,
   seat_ids : (SUBSET Range(Fragments)) \cup {Missing}]
Bodies ==
  [provider_events : Seq(Event),
   single_provider_exposure : Seq(Exposure),
   max_single_seat_exposure : Nat \cup {Missing},
   trust_domain_exposure : Seq(Claim) \cup {Missing},
   max_single_trust_domain_exposure : Nat \cup {Missing},
   max_single_provider_exposure : Nat \cup {Missing},
   no_single_trust_domain_received_all_fragments : BOOLEAN \cup {Missing}]

(* In a receipt whose aggregates agree, the dicts have what the lists have. *)
LEMMA DictsAreLists ==
  ASSUME NEW b \in Bodies, ShapeOK(b), HostsAgree(b), AggregatesAgree(b)
  PROVE  LET E == b.provider_events
             X == b.single_provider_exposure IN
         /\ DOMAIN E = 1..Len(E) /\ Len(E) \in Nat
         /\ DOMAIN X = 1..Len(X) /\ Len(X) \in Nat
         /\ AllSeats(b) = {E[i].seat_id : i \in DOMAIN E}
         /\ \A i, j \in DOMAIN E : E[i].seat_id = E[j].seat_id => i = j
         /\ \A i, j \in DOMAIN X : X[i].provider_id = X[j].provider_id => i = j
         /\ \A j \in DOMAIN X : X[j].exposure_ratio \in Nat
         /\ \A i \in DOMAIN E :
              /\ seat_domain(b)[E[i].seat_id] = EventDomain(E[i])
              /\ seat_by_id(b)[E[i].seat_id] = E[i].provider_id
              /\ \E j \in DOMAIN X : X[j].provider_id = E[i].provider_id
         /\ \A j \in DOMAIN X : seat_ratio(b)[X[j].provider_id] = X[j].exposure_ratio
<1> DEFINE E == b.provider_events
           X == b.single_provider_exposure
<1>1. E \in Seq(Event) /\ X \in Seq(Exposure)
  BY DEF Bodies
<1>2. DOMAIN E = 1..Len(E) /\ Len(E) \in Nat /\ DOMAIN X = 1..Len(X) /\ Len(X) \in Nat
  BY <1>1, LenProperties
<1>3. AllSeats(b) = {E[i].seat_id : i \in DOMAIN E}
  BY DEF AllSeats, seat_domain, Dict
<1>4. \A i, j \in DOMAIN E : E[i].seat_id = E[j].seat_id => i = j
  <2>1. \A s \in AllSeats(b) : s # Missing
    BY DEF AggregatesAgree
  <2>2. \A i, j \in DOMAIN E :
          E[i].seat_id = E[j].seat_id => i = j \/ E[i].seat_id = Missing
    BY DEF ShapeOK, Unique
  <2> QED
    BY <1>3, <2>1, <2>2
<1>5. \A i, j \in DOMAIN X : X[i].provider_id = X[j].provider_id => i = j
  BY DEF ShapeOK, Unique
<1>6. \A j \in DOMAIN X : X[j].exposure_ratio \in Nat
  <2> SUFFICES ASSUME NEW j \in DOMAIN X PROVE X[j].exposure_ratio \in Nat
    OBVIOUS
  <2>1. X[j] \in Exposure
    <3> HIDE DEF X
    <3> QED
      BY <1>1, <1>2, ElementOfSeq
  <2> QED
    BY <2>1 DEF Exposure
<1>7. /\ \A i \in DOMAIN E : seat_domain(b)[E[i].seat_id] = E[i].trust_domain
      /\ \A i \in DOMAIN E : seat_by_id(b)[E[i].seat_id] = E[i].provider_id
  <2>1. Keyed(E, "seat_id")
    BY <1>2, <1>4 DEF Keyed, Unique
  <2>2. /\ seat_domain(b) = Dict(E, "seat_id", "trust_domain")
        /\ seat_by_id(b) = Dict(E, "seat_id", "provider_id")
    BY DEF seat_domain, seat_by_id
  <2> DEFINE key == "seat_id"
             domain == "trust_domain"
             provider == "provider_id"
  <2>3. /\ \A i \in DOMAIN E : Dict(E, key, domain)[E[i][key]] = E[i][domain]
        /\ \A i \in DOMAIN E : Dict(E, key, provider)[E[i][key]] = E[i][provider]
    <3>1. Keyed(E, key)
      BY <2>1
    <3> HIDE DEF E, key, domain, provider
    <3> QED
      BY <3>1, UniqueDict
  <2> QED
    BY <2>2, <2>3
<1>8. /\ DOMAIN seat_ratio(b) = {X[j].provider_id : j \in DOMAIN X}
      /\ \A j \in DOMAIN X : seat_ratio(b)[X[j].provider_id] = X[j].exposure_ratio
  <2>1. Keyed(X, "provider_id")
    BY <1>2, <1>5 DEF Keyed, Unique
  <2>2. seat_ratio(b) = Dict(X, "provider_id", "exposure_ratio")
    BY DEF seat_ratio
  <2> DEFINE key == "provider_id"
             ratio == "exposure_ratio"
  <2>3. \A i \in DOMAIN X : Dict(X, key, ratio)[X[i][key]] = X[i][ratio]
    <3>1. Keyed(X, key)
      BY <2>1
    <3> HIDE DEF X, key, ratio
    <3> QED
      BY <3>1, UniqueDict
  <2>4. DOMAIN seat_ratio(b) = {X[j].provider_id : j \in DOMAIN X}
    BY DEF seat_ratio, Dict
  <2> QED
    BY <2>2, <2>3, <2>4
<1>9. ASSUME NEW i \in DOMAIN E
      PROVE  /\ seat_domain(b)[E[i].seat_id] = EventDomain(E[i])
             /\ \E j \in DOMAIN X : X[j].provider_id = E[i].provider_id
  <2>1. E[i].seat_id \in AllSeats(b)
    BY <1>3
  <2>2. /\ E[i].trust_domain # Missing
        /\ E[i].provider_id \in DOMAIN seat_ratio(b)
    BY <1>7, <2>1 DEF AggregatesAgree
  <2>3. EventDomain(E[i]) = E[i].trust_domain
    BY <2>2 DEF HostsAgree, EventDomain
  <2> QED
    BY <1>7, <1>8, <2>2, <2>3
<1> QED
  BY <1>2, <1>3, <1>4, <1>5, <1>6, <1>7, <1>8, <1>9

(* What the verifier recomputes is what the events say, one by one.         *)
LEMMA RecomputedIsSent ==
  ASSUME NEW b \in Bodies, ShapeOK(b), HostsAgree(b), AggregatesAgree(b)
  PROVE  /\ Told(b) = Domains(b)
         /\ IsFiniteSet(AllSeats(b)) /\ IsFiniteSet(Domains(b))
         /\ \A d \in Told(b) : Recomputed(b, d) \in Nat /\ SentTo(b, d) = Recomputed(b, d)
         /\ OneGotAll(b) <=> \E d \in Domains(b) : SeatsIn(b, d) = AllSeats(b)
<1> DEFINE E == b.provider_events
           X == b.single_provider_exposure
<1>1. /\ DOMAIN E = 1..Len(E) /\ Len(E) \in Nat
      /\ DOMAIN X = 1..Len(X) /\ Len(X) \in Nat
      /\ AllSeats(b) = {E[i].seat_id : i \in DOMAIN E}
      /\ \A i, j \in DOMAIN E : E[i].seat_id = E[j].seat_id => i = j
      /\ \A i, j \in DOMAIN X : X[i].provider_id = X[j].provider_id => i = j
      /\ \A j \in DOMAIN X : X[j].exposure_ratio \in Nat
  BY DictsAreLists
<1>2. \A i \in DOMAIN E :
        /\ seat_domain(b)[E[i].seat_id] = EventDomain(E[i])
        /\ seat_by_id(b)[E[i].seat_id] = E[i].provider_id
        /\ \E j \in DOMAIN X : X[j].provider_id = E[i].provider_id
  BY DictsAreLists
<1>3. \A j \in DOMAIN X : seat_ratio(b)[X[j].provider_id] = X[j].exposure_ratio
  BY DictsAreLists
<1>4. IsFiniteSet(DOMAIN E) /\ IsFiniteSet(DOMAIN X)
  <2>1. \A n \in Nat : IsFiniteSet(1..n)
    BY FS_Interval
  <2> QED
    BY <1>1, <2>1
<1>5. IsFiniteSet(AllSeats(b))
  <2> DEFINE f == [i \in DOMAIN E |-> E[i].seat_id]
  <2>1. AllSeats(b) = {f[i] : i \in DOMAIN E}
    BY <1>1
  <2> HIDE DEF f, E
  <2> QED
    BY <1>4, <2>1, FiniteImage
<1>6. Told(b) = Domains(b)
  <2>1. Domains(b) = {seat_domain(b)[s] : s \in AllSeats(b)}
    BY DEF Domains, AllSeats, Range
  <2>2. Told(b) = {EventDomain(E[i]) : i \in DOMAIN E}
    BY DEF Told
  <2> QED
    BY <1>1, <1>2, <2>1, <2>2
<1>7. IsFiniteSet(Domains(b))
  <2>1. Domains(b) = {seat_domain(b)[s] : s \in AllSeats(b)}
    BY DEF Domains, AllSeats, Range
  <2> QED
    BY <1>5, <2>1, FiniteImage
<1>8. ASSUME NEW d
      PROVE  /\ SeatsIn(b, d) = {E[i].seat_id : i \in EventsIn(b, d)}
             /\ EventsIn(b, d) \subseteq DOMAIN E
             /\ EventsIn(b, d) = DOMAIN E <=> SeatsIn(b, d) = AllSeats(b)
  <2>1. EventsIn(b, d) = {i \in DOMAIN E : EventDomain(E[i]) = d}
    BY DEF EventsIn
  <2>2. SeatsIn(b, d) = {E[i].seat_id : i \in EventsIn(b, d)}
    BY <1>1, <1>2, <2>1 DEF SeatsIn
  <2>3. EventsIn(b, d) = DOMAIN E => SeatsIn(b, d) = AllSeats(b)
    BY <1>1, <2>2
  <2>4. SeatsIn(b, d) = AllSeats(b) => EventsIn(b, d) = DOMAIN E
    <3> SUFFICES ASSUME SeatsIn(b, d) = AllSeats(b), NEW i \in DOMAIN E
                 PROVE  i \in EventsIn(b, d)
      BY <2>1
    <3>1. E[i].seat_id \in SeatsIn(b, d)
      BY <1>1
    <3>2. PICK j \in EventsIn(b, d) : E[j].seat_id = E[i].seat_id
      BY <2>2, <3>1
    <3>3. j = i
      BY <1>1, <2>1, <3>2
    <3> QED
      BY <3>3
  <2> QED
    BY <2>1, <2>2, <2>3, <2>4
<1>9. ASSUME NEW d
      PROVE  Recomputed(b, d) \in Nat /\ SentTo(b, d) = Recomputed(b, d)
  <2> DEFINE P == Priced(b, d)
             S == SeatsIn(b, d)
             f == [p \in P |-> X[p[2]].exposure_ratio]
             g == [s \in S |-> seat_ratio(b)[seat_by_id(b)[s]]]
             h == [p \in P |-> E[p[1]].seat_id]
  <2>1. \A p \in P : /\ p = <<p[1], p[2]>> /\ p[1] \in EventsIn(b, d) /\ p[2] \in DOMAIN X
                     /\ E[p[1]].provider_id = X[p[2]].provider_id
    BY DEF Priced
  <2>2. IsFiniteSet(P)
    <3>1. IsFiniteSet(EventsIn(b, d))
      BY <1>4, <1>8, FS_Subset
    <3>2. IsFiniteSet(EventsIn(b, d) \X DOMAIN X)
      BY <1>4, <3>1, FS_Product
    <3>3. P \subseteq EventsIn(b, d) \X DOMAIN X
      BY DEF Priced
    <3> HIDE DEF P, X
    <3> QED
      BY <3>2, <3>3, FS_Subset
  <2>3. f \in [P -> Nat]
    BY <1>1, <2>1
  <2>4. \A s \in S : \E p \in P : h[p] = s
    <3> SUFFICES ASSUME NEW s \in S PROVE \E p \in P : h[p] = s
      OBVIOUS
    <3>1. PICK i \in EventsIn(b, d) : E[i].seat_id = s
      BY <1>8
    <3>2. PICK j \in DOMAIN X : X[j].provider_id = E[i].provider_id
      BY <1>2, <1>8
    <3>3. <<i, j>> \in P
      BY <3>2 DEF Priced
    <3> QED
      BY <3>1, <3>3
  <2>5. h \in [P -> S] /\ \A p, q \in P : h[p] = h[q] => p = q
    <3>1. h \in [P -> S]
      BY <1>8, <2>1
    <3>2. ASSUME NEW p \in P, NEW q \in P, h[p] = h[q] PROVE p = q
      <4>1. p[1] = q[1]
        BY <1>1, <1>8, <2>1, <3>2
      <4>2. p[2] = q[2]
        BY <1>1, <2>1, <4>1
      <4> QED
        BY <2>1, <4>1, <4>2
    <3> QED
      BY <3>1, <3>2
  <2>6. h \in Bijection(P, S)
    <3> HIDE DEF P, S, h
    <3> QED
      BY <2>4, <2>5 DEF Bijection, Injection, Surjection, IsInjective
  <2>7. \A p \in P : g[h[p]] = f[p]
    <3> SUFFICES ASSUME NEW p \in P PROVE g[h[p]] = f[p]
      OBVIOUS
    <3>1. p[1] \in DOMAIN E /\ p[2] \in DOMAIN X /\ E[p[1]].provider_id = X[p[2]].provider_id
      BY <1>8, <2>1
    <3>2. h[p] \in S /\ h[p] = E[p[1]].seat_id
      BY <2>5
    <3>3. seat_by_id(b)[h[p]] = X[p[2]].provider_id
      BY <1>2, <3>1, <3>2
    <3> QED
      BY <1>3, <3>1, <3>2, <3>3
  <2>8. g \in [S -> Nat]
    <3> SUFFICES ASSUME NEW s \in S PROVE g[s] \in Nat
      OBVIOUS
    <3>1. PICK p \in P : h[p] = s
      BY <2>4
    <3>2. f[p] \in Nat
      BY <2>3
    <3> HIDE DEF P, S, f, g, h
    <3> QED
      BY <2>7, <3>1, <3>2
  <2>9. SumFunction(f) = SumFunction(g)
    <3> HIDE DEF P, S, f, g, h
    <3> QED
      BY <2>2, <2>3, <2>6, <2>7, <2>8, SumReindex
  <2>10. SumFunction(g) \in Nat
    <3>1. IsFiniteSet(S)
      BY <1>5, FS_Subset DEF SeatsIn
    <3>2. DOMAIN g = S /\ \A s \in S : g[s] \in Nat
      BY <2>8
    <3> HIDE DEF S, g
    <3> QED
      BY <3>1, <3>2, SumStep DEF SumFunction
  <2> QED
    BY <2>9, <2>10 DEF SentTo, Recomputed
<1> QED
  BY <1>5, <1>6, <1>7, <1>8, <1>9 DEF OneGotAll

(* Whoever built it: what passes the checks does not understate.            *)
LEMMA CheckedBodiesAggregate ==
  ASSUME NEW b \in Bodies, ShapeOK(b), HostsAgree(b), AggregatesAgree(b),
         b.trust_domain_exposure # Missing
  PROVE  EveryDomainListed(b) /\ MaximaCover(b) /\ FlagTells(b)
<1> DEFINE C == b.trust_domain_exposure
           largest == MaxOr0({Recomputed(b, d) : d \in Domains(b)})
<1>1. /\ Told(b) = Domains(b)
      /\ IsFiniteSet(AllSeats(b)) /\ IsFiniteSet(Domains(b))
      /\ \A d \in Told(b) : Recomputed(b, d) \in Nat /\ SentTo(b, d) = Recomputed(b, d)
      /\ OneGotAll(b) <=> \E d \in Domains(b) : SeatsIn(b, d) = AllSeats(b)
  BY RecomputedIsSent
<1>2. /\ {C[i].trust_domain : i \in DOMAIN C} = Domains(b)
      /\ \A i \in DOMAIN C : ~Differs(C[i].exposure_ratio, Recomputed(b, C[i].trust_domain))
      /\ b.no_single_trust_domain_received_all_fragments \in
           {Missing, ~ \E d \in Domains(b) : SeatsIn(b, d) = AllSeats(b)}
      /\ ~Mismatch(b, "max_single_trust_domain_exposure", largest)
      /\ ~Mismatch(b, "max_single_provider_exposure", largest)
  BY DEF AggregatesAgree
<1>3. EveryDomainListed(b)
  <2> SUFFICES ASSUME NEW d \in Told(b)
               PROVE  \E i \in DOMAIN C : /\ C[i].trust_domain = d
                                          /\ ~Differs(C[i].exposure_ratio, SentTo(b, d))
    BY DEF EveryDomainListed
  <2>1. PICK i \in DOMAIN C : C[i].trust_domain = d
    BY <1>1, <1>2
  <2> QED
    BY <1>1, <1>2, <2>1
<1>4. largest \in Nat /\ \A d \in Domains(b) : largest >= Recomputed(b, d)
  <2> DEFINE f == [d \in Domains(b) |-> Recomputed(b, d)]
             R == {f[d] : d \in Domains(b)}
  <2>1. IsFiniteSet(R)
    <3> HIDE DEF f
    <3> QED
      BY <1>1, FiniteImage
  <2>2. R \subseteq Nat /\ R = {Recomputed(b, d) : d \in Domains(b)}
    BY <1>1
  <2>3. MaxOr0(R) \in Nat /\ \A x \in R : MaxOr0(R) >= x
    <3> HIDE DEF R
    <3> QED
      BY <2>1, <2>2, MaxOr0Bounds
  <2> QED
    BY <2>2, <2>3
<1>5. MaximaCover(b)
  <2> SUFFICES ASSUME NEW d \in Told(b)
               PROVE  /\ b.max_single_trust_domain_exposure = Missing
                           \/ b.max_single_trust_domain_exposure + 1 >= SentTo(b, d)
                      /\ b.max_single_provider_exposure + 1 >= SentTo(b, d)
    BY DEF MaximaCover
  <2>1. largest >= SentTo(b, d) /\ SentTo(b, d) \in Nat
    BY <1>1, <1>4
  <2>2. /\ b.max_single_trust_domain_exposure \in Nat \cup {Missing}
        /\ b.max_single_provider_exposure \in Nat \cup {Missing}
        /\ b.max_single_provider_exposure # Missing
    BY DEF Bodies, ShapeOK
  <2>3. /\ b.max_single_trust_domain_exposure # Missing =>
             ~Differs(b.max_single_trust_domain_exposure, largest)
        /\ ~Differs(b.max_single_provider_exposure, largest)
    BY <1>2, <2>2 DEF Mismatch
  <2> HIDE DEF largest
  <2> QED
    BY <1>4, <2>1, <2>2, <2>3 DEF Differs
<1>6. FlagTells(b)
  BY <1>1, <1>2 DEF FlagTells
<1> QED
  BY <1>3, <1>5, <1>6

-----------------------------------------------------------------------------
(* A list of the elements of a finite set.                                  *)
LEMMA SetAsList ==
  ASSUME NEW S, IsFiniteSet(S)
  PROVE  /\ SetToSeq(S) \in Seq(S)
         /\ \A x \in S : \E i \in DOMAIN SetToSeq(S) : SetToSeq(S)[i] = x
         /\ \A i \in DOMAIN SetToSeq(S) : SetToSeq(S)[i] \in S
         /\ \A i, j \in DOMAIN SetToSeq(S) : SetToSeq(S)[i] = SetToSeq(S)[j] => i = j
<1> DEFINE n == Cardinality(S)
           q == SetToSeq(S)
<1>1. n \in Nat /\ \E f \in [1..n -> S] : IsInjective(f)
  BY FS_CardinalityType DEF ExistsBijection, Bijection, Injection
<1>2. q \in [1..n -> S] /\ IsInjective(q)
  BY <1>1 DEF SetToSeq
<1>3. q \in Surjection(1..n, S)
  <2>1. q \in Injection(1..n, S)
    BY <1>2 DEF Injection
  <2>2. Cardinality(1..n) = Cardinality(S)
    BY <1>1, FS_Interval
  <2> HIDE DEF q
  <2> QED
    BY <2>1, <2>2, FS_Injection
<1>4. q \in Seq(S)
  BY <1>1, <1>2, SeqDef
<1> QED
  BY <1>2, <1>3, <1>4 DEF Surjection, IsInjective

(* Every seat has a host and a length.                                      *)
Seated == host \in [Seats -> Hosts] /\ length \in [Seats -> Lengths]

(* The seats of one domain, and what they are told to have got.             *)
LEMMA SeatFacts ==
  ASSUME Seated
  PROVE  /\ Seats = 1..Len(Fragments) /\ Len(Fragments) \in Nat
         /\ Seats # {} /\ IsFiniteSet(Seats)
         /\ \A i, j \in Seats : Fragments[i] = Fragments[j] => i = j
         /\ \A i \in Seats : /\ Fragments[i] \in Range(Fragments) /\ Fragments[i] # Missing
                             /\ SeatDomain(i) \in Names
                             /\ SeatDomain(i) # Missing
                             /\ Ratio(length[i]) \in Nat
         /\ IsFiniteSet(SeatDomains) /\ SeatDomains \subseteq Names
         /\ \A d : /\ SeatsOf(d) \subseteq Seats /\ IsFiniteSet(SeatsOf(d))
                   /\ DomainRatio(d) \in Nat
<1>1. Fragments \in Seq(Range(Fragments)) /\ IsInjective(Fragments) /\ Fragments # <<>>
  BY FragmentAssumption
<1>2. Seats = 1..Len(Fragments) /\ Len(Fragments) \in Nat
  BY <1>1, LenProperties DEF Seats
<1>3. Seats # {}
  <2>1. Len(Fragments) \in Nat \ {0}
    BY <1>1, EmptySeq
  <2> QED
    BY <1>2, <2>1
<1>4. IsFiniteSet(Seats)
  BY <1>2, FS_Interval
<1>5. \A i, j \in Seats : Fragments[i] = Fragments[j] => i = j
  BY <1>1 DEF IsInjective, Seats
<1>6. ASSUME NEW i \in Seats
      PROVE  /\ Fragments[i] \in Range(Fragments) /\ Fragments[i] # Missing
             /\ SeatDomain(i) \in Names
             /\ SeatDomain(i) # Missing
             /\ Ratio(length[i]) \in Nat
  <2>1. Fragments[i] \in Range(Fragments)
    BY DEF Seats, Range
  <2>2. SeatDomain(i) \in Names
    BY DEF Seated, Names, SeatDomain, Spellings
  <2>3. length[i] \in Nat
    BY NumberAssumption DEF Seated
  <2>4. Ratio(length[i]) \in Nat
    BY <2>3, RatioRounds
  <2> QED
    BY <2>1, <2>2, <2>4, MissingAssumption DEF Names
<1>7. IsFiniteSet(SeatDomains) /\ SeatDomains \subseteq Names
  <2> DEFINE f == [i \in Seats |-> SeatDomain(i)]
  <2>1. SeatDomains = {f[i] : i \in Seats}
    BY DEF SeatDomains
  <2>2. SeatDomains \subseteq Names
    BY <1>6, <2>1
  <2> HIDE DEF f
  <2> QED
    BY <1>4, <2>1, <2>2, FiniteImage
<1>8. ASSUME NEW d
      PROVE  /\ SeatsOf(d) \subseteq Seats /\ IsFiniteSet(SeatsOf(d))
             /\ DomainRatio(d) \in Nat
  <2> DEFINE S == SeatsOf(d)
             f == [i \in S |-> Ratio(length[i])]
  <2>1. S \subseteq Seats
    BY DEF SeatsOf
  <2>2. IsFiniteSet(S)
    BY <1>4, <2>1, FS_Subset
  <2>3. DOMAIN f = S /\ \A i \in S : f[i] \in Nat
    BY <1>6, <2>1
  <2>4. SumFunction(f) \in Nat
    <3> HIDE DEF S, f
    <3> QED
      BY <2>2, <2>3, SumStep DEF SumFunction
  <2> QED
    BY <2>1, <2>2, <2>4 DEF DomainRatio
<1> QED
  BY <1>2, <1>3, <1>4, <1>5, <1>6, <1>7, <1>8

(* The entries of a built receipt: one for each domain.                     *)
Entry(d) ==
  [trust_domain |-> d, exposure_ratio |-> DomainRatio(d),
   seat_ids |-> {Fragments[i] : i \in SeatsOf(d)}]

LEMMA BuiltEntries ==
  ASSUME Seated
  PROVE  LET C == BuiltBody.trust_domain_exposure IN
         /\ C \in Seq(Claim)
         /\ \A i \in DOMAIN C : C[i].trust_domain \in SeatDomains /\ C[i] = Entry(C[i].trust_domain)
         /\ \A d \in SeatDomains : \E i \in DOMAIN C : C[i].trust_domain = d
         /\ \A i, j \in DOMAIN C : C[i].trust_domain = C[j].trust_domain => i = j
<1> DEFINE C == BuiltBody.trust_domain_exposure
           S == {Entry(d) : d \in SeatDomains}
<1>1. C = SetToSeq(S)
  BY DEF BuiltBody, Entry
<1>2. \A d \in SeatDomains : Entry(d) \in Claim /\ Entry(d).trust_domain = d
  <2> SUFFICES ASSUME NEW d \in SeatDomains
               PROVE  Entry(d) \in Claim /\ Entry(d).trust_domain = d
    OBVIOUS
  <2>1. d \in Names /\ DomainRatio(d) \in Nat /\ SeatsOf(d) \subseteq Seats
    BY SeatFacts
  <2>2. {Fragments[i] : i \in SeatsOf(d)} \in SUBSET Range(Fragments)
    BY <2>1, SeatFacts
  <2> QED
    BY <2>1, <2>2 DEF Entry, Claim
<1>3. IsFiniteSet(S)
  <2> DEFINE f == [d \in SeatDomains |-> Entry(d)]
  <2>1. S = {f[d] : d \in SeatDomains}
    OBVIOUS
  <2>2. IsFiniteSet(SeatDomains)
    BY SeatFacts
  <2> HIDE DEF S, f
  <2> QED
    BY <2>1, <2>2, FiniteImage
<1>4. S \subseteq Claim
  BY <1>2
<1>5. /\ C \in Seq(S)
      /\ \A x \in S : \E i \in DOMAIN C : C[i] = x
      /\ \A i \in DOMAIN C : C[i] \in S
      /\ \A i, j \in DOMAIN C : C[i] = C[j] => i = j
  <2> HIDE DEF S, C
  <2> QED
    BY <1>1, <1>3, SetAsList
<1>6. C \in Seq(Claim)
  <2> HIDE DEF S, C
  <2> QED
    BY <1>4, <1>5, SeqMonotonic
<1>7. \A i \in DOMAIN C : C[i].trust_domain \in SeatDomains /\ C[i] = Entry(C[i].trust_domain)
  <2> HIDE DEF C
  <2> QED
    BY <1>2, <1>5
<1>8. \A d \in SeatDomains : \E i \in DOMAIN C : C[i].trust_domain = d
  <2> HIDE DEF C
  <2> QED
    BY <1>2, <1>5
<1>9. \A i, j \in DOMAIN C : C[i].trust_domain = C[j].trust_domain => i = j
  <2> HIDE DEF C
  <2> QED
    BY <1>5, <1>7
<1> QED
  BY <1>6, <1>7, <1>8, <1>9

(* The other lists of a built receipt, and its maxima.                      *)
LEMMA BuiltFields ==
  ASSUME Seated
  PROVE  LET E == BuiltBody.provider_events
             X == BuiltBody.single_provider_exposure
             largest == MaxOr0({DomainRatio(d) : d \in SeatDomains}) IN
         /\ DOMAIN E = Seats /\ E \in Seq(Event)
         /\ DOMAIN X = Seats /\ X \in Seq(Exposure)
         /\ \A i \in Seats : /\ E[i].provider_id = Fragments[i]
                             /\ E[i].seat_id = Fragments[i]
                             /\ E[i].trust_domain = SeatDomain(i)
                             /\ E[i].endpoint_host = EndpointHost(host[i])
                             /\ X[i].provider_id = Fragments[i]
                             /\ X[i].exposure_ratio = Ratio(length[i])
         /\ largest \in Nat
         /\ BuiltBody.max_single_trust_domain_exposure = largest
         /\ BuiltBody.max_single_provider_exposure = largest
         /\ BuiltBody.max_single_seat_exposure = MaxOr0({Ratio(length[i]) : i \in Seats})
         /\ MaxOr0({Ratio(length[i]) : i \in Seats}) = Max({Ratio(length[i]) : i \in Seats})
         /\ MaxOr0({Ratio(length[i]) : i \in Seats}) \in Nat
<1> DEFINE E == BuiltBody.provider_events
           X == BuiltBody.single_provider_exposure
           largest == MaxOr0({DomainRatio(d) : d \in SeatDomains})
           ratios == {Ratio(length[i]) : i \in Seats}
<1>1. /\ E = [i \in Seats |->
                [provider_id |-> Fragments[i], seat_id |-> Fragments[i],
                 trust_domain |-> SeatDomain(i), endpoint_host |-> EndpointHost(host[i])]]
      /\ X = [i \in Seats |->
                [provider_id |-> Fragments[i], exposure_ratio |-> Ratio(length[i])]]
  BY DEF BuiltBody
<1>2. E \in Seq(Event)
  <2>1. \A i \in Seats : EndpointHost(host[i]) \in Spellings
    BY DEF Seated, Spellings
  <2>2. \A i \in Seats : E[i] \in Event
    BY <1>1, <2>1, SeatFacts DEF Event
  <2>3. E \in [1..Len(Fragments) -> Event] /\ Len(Fragments) \in Nat
    BY <1>1, <2>2, SeatFacts
  <2> HIDE DEF E
  <2> QED
    BY <2>3, SeqDef
<1>3. X \in Seq(Exposure)
  <2>1. \A i \in Seats : X[i] \in Exposure
    BY <1>1, SeatFacts DEF Exposure
  <2>2. X \in [1..Len(Fragments) -> Exposure] /\ Len(Fragments) \in Nat
    BY <1>1, <2>1, SeatFacts
  <2> HIDE DEF X
  <2> QED
    BY <2>2, SeqDef
<1>4. largest \in Nat
  <2> DEFINE f == [d \in SeatDomains |-> DomainRatio(d)]
             R == {f[d] : d \in SeatDomains}
  <2>1. IsFiniteSet(SeatDomains) /\ R \subseteq Nat
    BY SeatFacts
  <2>2. IsFiniteSet(R)
    <3> HIDE DEF f
    <3> QED
      BY <2>1, FiniteImage
  <2>3. MaxOr0(R) \in Nat
    <3> HIDE DEF R
    <3> QED
      BY <2>1, <2>2, MaxOr0Bounds
  <2>4. R = {DomainRatio(d) : d \in SeatDomains}
    OBVIOUS
  <2> HIDE DEF R
  <2> QED
    BY <2>3, <2>4
<1>5. ratios # {} /\ ratios \subseteq Nat
  BY SeatFacts
<1>6. IsFiniteSet(ratios)
  <2> DEFINE f == [i \in Seats |-> Ratio(length[i])]
  <2>1. ratios = {f[i] : i \in Seats} /\ IsFiniteSet(Seats)
    BY SeatFacts
  <2> HIDE DEF f, ratios
  <2> QED
    BY <2>1, FiniteImage
<1>7. MaxOr0(ratios) = Max(ratios) /\ MaxOr0(ratios) \in Nat
  <2> HIDE DEF ratios
  <2> QED
    BY <1>5, <1>6, MaxOr0Bounds
<1>8. /\ BuiltBody.max_single_trust_domain_exposure = largest
      /\ BuiltBody.max_single_provider_exposure = largest
      /\ BuiltBody.max_single_seat_exposure = MaxOr0(ratios)
  BY DEF BuiltBody
<1>9. DOMAIN E = Seats /\ DOMAIN X = Seats
  BY <1>1
<1>10. \A i \in Seats :
         /\ E[i].provider_id = Fragments[i]
         /\ E[i].seat_id = Fragments[i]
         /\ E[i].trust_domain = SeatDomain(i)
         /\ E[i].endpoint_host = EndpointHost(host[i])
         /\ X[i].provider_id = Fragments[i]
         /\ X[i].exposure_ratio = Ratio(length[i])
  BY <1>1
<1> QED
  BY <1>2, <1>3, <1>4, <1>7, <1>8, <1>9, <1>10

(* The verifier recomputes of a built receipt what the builder computed.    *)
LEMMA BuiltRecomputed ==
  ASSUME Seated
  PROVE  LET b == BuiltBody IN
         /\ AllSeats(b) = Range(Fragments) /\ Domains(b) = SeatDomains
         /\ \A i \in Seats : /\ seat_domain(b)[Fragments[i]] = SeatDomain(i)
                             /\ seat_by_id(b)[Fragments[i]] = Fragments[i]
         /\ DOMAIN seat_ratio(b) = Range(Fragments)
         /\ \A d : /\ SeatsIn(b, d) = {Fragments[i] : i \in SeatsOf(d)}
                   /\ Recomputed(b, d) = DomainRatio(d)
                   /\ SeatsIn(b, d) = AllSeats(b) <=> SeatsOf(d) = Seats
<1> DEFINE b == BuiltBody
           E == b.provider_events
           X == b.single_provider_exposure
<1>1. /\ DOMAIN E = Seats /\ DOMAIN X = Seats
      /\ \A i \in Seats : /\ E[i].provider_id = Fragments[i]
                          /\ E[i].seat_id = Fragments[i]
                          /\ E[i].trust_domain = SeatDomain(i)
                          /\ X[i].provider_id = Fragments[i]
                          /\ X[i].exposure_ratio = Ratio(length[i])
  BY BuiltFields
<1>2. \A i, j \in Seats : Fragments[i] = Fragments[j] => i = j
  BY SeatFacts
<1>3. Range(Fragments) = {Fragments[i] : i \in Seats}
  BY DEF Range, Seats
<1>4. Seats \subseteq Int
  BY SeatFacts
<1> HIDE DEF b
<1>5. Keyed(E, "seat_id") /\ Keyed(X, "provider_id")
  <2>1. DOMAIN E \subseteq Int /\ DOMAIN X \subseteq Int
    BY <1>1, <1>4
  <2>2. Unique(E, "seat_id", {}) /\ Unique(X, "provider_id", {})
    BY <1>1, <1>2 DEF Unique
  <2> QED
    BY <2>1, <2>2 DEF Keyed
<1>6. AllSeats(b) = Range(Fragments)
  <2>1. AllSeats(b) = {E[i].seat_id : i \in DOMAIN E}
    BY DEF AllSeats, seat_domain, Dict
  <2> QED
    BY <1>1, <1>3, <2>1
<1>7. DOMAIN seat_ratio(b) = Range(Fragments)
  <2>1. DOMAIN seat_ratio(b) = {X[i].provider_id : i \in DOMAIN X}
    BY DEF seat_ratio, Dict
  <2> QED
    BY <1>1, <1>3, <2>1
<1>8. \A i \in Seats : /\ seat_domain(b)[Fragments[i]] = SeatDomain(i)
                       /\ seat_by_id(b)[Fragments[i]] = Fragments[i]
  <2>1. /\ seat_domain(b) = Dict(E, "seat_id", "trust_domain")
        /\ seat_by_id(b) = Dict(E, "seat_id", "provider_id")
    BY DEF seat_domain, seat_by_id
  <2> DEFINE key == "seat_id"
             domain == "trust_domain"
             provider == "provider_id"
  <2>2. /\ \A i \in DOMAIN E : Dict(E, key, domain)[E[i][key]] = E[i][domain]
        /\ \A i \in DOMAIN E : Dict(E, key, provider)[E[i][key]] = E[i][provider]
    <3>1. Keyed(E, key)
      BY <1>5
    <3> HIDE DEF E, key, domain, provider
    <3> QED
      BY <3>1, UniqueDict
  <2> QED
    BY <1>1, <2>1, <2>2
<1>9. \A i \in Seats : seat_ratio(b)[Fragments[i]] = Ratio(length[i])
  <2>1. seat_ratio(b) = Dict(X, "provider_id", "exposure_ratio")
    BY DEF seat_ratio
  <2> DEFINE key == "provider_id"
             ratio == "exposure_ratio"
  <2>2. \A i \in DOMAIN X : Dict(X, key, ratio)[X[i][key]] = X[i][ratio]
    <3>1. Keyed(X, key)
      BY <1>5
    <3> HIDE DEF X, key, ratio
    <3> QED
      BY <3>1, UniqueDict
  <2> QED
    BY <1>1, <2>1, <2>2
<1>10. Domains(b) = SeatDomains
  <2>1. Domains(b) = {seat_domain(b)[s] : s \in AllSeats(b)}
    BY DEF Domains, AllSeats, Range
  <2> QED
    BY <1>8, <1>3, <1>6, <2>1 DEF SeatDomains
<1>11. ASSUME NEW d
      PROVE  /\ SeatsIn(b, d) = {Fragments[i] : i \in SeatsOf(d)}
             /\ SeatsIn(b, d) = AllSeats(b) <=> SeatsOf(d) = Seats
  <2>1. SeatsIn(b, d) = {Fragments[i] : i \in SeatsOf(d)}
    BY <1>8, <1>3, <1>6 DEF SeatsIn, SeatsOf
  <2>2. SeatsOf(d) \subseteq Seats
    BY SeatFacts
  <2>3. ASSUME SeatsIn(b, d) = AllSeats(b), NEW i \in Seats PROVE i \in SeatsOf(d)
    <3>1. PICK j \in SeatsOf(d) : Fragments[j] = Fragments[i]
      BY <1>3, <1>6, <2>1, <2>3
    <3>2. j = i
      BY <1>2, <2>2, <3>1
    <3> QED
      BY <3>2
  <2> QED
    BY <1>3, <1>6, <2>1, <2>2, <2>3
<1>12. ASSUME NEW d PROVE Recomputed(b, d) = DomainRatio(d)
  <2> DEFINE S == SeatsOf(d)
             T == SeatsIn(b, d)
             f == [i \in S |-> Ratio(length[i])]
             g == [s \in T |-> seat_ratio(b)[seat_by_id(b)[s]]]
             h == [i \in S |-> Fragments[i]]
  <2>1. S \subseteq Seats /\ IsFiniteSet(S) /\ \A i \in S : Ratio(length[i]) \in Nat
    BY SeatFacts
  <2>2. f \in [S -> Nat]
    BY <2>1
  <2>3. T = {Fragments[i] : i \in S}
    BY <1>11
  <2>4. \A i \in S : h[i] = Fragments[i] /\ h[i] \in T /\ g[h[i]] = f[i]
    BY <1>8, <1>9, <2>1, <2>3
  <2>5. \A s \in T : \E i \in S : h[i] = s
    BY <2>3
  <2>6. h \in Bijection(S, T)
    <3>1. h \in [S -> T] /\ \A i, j \in S : h[i] = h[j] => i = j
      BY <1>2, <2>1, <2>4
    <3> HIDE DEF S, T, h
    <3> QED
      BY <2>5, <3>1 DEF Bijection, Injection, Surjection, IsInjective
  <2>7. g \in [T -> Nat]
    <3>1. ASSUME NEW s \in T PROVE g[s] \in Nat
      <4>1. PICK i \in S : h[i] = s
        BY <2>5
      <4>2. g[s] = f[i] /\ f[i] \in Nat
        <5> HIDE DEF S, T, f, g, h
        <5> QED
          BY <2>2, <2>4, <4>1
      <4> QED
        BY <4>2
    <3> QED
      BY <3>1
  <2>8. SumFunction(f) = SumFunction(g)
    <3> HIDE DEF S, T, f, g, h
    <3> QED
      BY <2>1, <2>2, <2>4, <2>6, <2>7, SumReindex
  <2> QED
    BY <2>8 DEF Recomputed, DomainRatio
<1> QED
  BY <1>8, <1>10, <1>11, <1>12, <1>6, <1>7 DEF b

(* What build_receipt_body builds passes every check of the verifier.       *)
LEMMA BuiltBodyPasses ==
  ASSUME Seated
  PROVE  LET b == BuiltBody IN
         /\ b \in Bodies
         /\ ShapeOK(b) /\ HostsAgree(b) /\ MaxSeatAgrees(b) /\ AggregatesAgree(b)
<1> DEFINE b == BuiltBody
           E == b.provider_events
           X == b.single_provider_exposure
           C == b.trust_domain_exposure
           ratios == {Ratio(length[i]) : i \in Seats}
           largest == MaxOr0({DomainRatio(d) : d \in SeatDomains})
<1>1. /\ DOMAIN E = Seats /\ E \in Seq(Event)
      /\ DOMAIN X = Seats /\ X \in Seq(Exposure)
      /\ \A i \in Seats : /\ E[i].provider_id = Fragments[i]
                          /\ E[i].seat_id = Fragments[i]
                          /\ E[i].trust_domain = SeatDomain(i)
                          /\ E[i].endpoint_host = EndpointHost(host[i])
                          /\ X[i].provider_id = Fragments[i]
                          /\ X[i].exposure_ratio = Ratio(length[i])
  BY BuiltFields
<1>2. /\ largest \in Nat
      /\ b.max_single_trust_domain_exposure = largest
      /\ b.max_single_provider_exposure = largest
      /\ b.max_single_seat_exposure = MaxOr0(ratios)
      /\ MaxOr0(ratios) = Max(ratios)
      /\ MaxOr0(ratios) \in Nat
  BY BuiltFields
<1>3. /\ C \in Seq(Claim)
      /\ \A i \in DOMAIN C : C[i].trust_domain \in SeatDomains /\ C[i] = Entry(C[i].trust_domain)
      /\ \A d \in SeatDomains : \E i \in DOMAIN C : C[i].trust_domain = d
      /\ \A i, j \in DOMAIN C : C[i].trust_domain = C[j].trust_domain => i = j
  BY BuiltEntries
<1>4. /\ AllSeats(b) = Range(Fragments) /\ Domains(b) = SeatDomains
      /\ \A i \in Seats : /\ seat_domain(b)[Fragments[i]] = SeatDomain(i)
                          /\ seat_by_id(b)[Fragments[i]] = Fragments[i]
      /\ DOMAIN seat_ratio(b) = Range(Fragments)
      /\ \A d : /\ SeatsIn(b, d) = {Fragments[i] : i \in SeatsOf(d)}
                /\ Recomputed(b, d) = DomainRatio(d)
                /\ SeatsIn(b, d) = AllSeats(b) <=> SeatsOf(d) = Seats
  BY BuiltRecomputed
<1>5. b.no_single_trust_domain_received_all_fragments =
        ~ \E d \in SeatDomains : SeatsOf(d) = Seats
  BY DEF BuiltBody
<1>6. b \in Bodies
  <2>1. b = [provider_events |-> E, single_provider_exposure |-> X,
             max_single_seat_exposure |-> b.max_single_seat_exposure,
             trust_domain_exposure |-> C,
             max_single_trust_domain_exposure |-> b.max_single_trust_domain_exposure,
             max_single_provider_exposure |-> b.max_single_provider_exposure,
             no_single_trust_domain_received_all_fragments |->
               b.no_single_trust_domain_received_all_fragments]
    BY DEF BuiltBody
  <2>2. b.no_single_trust_domain_received_all_fragments \in BOOLEAN
    BY <1>5
  <2> HIDE DEF b, ratios, largest
  <2> QED
    BY <1>1, <1>2, <1>3, <2>1, <2>2 DEF Bodies
<1>7. \A i, j \in Seats : Fragments[i] = Fragments[j] => i = j
  BY SeatFacts
<1> HIDE DEF b, largest, ratios
<1>8. ShapeOK(b)
  <2>1. b.max_single_provider_exposure # Missing
    BY <1>2, MissingAssumption
  <2>2. /\ Unique(E, "provider_id", {}) /\ Unique(X, "provider_id", {})
        /\ Unique(E, "seat_id", {Missing})
    BY <1>1, <1>7 DEF Unique
  <2>3. Unique(C, "trust_domain", {})
    BY <1>3 DEF Unique
  <2> QED
    BY <2>1, <2>2, <2>3 DEF ShapeOK
<1>9. HostsAgree(b)
  BY <1>1 DEF HostsAgree, SeatDomain
<1>10. MaxSeatAgrees(b)
  <2>1. {X[i].exposure_ratio : i \in DOMAIN X} = ratios
    BY <1>1 DEF ratios
  <2>2. ratios # {}
    BY SeatFacts DEF ratios
  <2>3. ~Differs(b.max_single_seat_exposure, Max(ratios))
    BY <1>2 DEF Differs
  <2> QED
    BY <2>1, <2>2, <2>3 DEF MaxSeatAgrees
<1>11. AggregatesAgree(b)
  <2>1. \A s \in AllSeats(b) : /\ s # Missing /\ seat_domain(b)[s] # Missing
                              /\ seat_by_id(b)[s] \in DOMAIN seat_ratio(b)
    <3> SUFFICES ASSUME NEW s \in AllSeats(b)
                 PROVE  /\ s # Missing /\ seat_domain(b)[s] # Missing
                        /\ seat_by_id(b)[s] \in DOMAIN seat_ratio(b)
      OBVIOUS
    <3>1. PICK i \in Seats : s = Fragments[i]
      BY <1>4 DEF Range, Seats
    <3>2. Fragments[i] # Missing /\ SeatDomain(i) # Missing
      BY SeatFacts
    <3> QED
      BY <1>4, <3>1, <3>2
  <2>2. {C[i].trust_domain : i \in DOMAIN C} = Domains(b)
    BY <1>3, <1>4
  <2>3. \A i \in DOMAIN C :
          /\ ~Differs(C[i].exposure_ratio, Recomputed(b, C[i].trust_domain))
          /\ C[i].seat_ids \in {Missing, SeatsIn(b, C[i].trust_domain)}
    <3> SUFFICES ASSUME NEW i \in DOMAIN C
                 PROVE  /\ ~Differs(C[i].exposure_ratio, Recomputed(b, C[i].trust_domain))
                        /\ C[i].seat_ids = SeatsIn(b, C[i].trust_domain)
      OBVIOUS
    <3> DEFINE d == C[i].trust_domain
    <3>1. C[i].exposure_ratio = DomainRatio(d) /\ C[i].seat_ids = {Fragments[j] : j \in SeatsOf(d)}
      <4>1. C[i] = Entry(d)
        BY <1>3
      <4> HIDE DEF C, d
      <4> QED
        BY <4>1 DEF Entry
    <3>2. DomainRatio(d) \in Nat
      BY SeatFacts
    <3> QED
      BY <1>4, <3>1, <3>2 DEF Differs
  <2>4. b.no_single_trust_domain_received_all_fragments \in
          {Missing, ~ \E d \in Domains(b) : SeatsIn(b, d) = AllSeats(b)}
    BY <1>4, <1>5
  <2>5. largest = MaxOr0({Recomputed(b, d) : d \in Domains(b)})
    <3>1. {DomainRatio(d) : d \in SeatDomains} = {Recomputed(b, d) : d \in Domains(b)}
      BY <1>4
    <3> QED
      BY <3>1 DEF largest
  <2>6. /\ ~Mismatch(b, "max_single_trust_domain_exposure", largest)
        /\ ~Mismatch(b, "max_single_provider_exposure", largest)
    BY <1>2 DEF Mismatch, Differs
  <2> QED
    BY <2>1, <2>2, <2>3, <2>4, <2>5, <2>6 DEF AggregatesAgree
<1> QED
  BY <1>6, <1>8, <1>9, <1>10, <1>11 DEF b

(* A sum of rounded ratios is the share of the summed lengths, to within    *)
(* half a unit for each.                                                    *)
LEMMA RoundedSum ==
  ASSUME NEW S, IsFiniteSet(S), NEW n \in [S -> Nat], NEW r, \A x \in S : r[x] = Ratio(n[x])
  PROVE  LET off == 2 * (Original * SumFunctionOnSet(r, S) - Scale * SumFunctionOnSet(n, S))
         IN off <= Original * Cardinality(S) /\ -off <= Original * Cardinality(S)
<1> DEFINE told(T) == Original * SumFunctionOnSet(r, T)
           sent(T) == Scale * SumFunctionOnSet(n, T)
           slack(T) == Original * Cardinality(T)
           G == {T \in SUBSET S : /\ 2 * (told(T) - sent(T)) <= slack(T)
                                  /\ 2 * (sent(T) - told(T)) <= slack(T)}
<1>1. Original \in Nat /\ Scale \in Nat
  BY NumberAssumption
<1>2. \A x \in S : r[x] \in Nat /\ n[x] \in Nat
  BY RatioRounds
<1>3. ASSUME NEW T \in SUBSET S
      PROVE  /\ IsFiniteSet(T) /\ Cardinality(T) \in Nat
             /\ SumFunctionOnSet(r, T) \in Nat /\ SumFunctionOnSet(n, T) \in Nat
             /\ told(T) \in Int /\ sent(T) \in Int /\ slack(T) \in Int
             /\ T = {} => told(T) = 0 /\ sent(T) = 0 /\ slack(T) = 0
  <2>1. IsFiniteSet(T) /\ Cardinality(T) \in Nat
    BY FS_Subset, FS_CardinalityType
  <2>2. SumFunctionOnSet(r, T) \in Nat /\ SumFunctionOnSet(n, T) \in Nat
    BY <1>2, <2>1, SumStep
  <2>3. T = {} => /\ SumFunctionOnSet(r, T) = 0 /\ SumFunctionOnSet(n, T) = 0
                  /\ Cardinality(T) = 0
    BY <1>2, <2>1, SumStep, FS_EmptySet
  <2> QED
    BY <1>1, <2>1, <2>2, <2>3
<1>4. {} \in G
  BY <1>3
<1>5. ASSUME NEW T \in SUBSET S, T # {}, \A x \in T : T \ {x} \in G
      PROVE  T \in G
  <2>1. PICK x \in T : TRUE
    BY <1>5
  <2> DEFINE U == T \ {x}
  <2>2. U \in G /\ U \in SUBSET S
    BY <1>5
  <2>3. /\ SumFunctionOnSet(r, T) = r[x] + SumFunctionOnSet(r, U)
        /\ SumFunctionOnSet(n, T) = n[x] + SumFunctionOnSet(n, U)
    BY <1>2, <1>3, SumStep
  <2>4. Cardinality(T) = 1 + Cardinality(U)
    <3>1. Cardinality(U) = Cardinality(T) - 1
      BY <1>3, FS_RemoveElement
    <3> QED
      BY <1>3, <3>1
  <2>5. /\ r[x] \in Nat /\ n[x] \in Nat
        /\ SumFunctionOnSet(r, U) \in Nat /\ SumFunctionOnSet(n, U) \in Nat
        /\ Cardinality(U) \in Nat
    BY <1>2, <1>3, <2>2
  <2>6. told(T) = Original * r[x] + told(U)
    BY <1>1, <2>3, <2>5
  <2>7. sent(T) = Scale * n[x] + sent(U)
    BY <1>1, <2>3, <2>5
  <2>8. slack(T) = Original + slack(U)
    BY <1>1, <2>4, <2>5
  <2>9. /\ 2 * (Original * r[x] - Scale * n[x]) <= Original
        /\ 2 * (Scale * n[x] - Original * r[x]) <= Original
    BY <2>5, RatioRounds
  <2>10. /\ 2 * (told(U) - sent(U)) <= slack(U)
         /\ 2 * (sent(U) - told(U)) <= slack(U)
    BY <2>2
  <2>11. /\ Original * r[x] \in Int /\ Scale * n[x] \in Int
         /\ told(U) \in Int /\ sent(U) \in Int /\ slack(U) \in Int
    BY <1>1, <1>3, <2>2, <2>5
  <2> DEFINE o == Original * r[x]
             s == Scale * n[x]
  <2>12. /\ 2 * (told(T) - sent(T)) <= slack(T)
         /\ 2 * (sent(T) - told(T)) <= slack(T)
    <3> HIDE DEF told, sent, slack, U, o, s
    <3>1. /\ told(T) = o + told(U) /\ sent(T) = s + sent(U)
          /\ 2 * (o - s) <= Original /\ 2 * (s - o) <= Original
          /\ o \in Int /\ s \in Int
      BY <2>6, <2>7, <2>9, <2>11 DEF o, s
    <3> QED
      BY <1>1, <2>8, <2>10, <2>11, <3>1
  <2> QED
    BY <2>12
<1>6. S \in G
  <2> HIDE DEF G
  <2> QED
    BY <1>4, <1>5, SetInduction
<1>7. told(S) \in Int /\ sent(S) \in Int /\ slack(S) \in Int
  BY <1>3
<1> QED
  <2>1. 2 * (told(S) - sent(S)) <= slack(S) /\ 2 * (sent(S) - told(S)) <= slack(S)
    BY <1>6
  <2>2. LET off == 2 * (told(S) - sent(S)) IN off <= slack(S) /\ -off <= slack(S)
    <3> HIDE DEF told, sent, slack
    <3> QED
      BY <1>7, <2>1
  <2> QED
    BY <2>2

(* Hosts of one party get one domain, however a URL spells them.             *)
LEMMA PartyDomain ==
  ASSUME Seated, NEW i \in Seats, NEW j \in Seats, SameParty(host[i], host[j])
  PROVE  SeatDomain(i) = SeatDomain(j)
<1>1. ASSUME NEW h \in Hosts
      PROVE  /\ EndpointHost(h).name = h.name /\ ~EndpointHost(h).bracketed
             /\ NormalizeHost(EndpointHost(h)) =
                  IF Head(h.name) = "" THEN h.name ELSE <<Head(h.name)>>
  <2>1. EndpointHost(h).name = h.name /\ ~EndpointHost(h).bracketed
    BY HostAssumption DEF EndpointHost
  <2> QED
    BY <2>1 DEF NormalizeHost
<1>2. host[i] \in Hosts /\ host[j] \in Hosts
  BY DEF Seated
<1>3. CASE host[i].name = host[j].name
  BY <1>1, <1>2, <1>3 DEF SeatDomain, TrustDomain
<1>4. CASE host[i].name \in LocalMachine /\ host[j].name \in LocalMachine
  <2>1. \A h \in Hosts : h.name \in LocalMachine =>
          TrustDomain(EndpointHost(h)) = <<"loopback">>
    <3> SUFFICES ASSUME NEW h \in Hosts, h.name \in LocalMachine
                 PROVE  NormalizeHost(EndpointHost(h)) \in Loopback
      BY DEF TrustDomain
    <3>1. CASE h.name = <<"", "", "1">>
      <4>1. Head(<<"", "", "1">>) = ""
        OBVIOUS
      <4>2. Head(h.name) = ""
        BY <3>1, <4>1, Zenon
      <4> QED
        BY <1>1, <3>1, <4>2 DEF Loopback
    <3>2. CASE h.name = <<"localhost">>
      <4>1. Head(h.name) = "localhost"
        BY <3>2
      <4> QED
        BY <1>1, <3>2, <4>1 DEF Loopback
    <3>3. CASE h.name = <<"127.0.0.1">>
      <4>1. Head(h.name) = "127.0.0.1"
        BY <3>3
      <4> QED
        BY <1>1, <3>3, <4>1 DEF Loopback
    <3> QED
      BY <3>1, <3>2, <3>3 DEF LocalMachine
  <2> QED
    BY <1>2, <1>4, <2>1 DEF SeatDomain
<1> QED
  BY <1>3, <1>4 DEF SameParty

(* An entry of a built receipt tells the share of the seats it lists.       *)
LEMMA BuiltEntryTells ==
  ASSUME Seated, NEW c \in DOMAIN BuiltBody.trust_domain_exposure
  PROVE  EntryTells(BuiltBody.trust_domain_exposure[c])
<1> DEFINE claim == BuiltBody.trust_domain_exposure[c]
           d == claim.trust_domain
           S == SeatsOf(d)
           listed == {i \in Seats : Fragments[i] \in claim.seat_ids}
           n == [i \in S |-> length[i]]
           r == [i \in S |-> Ratio(length[i])]
<1>1. S \subseteq Seats /\ IsFiniteSet(S)
  BY SeatFacts
<1>2. claim.exposure_ratio = DomainRatio(d) /\ claim.seat_ids = {Fragments[i] : i \in S}
  <2>1. claim = Entry(d)
    BY BuiltEntries
  <2> HIDE DEF claim, d
  <2> QED
    BY <2>1 DEF Entry
<1>3. listed = S
  <2>1. \A i, j \in Seats : Fragments[i] = Fragments[j] => i = j
    BY SeatFacts
  <2> HIDE DEF S, claim
  <2> QED
    BY <1>1, <1>2, <2>1
<1>4. SumFunction(n) = SumFunctionOnSet(n, S) /\ DomainRatio(d) = SumFunctionOnSet(r, S)
  BY DEF SumFunction, DomainRatio
<1>5. n \in [S -> Nat] /\ \A x \in S : r[x] = Ratio(n[x])
  <2>1. \A x \in S : length[x] \in Nat
    BY <1>1, NumberAssumption DEF Seated
  <2> QED
    BY <2>1
<1>6. LET off == 2 * (Original * SumFunctionOnSet(r, S) - Scale * SumFunctionOnSet(n, S))
      IN off <= Original * Cardinality(S) /\ -off <= Original * Cardinality(S)
  <2> HIDE DEF S, n, r
  <2> QED
    BY <1>1, <1>5, RoundedSum
<1>7. [i \in listed |-> length[i]] = n
  BY <1>3
<1> HIDE DEF claim, d, listed, S, n, r
<1>8. LET off == 2 * (Original * claim.exposure_ratio
                      - Scale * SumFunction([i \in listed |-> length[i]]))
      IN off <= Original * Cardinality(listed) /\ -off <= Original * Cardinality(listed)
  BY <1>2, <1>3, <1>4, <1>6, <1>7
<1> QED
  BY <1>8 DEF EntryTells, claim, listed

(* A built receipt lists the seats of a party in one entry, and its entries  *)
(* tell how much text their seats got.                                      *)
LEMMA BuiltBodyTells ==
  ASSUME Seated
  PROVE  LET claims == BuiltBody.trust_domain_exposure IN
         PartiesAreWhole(claims) /\ \A c \in DOMAIN claims : EntryTells(claims[c])
<1> DEFINE claims == BuiltBody.trust_domain_exposure
<1>1. ASSUME NEW i \in Seats, NEW j \in Seats, SameParty(host[i], host[j])
      PROVE  \E c \in DOMAIN claims : {Fragments[i], Fragments[j]} \subseteq claims[c].seat_ids
  <2> DEFINE d == SeatDomain(i)
  <2>1. d \in SeatDomains /\ {i, j} \subseteq SeatsOf(d)
    BY <1>1, PartyDomain DEF SeatDomains, SeatsOf
  <2>2. PICK c \in DOMAIN claims : claims[c].trust_domain = d
    BY <2>1, BuiltEntries
  <2>3. claims[c].seat_ids = {Fragments[k] : k \in SeatsOf(d)}
    <3>1. claims[c] = Entry(d)
      BY <2>2, BuiltEntries
    <3> HIDE DEF claims, d
    <3> QED
      BY <3>1 DEF Entry
  <2> QED
    BY <2>1, <2>3
<1>2. \A c \in DOMAIN claims : EntryTells(claims[c])
  BY BuiltEntryTells
<1> QED
  BY <1>1, <1>2 DEF PartiesAreWhole

-----------------------------------------------------------------------------
(* A sequence without one of its elements.                                  *)
LEMMA RemoveAtType ==
  ASSUME NEW S, NEW s \in Seq(S), NEW i \in DOMAIN s
  PROVE  RemoveAt(s, i) \in Seq(S)
<1>1. /\ Len(s) \in Nat /\ i \in 1..Len(s)
      /\ \A j \in 1..Len(s) : s[j] \in S
  BY LenProperties, ElementOfSeq
<1>2. SubSeq(s, 1, i - 1) \in Seq(S)
  <2>1. \A j \in 1..(i - 1) : s[j] \in S
    BY <1>1
  <2> QED
    BY <1>1, <2>1, SubSeqProperties
<1>3. SubSeq(s, i + 1, Len(s)) \in Seq(S)
  <2>1. \A j \in (i + 1)..Len(s) : s[j] \in S
    BY <1>1
  <2> QED
    BY <1>1, <2>1, SubSeqProperties
<1> QED
  BY <1>2, <1>3, ConcatProperties DEF RemoveAt

(* A body with another value in one field.                                  *)
LEMMA OtherField ==
  ASSUME NEW b \in Bodies
  PROVE  /\ \A s \in Seq(Event) : [b EXCEPT !.provider_events = s] \in Bodies
         /\ \A s \in Seq(Exposure) : [b EXCEPT !.single_provider_exposure = s] \in Bodies
         /\ \A s \in Seq(Claim) \cup {Missing} :
              [b EXCEPT !.trust_domain_exposure = s] \in Bodies
         /\ \A v \in BOOLEAN \cup {Missing} :
              [b EXCEPT !.no_single_trust_domain_received_all_fragments = v] \in Bodies
         /\ \A f \in {"max_single_seat_exposure", "max_single_trust_domain_exposure",
                      "max_single_provider_exposure"} :
              \A v \in Nat \cup {Missing} : [b EXCEPT ![f] = v] \in Bodies
<1>1. /\ \A s \in Seq(Event) : [b EXCEPT !.provider_events = s] \in Bodies
      /\ \A s \in Seq(Exposure) : [b EXCEPT !.single_provider_exposure = s] \in Bodies
  BY DEF Bodies
<1>2. /\ \A s \in Seq(Claim) \cup {Missing} :
           [b EXCEPT !.trust_domain_exposure = s] \in Bodies
      /\ \A v \in BOOLEAN \cup {Missing} :
           [b EXCEPT !.no_single_trust_domain_received_all_fragments = v] \in Bodies
  BY DEF Bodies
<1>3. ASSUME NEW v \in Nat \cup {Missing}
      PROVE  /\ [b EXCEPT !["max_single_seat_exposure"] = v] \in Bodies
             /\ [b EXCEPT !["max_single_trust_domain_exposure"] = v] \in Bodies
             /\ [b EXCEPT !["max_single_provider_exposure"] = v] \in Bodies
  BY DEF Bodies
<1> QED
  BY <1>1, <1>2, <1>3

(* Changing a number or the flag leaves a body.                             *)
LEMMA NumberType ==
  ASSUME NEW b \in Bodies
  PROVE  AlteredNumber(b) \subseteq Bodies
<1> SUFFICES ASSUME NEW c \in AlteredNumber(b) PROVE c \in Bodies
  OBVIOUS
<1> DEFINE fields == {"max_single_seat_exposure", "max_single_trust_domain_exposure",
                      "max_single_provider_exposure"}
           values(f) == IF b[f] = Missing THEN {} ELSE Near(b[f]) \cup {Missing}
<1>1. \A f \in fields : values(f) \subseteq Nat \cup {Missing}
  BY DEF Near
<1>2. \/ \E f \in fields : \E v \in values(f) : c = [b EXCEPT ![f] = v]
      \/ \E v \in BOOLEAN \cup {Missing} :
           c = [b EXCEPT !.no_single_trust_domain_received_all_fragments = v]
  BY DEF AlteredNumber
<1>3. CASE \E f \in fields : \E v \in values(f) : c = [b EXCEPT ![f] = v]
  <2>1. PICK f \in fields : \E v \in values(f) : c = [b EXCEPT ![f] = v]
    BY <1>3
  <2>2. PICK v \in values(f) : c = [b EXCEPT ![f] = v]
    BY <2>1
  <2>3. v \in Nat \cup {Missing}
    BY <1>1
  <2> QED
    BY <2>2, <2>3, OtherField
<1>4. CASE \E v \in BOOLEAN \cup {Missing} :
             c = [b EXCEPT !.no_single_trust_domain_received_all_fragments = v]
  BY <1>4, OtherField
<1> QED
  BY <1>2, <1>3, <1>4

(* Changing, repeating or taking out an event leaves a body.                *)
LEMMA EventType ==
  ASSUME NEW b \in Bodies
  PROVE  AlteredEvent(b) \subseteq Bodies
<1> SUFFICES ASSUME NEW c \in AlteredEvent(b) PROVE c \in Bodies
  OBVIOUS
<1> DEFINE E == b.provider_events
           fields == {"provider_id", "seat_id", "trust_domain", "endpoint_host"}
           values(f) == Other(f, b)
           other(i, f, v) == [E EXCEPT ![i] = [E[i] EXCEPT ![f] = v]]
<1>1. E \in Seq(Event)
  BY DEF Bodies
<1>2. DOMAIN E = 1..Len(E) /\ Len(E) \in Nat /\ \A i \in DOMAIN E : E[i] \in Event
  <2> HIDE DEF E
  <2> QED
    BY <1>1, LenProperties, ElementOfSeq
<1>3. \A e \in Range(E) : e \in Event
  BY <1>2 DEF Range
<1>4. \/ \E i \in DOMAIN E : \E f \in fields : \E v \in values(f) :
           c = [b EXCEPT !.provider_events = other(i, f, v)]
      \/ \E e \in Range(E) : c = [b EXCEPT !.provider_events = Append(E, e)]
      \/ \E i \in DOMAIN E : c = [b EXCEPT !.provider_events = RemoveAt(E, i)]
  <2> DEFINE at(i, f) == {[b EXCEPT !.provider_events[i][f] = v] : v \in values(f)}
             changed == UNION {at(i, f) : i \in DOMAIN E, f \in fields}
             longer == {[b EXCEPT !.provider_events = Append(@, e)] : e \in Range(E)}
             shorter == {[b EXCEPT !.provider_events = RemoveAt(@, i)] : i \in DOMAIN E}
  <2>1. AlteredEvent(b) = changed \cup longer \cup shorter
    BY DEF AlteredEvent
  <2> HIDE DEF at, fields, values
  <2>2. \A x \in changed : \E i \in DOMAIN E : \E f \in fields : x \in at(i, f)
    OBVIOUS
  <2> HIDE DEF changed, other
  <2>3. ASSUME c \in changed
        PROVE  \E i \in DOMAIN E : \E f \in fields : \E v \in values(f) :
                 c = [b EXCEPT !.provider_events = other(i, f, v)]
    <3>1. PICK i \in DOMAIN E : \E f \in fields : c \in at(i, f)
      BY <2>2, <2>3
    <3>2. PICK f \in fields : c \in at(i, f)
      BY <3>1
    <3>3. PICK v \in values(f) : c = [b EXCEPT !.provider_events[i][f] = v]
      BY <3>2 DEF at
    <3>4. [b EXCEPT !.provider_events[i][f] = v] = [b EXCEPT !.provider_events = other(i, f, v)]
      BY DEF other
    <3> QED
      BY <3>3, <3>4
  <2>4. c \in longer => \E e \in Range(E) : c = [b EXCEPT !.provider_events = Append(E, e)]
    BY DEF longer
  <2>5. c \in shorter => \E i \in DOMAIN E : c = [b EXCEPT !.provider_events = RemoveAt(E, i)]
    BY DEF shorter
  <2> HIDE DEF longer, shorter, values
  <2> QED
    BY <2>1, <2>3, <2>4, <2>5
<1>5. ASSUME NEW i \in DOMAIN E, NEW f \in fields, NEW v \in values(f)
      PROVE  other(i, f, v) \in Seq(Event)
  <2>1. [E[i] EXCEPT ![f] = v] \in Event
    <3>1. ASSUME NEW e \in Event
          PROVE  \/ f = "provider_id" /\ e[f] \in Range(Fragments) \cup {Missing}
                 \/ f = "seat_id" /\ e[f] \in Range(Fragments) \cup {Missing}
                 \/ f = "trust_domain" /\ e[f] \in Names \cup {Missing}
                 \/ f = "endpoint_host" /\ e[f] \in Spellings \cup {Missing}
      BY DEF Event
    <3>2. \/ f = "provider_id" /\ v \in Range(Fragments) \cup {Missing}
          \/ f = "seat_id" /\ v \in Range(Fragments) \cup {Missing}
          \/ f = "trust_domain" /\ v \in Names \cup {Missing}
          \/ f = "endpoint_host" /\ v \in Spellings \cup {Missing}
      <4>1. CASE v = Missing
        BY <4>1
      <4>2. CASE \E e \in Range(E) : v = e[f]
        BY <1>3, <3>1, <4>2
      <4>3. CASE f = "endpoint_host" /\ v \in Hosts
        BY <4>3 DEF Spellings
      <4> QED
        BY <4>1, <4>2, <4>3 DEF Other
    <3>3. E[i] \in Event
      BY <1>2
    <3> DEFINE e == E[i]
    <3> HIDE DEF e, values, E
    <3>4. [e EXCEPT ![f] = v] \in Event
      BY <3>2, <3>3 DEF Event, e
    <3> QED
      BY <3>4 DEF e
  <2>2. i \in 1..Len(E)
    BY <1>2
  <2> DEFINE e == [E[i] EXCEPT ![f] = v]
  <2>3. [E EXCEPT ![i] = e] \in Seq(Event)
    <3> HIDE DEF E, e
    <3> QED
      BY <1>1, <2>1, <2>2, ExceptSeq DEF e
  <2> QED
    BY <2>3
<1>6. ASSUME NEW e \in Range(E) PROVE Append(E, e) \in Seq(Event)
  <2> HIDE DEF E
  <2> QED
    BY <1>1, <1>3, AppendProperties
<1>7. ASSUME NEW i \in DOMAIN E PROVE RemoveAt(E, i) \in Seq(Event)
  <2> HIDE DEF E
  <2> QED
    BY <1>1, RemoveAtType
<1> HIDE DEF E, values, other
<1> QED
  BY <1>4, <1>5, <1>6, <1>7, OtherField

(* Changing, adding or taking out an exposure leaves a body.                *)
LEMMA ExposureType ==
  ASSUME NEW b \in Bodies
  PROVE  AlteredExposure(b) \subseteq Bodies
<1> SUFFICES ASSUME NEW c \in AlteredExposure(b) PROVE c \in Bodies
  OBVIOUS
<1> DEFINE X == b.single_provider_exposure
           with(i, v) == [X[i] EXCEPT !.exposure_ratio = v]
           other(i, v) == [X EXCEPT ![i] = with(i, v)]
           at(i) == {[b EXCEPT !.single_provider_exposure[i].exposure_ratio = v] :
                       v \in Near(X[i].exposure_ratio)}
           changed == UNION {at(i) : i \in DOMAIN X}
           longer == {[b EXCEPT !.single_provider_exposure = Append(@, x)] :
                        x \in {with(i, 0) : i \in DOMAIN X}}
           shorter == {[b EXCEPT !.single_provider_exposure = RemoveAt(@, i)] : i \in DOMAIN X}
<1>1. X \in Seq(Exposure)
  BY DEF Bodies
<1>2. DOMAIN X = 1..Len(X) /\ \A i \in DOMAIN X : X[i] \in Exposure
  <2> HIDE DEF X
  <2> QED
    BY <1>1, LenProperties, ElementOfSeq
<1>3. \A i \in DOMAIN X, v \in Nat : with(i, v) \in Exposure
  BY <1>2 DEF Exposure
<1>4. AlteredExposure(b) = changed \cup longer \cup shorter
  BY DEF AlteredExposure
<1>5. ASSUME c \in changed PROVE c \in Bodies
  <2>1. PICK i \in DOMAIN X : c \in at(i)
    BY <1>5
  <2>2. PICK v \in Nat : c = [b EXCEPT !.single_provider_exposure[i].exposure_ratio = v]
    BY <2>1 DEF Near
  <2>3. c = [b EXCEPT !.single_provider_exposure = other(i, v)]
    BY <2>2
  <2>4. other(i, v) \in Seq(Exposure)
    <3>1. with(i, v) \in Exposure /\ i \in 1..Len(X)
      BY <1>2, <1>3
    <3> HIDE DEF X, with
    <3> QED
      BY <1>1, <3>1, ExceptSeq
  <2> HIDE DEF other
  <2> QED
    BY <2>3, <2>4, OtherField
<1>6. ASSUME c \in longer PROVE c \in Bodies
  <2>1. PICK i \in DOMAIN X : c = [b EXCEPT !.single_provider_exposure = Append(X, with(i, 0))]
    BY <1>6
  <2>2. Append(X, with(i, 0)) \in Seq(Exposure)
    <3>1. with(i, 0) \in Exposure
      BY <1>3
    <3> HIDE DEF X, with
    <3> QED
      BY <1>1, <3>1, AppendProperties
  <2> HIDE DEF with, X
  <2> QED
    BY <2>1, <2>2, OtherField
<1>7. ASSUME c \in shorter PROVE c \in Bodies
  <2>1. PICK i \in DOMAIN X : c = [b EXCEPT !.single_provider_exposure = RemoveAt(X, i)]
    BY <1>7
  <2>2. RemoveAt(X, i) \in Seq(Exposure)
    <3> HIDE DEF X
    <3> QED
      BY <1>1, RemoveAtType
  <2> HIDE DEF X
  <2> QED
    BY <2>1, <2>2, OtherField
<1> HIDE DEF changed, longer, shorter
<1> QED
  BY <1>4, <1>5, <1>6, <1>7

(* Changing or taking out a domain's entry, or all of them, leaves a body.   *)
LEMMA AggregateType ==
  ASSUME NEW b \in Bodies
  PROVE  AlteredAggregate(b) \subseteq Bodies
<1> SUFFICES ASSUME NEW c \in AlteredAggregate(b), b.trust_domain_exposure # Missing
             PROVE  c \in Bodies
  BY DEF AlteredAggregate
<1> DEFINE C == b.trust_domain_exposure
           share(i, v) == [C[i] EXCEPT !.exposure_ratio = v]
           seats(i, v) == [C[i] EXCEPT !.seat_ids = v]
           shareAt(i) == {[b EXCEPT !.trust_domain_exposure[i].exposure_ratio = v] :
                            v \in Near(C[i].exposure_ratio)}
           seatsAt(i) == {[b EXCEPT !.trust_domain_exposure[i].seat_ids = v] :
                            v \in {Missing, {}, Range(Fragments)}}
           shares == UNION {shareAt(i) : i \in DOMAIN C}
           lists == UNION {seatsAt(i) : i \in DOMAIN C}
           shorter == {[b EXCEPT !.trust_domain_exposure = RemoveAt(@, i)] : i \in DOMAIN C}
<1>1. C \in Seq(Claim)
  BY DEF Bodies
<1>2. DOMAIN C = 1..Len(C) /\ \A i \in DOMAIN C : C[i] \in Claim
  <2> HIDE DEF C
  <2> QED
    BY <1>1, LenProperties, ElementOfSeq
<1>3. /\ \A i \in DOMAIN C, v \in Nat : share(i, v) \in Claim
      /\ \A i \in DOMAIN C, v \in {Missing, {}, Range(Fragments)} : seats(i, v) \in Claim
  BY <1>2 DEF Claim
<1>4. AlteredAggregate(b) =
        {[b EXCEPT !.trust_domain_exposure = Missing]} \cup shares \cup lists \cup shorter
  BY DEF AlteredAggregate
<1>5. ASSUME NEW i \in DOMAIN C, NEW e \in Claim
      PROVE  [C EXCEPT ![i] = e] \in Seq(Claim)
  <2> HIDE DEF C
  <2> QED
    BY <1>1, <1>2, ExceptSeq
<1>6. ASSUME c \in shares PROVE c \in Bodies
  <2>1. PICK i \in DOMAIN C : c \in shareAt(i)
    BY <1>6
  <2>2. PICK v \in Nat : c = [b EXCEPT !.trust_domain_exposure[i].exposure_ratio = v]
    BY <2>1 DEF Near
  <2>3. c = [b EXCEPT !.trust_domain_exposure = [C EXCEPT ![i] = share(i, v)]]
    BY <2>2
  <2>4. share(i, v) \in Claim
    BY <1>3
  <2> HIDE DEF C, share
  <2> QED
    BY <1>5, <2>3, <2>4, OtherField
<1>7. ASSUME c \in lists PROVE c \in Bodies
  <2>1. PICK i \in DOMAIN C : c \in seatsAt(i)
    BY <1>7
  <2>2. PICK v \in {Missing, {}, Range(Fragments)} :
          c = [b EXCEPT !.trust_domain_exposure[i].seat_ids = v]
    BY <2>1
  <2>3. c = [b EXCEPT !.trust_domain_exposure = [C EXCEPT ![i] = seats(i, v)]]
    BY <2>2
  <2>4. seats(i, v) \in Claim
    BY <1>3
  <2> HIDE DEF C, seats
  <2> QED
    BY <1>5, <2>3, <2>4, OtherField
<1>8. ASSUME c \in shorter PROVE c \in Bodies
  <2>1. PICK i \in DOMAIN C : c = [b EXCEPT !.trust_domain_exposure = RemoveAt(C, i)]
    BY <1>8
  <2>2. RemoveAt(C, i) \in Seq(Claim)
    <3> HIDE DEF C
    <3> QED
      BY <1>1, RemoveAtType
  <2> HIDE DEF C
  <2> QED
    BY <2>1, <2>2, OtherField
<1>9. [b EXCEPT !.trust_domain_exposure = Missing] \in Bodies
  BY OtherField
<1> HIDE DEF shares, lists, shorter
<1> QED
  BY <1>4, <1>6, <1>7, <1>8, <1>9

(* What another signer or a holder makes of a body is a body.               *)
LEMMA AlteredType ==
  ASSUME NEW b \in Bodies
  PROVE  Altered(b) \subseteq Bodies
<1>1. /\ AlteredNumber(b) \subseteq Bodies /\ AlteredEvent(b) \subseteq Bodies
      /\ AlteredExposure(b) \subseteq Bodies /\ AlteredAggregate(b) \subseteq Bodies
  BY NumberType, EventType, ExposureType, AggregateType
<1> QED
  BY <1>1 DEF Altered

-----------------------------------------------------------------------------
(***************************************************************************)
(* The inductive invariant: what the four properties need to hold of every  *)
(* state.  A body nobody changed is the built one, hash and signature with  *)
(* it; a signature is of what was issued; the verdict is that of the body   *)
(* that was judged.                                                         *)
(***************************************************************************)
TypeOK ==
  /\ Seated /\ changes \in Nat
  /\ phase \in {"seats", "draft", "issued", "judged"}
  /\ phase # "seats" => body \in Bodies
UnchangedIsBuilt ==
  changes = 0 /\ phase # "seats" =>
    body = BuiltBody /\ (phase # "draft" => hash = body /\ signed = body)
SignedIsIssued == phase \in {"issued", "judged"} => signed = issued
VerdictIsOfBody ==
  verdict = IF phase # "judged" THEN "none"
            ELSE IF Valid(body, hash, signed) THEN "valid" ELSE "failed"
Inv == TypeOK /\ UnchangedIsBuilt /\ SignedIsIssued /\ VerdictIsOfBody

(* Where the seats stay where they are, the same body would be built.       *)
LEMMA SameBuilt ==
  ASSUME UNCHANGED <<host, length>>
  PROVE  (Seated <=> Seated') /\ BuiltBody' = BuiltBody
<1>1. \A d : SeatsOf(d)' = SeatsOf(d)
  BY DEF SeatsOf, SeatDomain
<1>2. \A d : DomainRatio(d)' = DomainRatio(d)
  BY <1>1 DEF DomainRatio
<1>3. SeatDomains' = SeatDomains
  BY DEF SeatDomains, SeatDomain
<1> QED
  BY <1>1, <1>2, <1>3 DEF Seated, BuiltBody, SeatDomain

(* At first there is no body and no verdict.                                *)
LEMMA InitInv == Init => Inv
  BY DEF Init, Inv, TypeOK, Seated, UnchangedIsBuilt, SignedIsIssued, VerdictIsOfBody

(* Every step keeps it.                                                     *)
LEMMA NextInv == Inv /\ [Next]_vars => Inv'
<1> SUFFICES ASSUME Inv, [Next]_vars PROVE Inv'
  OBVIOUS
<1> USE DEF Inv
<1>1. (Seated <=> Seated') /\ BuiltBody' = BuiltBody /\ Seated'
  <2>1. UNCHANGED <<host, length>>
    BY DEF Next, vars, Build, Draft, Sign, Tamper, Verify
  <2> QED
    BY <2>1, SameBuilt DEF TypeOK
<1>2. CASE Build
  <2>1. BuiltBody \in Bodies
    BY BuiltBodyPasses DEF TypeOK
  <2> QED
    BY <1>1, <1>2, <2>1
    DEF Build, TypeOK, UnchangedIsBuilt, SignedIsIssued, VerdictIsOfBody
<1>3. CASE Draft
  <2>1. body' \in Bodies
    BY <1>3, AlteredType DEF Draft, TypeOK
  <2>2. changes' \in Nat /\ changes' # 0
    BY <1>3 DEF Draft, TypeOK
  <2> QED
    BY <1>1, <1>3, <2>1, <2>2
    DEF Draft, TypeOK, UnchangedIsBuilt, SignedIsIssued, VerdictIsOfBody
<1>4. CASE Sign
  BY <1>1, <1>4 DEF Sign, TypeOK, UnchangedIsBuilt, SignedIsIssued, VerdictIsOfBody
<1>5. CASE Tamper
  <2>1. body' \in Bodies
    BY <1>5, AlteredType DEF Tamper, TypeOK
  <2>2. changes' \in Nat /\ changes' # 0
    BY <1>5 DEF Tamper, TypeOK
  <2> QED
    BY <1>1, <1>5, <2>1, <2>2
    DEF Tamper, TypeOK, UnchangedIsBuilt, SignedIsIssued, VerdictIsOfBody
<1>6. CASE Verify
  BY <1>1, <1>6 DEF Verify, TypeOK, UnchangedIsBuilt, SignedIsIssued, VerdictIsOfBody
<1>7. CASE UNCHANGED vars
  BY <1>1, <1>7 DEF vars, TypeOK, UnchangedIsBuilt, SignedIsIssued, VerdictIsOfBody
<1> QED
  BY <1>2, <1>3, <1>4, <1>5, <1>6, <1>7 DEF Next

(* The inductive invariant holds of every state.                            *)
THEOREM Invariance == Spec => []Inv
  BY InitInv, NextInv, PTL DEF Spec

(* The two ends of the standard agree: only a changed receipt fails.        *)
THEOREM Accepted == Spec => []BuiltReceiptsAreValid
<1>1. Inv => BuiltReceiptsAreValid
  <2> SUFFICES ASSUME Inv, verdict = "failed", changes = 0 PROVE FALSE
    BY DEF BuiltReceiptsAreValid, Inv, TypeOK
  <2>1. phase = "judged" /\ ~Valid(body, hash, signed)
    BY DEF Inv, VerdictIsOfBody
  <2>2. body = BuiltBody /\ hash = body /\ signed = body
    BY <2>1 DEF Inv, UnchangedIsBuilt
  <2>3. ShapeOK(body) /\ HostsAgree(body) /\ MaxSeatAgrees(body) /\ AggregatesAgree(body)
    BY <2>2, BuiltBodyPasses DEF Inv, TypeOK
  <2> QED
    BY <2>1, <2>2, <2>3 DEF Valid
<1> QED
  BY <1>1, Invariance, PTL

(* A built receipt tells how much text each party got: a party's seats are   *)
(* in one entry, and an entry tells what its seats got.                     *)
THEOREM Tells == Spec => []BuiltReceiptsTellTheTexts
<1>1. Inv => BuiltReceiptsTellTheTexts
  <2> SUFFICES ASSUME Inv, verdict # "none", changes = 0
               PROVE  BuiltReceiptsTellTheTexts
    BY DEF BuiltReceiptsTellTheTexts
  <2>1. body = BuiltBody /\ Seated
    BY DEF Inv, TypeOK, VerdictIsOfBody, UnchangedIsBuilt
  <2> QED
    BY <2>1, BuiltBodyTells DEF BuiltReceiptsTellTheTexts
<1> QED
  BY <1>1, Invariance, PTL

(* A receipt that verifies does not understate, whoever built it.           *)
THEOREM Aggregated == Spec => []ValidReceiptsAggregate
<1>1. Inv => ValidReceiptsAggregate
  <2> SUFFICES ASSUME Inv, verdict = "valid", body.trust_domain_exposure # Missing
               PROVE  EveryDomainListed(body) /\ MaximaCover(body) /\ FlagTells(body)
    BY DEF ValidReceiptsAggregate
  <2>1. Valid(body, hash, signed) /\ body \in Bodies
    BY DEF Inv, TypeOK, VerdictIsOfBody
  <2> QED
    BY <2>1, CheckedBodiesAggregate DEF Valid
<1> QED
  BY <1>1, Invariance, PTL

(* A receipt that was modified after it was signed does not verify.         *)
THEOREM Unmodified == Spec => []ModifiedReceiptsFail
<1>1. Inv => ModifiedReceiptsFail
  BY DEF Inv, TypeOK, SignedIsIssued, VerdictIsOfBody, ModifiedReceiptsFail, Valid
<1> QED
  BY <1>1, Invariance, PTL
=============================================================================
