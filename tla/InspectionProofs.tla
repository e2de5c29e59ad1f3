-------------------------- MODULE InspectionProofs --------------------------
(***************************************************************************)
(* Proofs about the two parts of Engine::inspect that Engine leaves to     *)
(* data.  They share no variable; each has its own specification.          *)
(*                                                                         *)
(* First, the screening of a request by content (module Screening): for    *)
(* every list of patches, every meaning of their expressions, every        *)
(* request and every text under any stack of encodings.                    *)
(*                                                                         *)
(* Then the session tracker (module Session): for every set of clients,    *)
(* all thresholds, every window and every width of the counters.           *)
(***************************************************************************)
EXTENDS Screening, Session, SumTheorems, SequenceTheorems

(* One named value: more conditions on it accept less, unless the value    *)
(* may now be empty.                                                       *)
LEMMA NarrowerValue ==
    ASSUME NEW name, NEW regex, NEW baseName, NEW baseRegex, NEW value,
           baseName \in {None, name}, baseRegex \in {None, regex},
           baseName # None /\ baseRegex = None /\ regex # None => Empty \notin regex,
           Accepts(name, regex, value)
    PROVE  Accepts(baseName, baseRegex, value)
<1>1. CASE baseName = None
    BY <1>1 DEF Accepts
<1>2. CASE baseName = name /\ baseName # None
    <2>1. CASE baseRegex = regex
        BY <1>2, <2>1 DEF Accepts
    <2>2. CASE baseRegex = None /\ regex # None
        BY <1>2, <2>2 DEF Accepts
    <2> QED
        BY <2>1, <2>2
<1> QED
    BY <1>1, <1>2

(* A patch that refines another matches no request the other does not.     *)
LEMMA NarrowerPatch ==
    ASSUME NEW rule, NEW base, NEW r,
           Refines(rule, base), ~ Loosens(rule, base), Matches(rule, r)
    PROVE  Matches(base, r)
<1>1. /\ base.path_prefix \in {None, rule.path_prefix}
      /\ base.method \in {None, rule.method}
      /\ base.header_name \in {None, rule.header_name}
      /\ base.header_regex \in {None, rule.header_regex}
      /\ base.param_name \in {None, rule.param_name}
      /\ base.param_regex \in {None, rule.param_regex}
      /\ base.body_regex \in {None, rule.body_regex}
    BY DEF Refines, Conditions
<1>2. Accepts(base.header_name, base.header_regex, r.header)
    BY <1>1, NarrowerValue DEF Loosens, Matches
<1>3. Accepts(base.param_name, base.param_regex, Parameter(r))
    BY <1>1, NarrowerValue DEF Loosens, Matches
<1> QED
    BY <1>1, <1>2, <1>3, Zenon DEF Matches

(* Adding conditions to a patch never makes it match more, whatever the    *)
(* expressions accept, but for the case that Loosens names                 *)
(* (vpatch.rs:91-114).                                                     *)
THEOREM NarrowerPatchesMatchLess == ScreenSpec => []NarrowerMatchesLess
<1>1. NarrowerMatchesLess
    BY NarrowerPatch, Zenon DEF NarrowerMatchesLess
<1> QED
    BY <1>1, PTL

-----------------------------------------------------------------------------
(* What a filter leaves.  The positions that stay are taken in their       *)
(* order, each once.                                                       *)
Upto(K, i) == {j \in K : j <= i}

LEMMA FirstNumber ==
    ASSUME NEW Q \in SUBSET Nat, Q # {}
    PROVE  \E m \in Q : \A k \in Q : m <= k
<1> DEFINE Below == {ss \in Nat \X Nat : ss[1] < ss[2]}
<1>1. Below = OpToRel(<, Nat)
    BY Zenon DEF OpToRel
<1>2. PICK m \in Q : \A k \in Q : <<k, m>> \notin Below
    <2> HIDE DEF Below
    <2> QED
        BY <1>1, WFMin, NatLessThanWellFounded
<1>3. ASSUME NEW k \in Q PROVE m <= k
    <2>1. m \in Nat /\ k \in Nat
        OBVIOUS
    <2>2. k < m => <<k, m>> \in Below
        BY <2>1, SMTT(30)
    <2> HIDE DEF Below
    <2> QED
        BY <1>2, <2>1, <2>2
<1> QED
    BY <1>3

LEMMA UptoFinite ==
    ASSUME NEW n \in Nat, NEW K \in SUBSET (1 .. n), NEW i
    PROVE  /\ IsFiniteSet(K) /\ Cardinality(K) \in Nat
           /\ IsFiniteSet(Upto(K, i)) /\ Cardinality(Upto(K, i)) \in 0 .. Cardinality(K)
<1>1. IsFiniteSet(1 .. n)
    BY FS_Interval
<1>2. IsFiniteSet(K) /\ Cardinality(K) \in Nat
    BY <1>1, FS_Subset, FS_CardinalityType
<1>3. Upto(K, i) \in SUBSET K
    BY DEF Upto
<1>4. IsFiniteSet(Upto(K, i)) /\ Cardinality(Upto(K, i)) <= Cardinality(K)
    BY <1>2, <1>3, FS_Subset
<1>5. Cardinality(Upto(K, i)) \in Nat
    BY <1>4, FS_CardinalityType
<1> QED
    BY <1>2, <1>4, <1>5

LEMMA UptoGrows ==
    ASSUME NEW n \in Nat, NEW K \in SUBSET (1 .. n), NEW i \in K, NEW h \in Int, h < i
    PROVE  Cardinality(Upto(K, h)) < Cardinality(Upto(K, i))
<1>1. Upto(K, h) \in SUBSET Upto(K, i) /\ i \in Upto(K, i) /\ i \notin Upto(K, h)
    <2>1. i \in Int /\ K \in SUBSET Int
        OBVIOUS
    <2>2. ASSUME NEW j \in Upto(K, h) PROVE j \in Upto(K, i)
        BY <2>1, <2>2 DEF Upto
    <2>3. i \in Upto(K, i) /\ i \notin Upto(K, h)
        BY <2>1 DEF Upto
    <2> QED
        BY <2>2, <2>3
<1>2. /\ IsFiniteSet(Upto(K, i)) /\ Cardinality(Upto(K, i)) \in 0 .. Cardinality(K)
      /\ Cardinality(Upto(K, h)) \in 0 .. Cardinality(K) /\ Cardinality(K) \in Nat
    BY UptoFinite, Zenon
<1>3. /\ Cardinality(Upto(K, h)) <= Cardinality(Upto(K, i))
      /\ Cardinality(Upto(K, h)) # Cardinality(Upto(K, i))
    BY <1>1, <1>2, FS_Subset
<1> QED
    BY <1>2, <1>3

LEMMA PlaceExists ==
    ASSUME NEW n \in Nat, NEW K \in SUBSET (1 .. n), NEW k \in 1 .. Cardinality(K)
    PROVE  \E i \in K : Cardinality(Upto(K, i)) = k
<1> DEFINE S == {i \in K : Cardinality(Upto(K, i)) >= k}
<1>0. /\ IsFiniteSet(K) /\ Cardinality(K) \in Nat
      /\ \A i : IsFiniteSet(Upto(K, i)) /\ Cardinality(Upto(K, i)) \in 0 .. Cardinality(K)
    BY UptoFinite, Zenon
<1>1. /\ IsFiniteSet(K) /\ Cardinality(K) \in Nat /\ k \in Nat
      /\ \A i : IsFiniteSet(Upto(K, i)) /\ Cardinality(Upto(K, i)) \in Nat
    BY <1>0
<1>2. S # {}
    <2>1. K # {}
        BY <1>1, FS_EmptySet
    <2>2. PICK i \in K : \A j \in K : j <= i
        <3>1. K \in SUBSET Nat /\ \A j \in K : j <= n
            OBVIOUS
        <3> QED
            BY <2>1, <3>1, LargestNumber
    <2>3. Upto(K, i) = K
        BY <2>2 DEF Upto
    <2> QED
        BY <1>1, <2>3
<1>3. PICK i \in S : \A j \in S : i <= j
    <2>1. S \in SUBSET Nat
        <3>1. K \in SUBSET Nat
            OBVIOUS
        <3> QED
            BY <3>1
    <2> HIDE DEF S
    <2> QED
        BY <1>2, <2>1, FirstNumber
<1>4. i \in K /\ Cardinality(Upto(K, i)) >= k
    BY <1>3
<1>5. ASSUME Cardinality(Upto(K, i)) > k PROVE FALSE
    <2> DEFINE P == Upto(K, i) \ {i}
    <2>1. i \in Upto(K, i)
        BY <1>4 DEF Upto
    <2>2. Cardinality(P) = Cardinality(Upto(K, i)) - 1 /\ IsFiniteSet(P)
        BY <1>1, <2>1, FS_RemoveElement
    <2>3. P # {}
        BY <1>1, <1>5, <2>2, FS_EmptySet
    <2>4. P \in SUBSET Nat /\ \A j \in P : j <= n
        <3>1. P \in SUBSET K /\ \A j \in K : j \in Nat /\ j <= n
            BY DEF Upto
        <3> QED
            BY <3>1
    <2>5. PICK p \in P : \A j \in P : j <= p
        <3> HIDE DEF P
        <3> QED
            BY <2>3, <2>4, LargestNumber
    <2>6. p \in K /\ p < i
        BY <1>4, <2>5 DEF Upto
    <2>7. Upto(K, p) = P
        <3>1. ASSUME NEW j \in K, j <= p PROVE j \in P
            BY <1>4, <2>6, <3>1 DEF Upto
        <3>2. ASSUME NEW j \in P PROVE j \in Upto(K, p)
            BY <2>5, <3>2 DEF Upto
        <3> QED
            BY <3>1, <3>2 DEF Upto
    <2>8. Cardinality(Upto(K, p)) >= k
        BY <1>1, <1>5, <2>2, <2>7
    <2>9. p \in S
        BY <2>6, <2>8
    <2> QED
        BY <1>3, <1>4, <2>6, <2>9
<1> QED
    BY <1>1, <1>4, <1>5

LEMMA Places ==
    ASSUME NEW n \in Nat, NEW K \in SUBSET (1 .. n)
    PROVE  /\ Cardinality(K) \in Nat
           /\ \A k \in 1 .. Cardinality(K) : Place(K, k) \in K
           /\ \A k, l \in 1 .. Cardinality(K) : k < l => Place(K, k) < Place(K, l)
           /\ \A i \in K : \E k \in 1 .. Cardinality(K) : Place(K, k) = i
<1>1. /\ Cardinality(K) \in Nat
      /\ \A i : Cardinality(Upto(K, i)) \in 0 .. Cardinality(K)
    BY UptoFinite, Zenon
<1>2. ASSUME NEW k \in 1 .. Cardinality(K)
      PROVE  Place(K, k) \in K /\ Cardinality(Upto(K, Place(K, k))) = k
    <2>1. \E i \in K : Cardinality({j \in K : j <= i}) = k
        BY PlaceExists DEF Upto
    <2> QED
        BY <2>1, Zenon DEF Place, Upto
<1>3. ASSUME NEW k \in 1 .. Cardinality(K), NEW l \in 1 .. Cardinality(K), k < l
      PROVE  Place(K, k) < Place(K, l)
    <2>1. /\ Place(K, k) \in K /\ Cardinality(Upto(K, Place(K, k))) = k
          /\ Place(K, l) \in K /\ Cardinality(Upto(K, Place(K, l))) = l
        BY <1>2
    <2>2. k \in Int /\ l \in Int /\ K \in SUBSET Int
        BY <1>1
    <2>3. Place(K, k) \in Int /\ Place(K, l) \in Int
        BY <2>1, <2>2
    <2>4. Place(K, l) < Place(K, k) =>
            Cardinality(Upto(K, Place(K, l))) < Cardinality(Upto(K, Place(K, k)))
        BY <2>1, <2>3, UptoGrows, Zenon
    <2>5. Place(K, l) # Place(K, k)
        BY <1>3, <2>1, <2>2
    <2> QED
        BY <1>3, <2>1, <2>2, <2>3, <2>4, <2>5
<1>4. ASSUME NEW i \in K
      PROVE  \E k \in 1 .. Cardinality(K) : Place(K, k) = i
    <2> DEFINE k == Cardinality(Upto(K, i))
    <2>1. i - 1 \in Int /\ i - 1 < i /\ i \in Int
        OBVIOUS
    <2>2. Cardinality(Upto(K, i - 1)) < k
        BY <2>1, UptoGrows, Zenon
    <2>3. k \in 1 .. Cardinality(K)
        BY <1>1, <2>2
    <2>4. Place(K, k) \in K /\ Cardinality(Upto(K, Place(K, k))) = k
        BY <1>2, <2>3
    <2>5. K \in SUBSET Int
        OBVIOUS
    <2>6. Place(K, k) \in Int
        BY <2>4, <2>5
    <2>7. /\ Place(K, k) < i => Cardinality(Upto(K, Place(K, k))) < Cardinality(Upto(K, i))
          /\ i < Place(K, k) => Cardinality(Upto(K, i)) < Cardinality(Upto(K, Place(K, k)))
        BY <2>1, <2>4, <2>6, UptoGrows, Zenon
    <2>8. ~(k < k)
        BY <1>1
    <2>9. ~(Place(K, k) < i) /\ ~(i < Place(K, k))
        BY <2>4, <2>7, <2>8
    <2> HIDE DEF k
    <2> QED
        BY <2>1, <2>3, <2>6, <2>9
<1> QED
    BY <1>1, <1>2, <1>3, <1>4

LEMMA KeptShape ==
    ASSUME NEW n \in Nat, NEW K \in SUBSET (1 .. n), NEW s
    PROVE  /\ DOMAIN Kept(s, K) = 1 .. Cardinality(K)
           /\ Len(Kept(s, K)) = Cardinality(K)
           /\ \A k \in 1 .. Cardinality(K) : Kept(s, K)[k] = s[Place(K, k)]
           /\ Kept(s, K) \in Seq({s[i] : i \in K})
<1> DEFINE N == Cardinality(K)
           S == {s[i] : i \in K}
<1>1. N \in Nat /\ \A k \in 1 .. N : Place(K, k) \in K
    BY Places, Zenon
<1> HIDE DEF N
<1>2. /\ Kept(s, K) = [k \in 1 .. N |-> s[Place(K, k)]]
    BY Zenon DEF Kept, N
<1>3. Kept(s, K) \in [1 .. N -> S]
    BY <1>1, <1>2
<1> HIDE DEF S
<1>4. Kept(s, K) \in Seq(S)
    BY <1>1, <1>3
<1>5. Len(Kept(s, K)) = N /\ DOMAIN Kept(s, K) = 1 .. N
    BY <1>1, <1>3, <1>4
<1> QED
    BY <1>2, <1>4, <1>5, Zenon DEF N, S

-----------------------------------------------------------------------------
(* The patches that have been tried do not match; one that answers does.   *)
Tried(n) == \A k \in 1 .. n : ~ Matches(Patcher(raw)[k], req)

PatchInv ==
    /\ stage # "answered" => verdict = None
    /\ stage \in {"patch", "answered"} =>
         raw \in PatchLists /\ at \in 1 .. Len(Patcher(raw)) + 1 /\ Tried(at - 1)
    /\ stage = "answered" =>
         /\ at <= Len(Patcher(raw)) /\ Matches(Patcher(raw)[at], req)
         /\ verdict.rule = Patcher(raw)[at]

Compiling(l) == {i \in DOMAIN l : Compiles(l[i])}

(* The patches that are tried are those of the list that compile.          *)
LEMMA PatcherShape ==
    ASSUME NEW l \in PatchLists
    PROVE  /\ Len(Patcher(l)) \in Nat /\ DOMAIN Patcher(l) = 1 .. Len(Patcher(l))
           /\ \A k \in 1 .. Len(Patcher(l)) :
                /\ Place(Compiling(l), k) \in Compiling(l)
                /\ Patcher(l)[k] = Compiled(l)[Place(Compiling(l), k)]
           /\ \A i, k \in 1 .. Len(Patcher(l)) :
                i < k => Place(Compiling(l), i) < Place(Compiling(l), k)
           /\ \A i \in Compiling(l) :
                \E k \in 1 .. Len(Patcher(l)) : Place(Compiling(l), k) = i
           /\ Compiling(l) \in SUBSET Nat
<1> DEFINE n == Len(l)
           K == Compiling(l)
<1>1. n \in Nat /\ DOMAIN l = 1 .. n
    <2>1. l \in Seq(Range(l))
        BY PatchListsAssumption
    <2> QED
        BY <2>1, LenProperties
<1>2. K \in SUBSET (1 .. n)
    BY <1>1 DEF Compiling
<1>3. Patcher(l) = Kept(Compiled(l), K)
    BY Zenon DEF Patcher, Compiling
<1> HIDE DEF n, K
<1>4. /\ DOMAIN Patcher(l) = 1 .. Cardinality(K)
      /\ Len(Patcher(l)) = Cardinality(K)
      /\ \A k \in 1 .. Cardinality(K) : Patcher(l)[k] = Compiled(l)[Place(K, k)]
    BY <1>1, <1>2, <1>3, KeptShape, Zenon
<1>5. /\ Cardinality(K) \in Nat
      /\ \A k \in 1 .. Cardinality(K) : Place(K, k) \in K
      /\ \A k, i \in 1 .. Cardinality(K) : k < i => Place(K, k) < Place(K, i)
      /\ \A i \in K : \E k \in 1 .. Cardinality(K) : Place(K, k) = i
    BY <1>1, <1>2, Places, Zenon
<1>6. K \in SUBSET Nat
    BY <1>1, <1>2
<1> QED
    BY <1>4, <1>5, <1>6, Zenon DEF K

LEMMA PatchInductive == ScreenSpec => []PatchInv
<1>1. ScreenInit => PatchInv
    <2> SUFFICES ASSUME ScreenInit PROVE PatchInv
        OBVIOUS
    <2>1. raw \in PatchLists /\ at = 1 /\ stage = "patch" /\ verdict = None
        BY DEF ScreenInit
    <2>2. Len(Patcher(raw)) \in Nat
        BY <2>1, PatcherShape
    <2> QED
        BY <2>1, <2>2 DEF PatchInv, Tried
<1>2. PatchInv /\ [ScreenNext]_screenVars => PatchInv'
    <2> SUFFICES ASSUME PatchInv, [ScreenNext]_screenVars PROVE PatchInv'
        OBVIOUS
    <2>1. CASE TryPatch
        <3>1. /\ stage = "patch" /\ raw \in PatchLists /\ at \in 1 .. Len(Patcher(raw))
              /\ Len(Patcher(raw)) \in Nat /\ Tried(at - 1) /\ verdict = None
              /\ raw' = raw /\ req' = req
            BY <2>1, PatcherShape DEF TryPatch, PatchInv
        <3>2. CASE Matches(Patcher(raw)[at], req)
            <4>1. stage' = "answered" /\ at' = at /\ verdict'.rule = Patcher(raw)[at]
                BY <2>1, <3>2 DEF TryPatch
            <4> QED
                BY <3>1, <3>2, <4>1 DEF PatchInv, Tried
        <3>3. CASE ~ Matches(Patcher(raw)[at], req)
            <4>1. stage' = stage /\ at' = at + 1 /\ verdict' = verdict
                BY <2>1, <3>3 DEF TryPatch
            <4>2. Tried(at)
                BY <3>1, <3>3 DEF Tried
            <4>3. at + 1 \in 1 .. Len(Patcher(raw)) + 1 /\ at + 1 - 1 = at
                BY <3>1
            <4>4. Tried(at - 1)'
                <5>1. at' - 1 = at
                    BY <3>1, <4>1
                <5>2. \A k \in 1 .. (at' - 1) : ~ Matches(Patcher(raw)[k], req)
                    BY <4>2, <5>1, Zenon DEF Tried
                <5> QED
                    BY <3>1, <5>2, Zenon DEF Tried
            <4>5. at' \in 1 .. Len(Patcher(raw))' + 1 /\ raw' \in PatchLists
                BY <3>1, <4>1, <4>3, Zenon
            <4> QED
                BY <3>1, <4>1, <4>4, <4>5 DEF PatchInv
        <3> QED
            BY <3>2, <3>3
    <2>2. CASE NoPatch
        BY <2>2 DEF NoPatch, PatchInv
    <2>3. CASE TakeInput
        BY <2>3 DEF TakeInput, PatchInv
    <2>4. CASE Decode
        BY <2>4 DEF Decode, PatchInv
    <2>5. CASE Normalised
        BY <2>5 DEF Normalised, PatchInv
    <2>6. CASE UNCHANGED screenVars
        BY <2>6, Zenon DEF screenVars, PatchInv, Tried
    <2> QED
        BY <2>1, <2>2, <2>3, <2>4, <2>5, <2>6 DEF ScreenNext
<1> QED
    BY <1>1, <1>2, PTL DEF ScreenSpec

(* The patch that answers is the first of the file that compiles and       *)
(* matches; one that does not compile is skipped and stands in nobody's    *)
(* way (vpatch.rs:127-162).                                                *)
THEOREM FirstPatchAnswers == ScreenSpec => []FirstPatchWins
<1>1. PatchInv => FirstPatchWins
    <2> SUFFICES ASSUME PatchInv PROVE FirstPatchWins
        OBVIOUS
    <2> DEFINE K == Compiling(raw)
               answering == {i \in DOMAIN raw : /\ Compiles(raw[i])
                                                /\ Matches(Compiled(raw)[i], req)}
    <2>1. answering = {i \in K : Matches(Compiled(raw)[i], req)}
        BY DEF Compiling
    <2>2. ASSUME verdict # None
          PROVE  answering # {} /\ verdict.rule = Compiled(raw)[Min(answering)]
        <3>1. /\ raw \in PatchLists /\ at \in 1 .. Len(Patcher(raw)) /\ Tried(at - 1)
              /\ Matches(Patcher(raw)[at], req) /\ verdict.rule = Patcher(raw)[at]
              /\ Len(Patcher(raw)) \in Nat
            BY <2>2, PatcherShape DEF PatchInv
        <3> DEFINE p == Place(K, at)
        <3>2. p \in K /\ Patcher(raw)[at] = Compiled(raw)[p] /\ K \in SUBSET Nat
            BY <3>1, PatcherShape
        <3>3. p \in answering
            BY <2>1, <3>1, <3>2
        <3>4. ASSUME NEW i \in answering PROVE p <= i
            <4>1. i \in K /\ Matches(Compiled(raw)[i], req)
                BY <2>1
            <4>2. PICK k \in 1 .. Len(Patcher(raw)) : Place(K, k) = i
                BY <3>1, <4>1, PatcherShape
            <4>3. Matches(Patcher(raw)[k], req)
                BY <3>1, <4>1, <4>2, PatcherShape
            <4>4. ~(k \in 1 .. at - 1)
                BY <3>1, <4>3 DEF Tried
            <4>5. k = at \/ at < k
                BY <3>1, <4>4
            <4>6. at < k => p < i
                BY <3>1, <4>2, PatcherShape
            <4>7. p \in Nat /\ i \in Nat
                BY <3>2, <4>1
            <4> QED
                BY <4>2, <4>5, <4>6, <4>7
        <3>5. Min(answering) = p
            <4>1. answering \in SUBSET Nat
                BY <2>1, <3>2
            <4>2. Min(answering) \in answering /\ \A y \in answering : Min(answering) <= y
                <5> HIDE DEF p, answering, K
                <5> QED
                    BY <3>3, <3>4 DEF Min
            <4>3. Min(answering) <= p /\ p <= Min(answering)
                BY <3>3, <3>4, <4>2
            <4>4. Min(answering) \in Nat /\ p \in Nat
                BY <3>3, <4>1, <4>2
            <4> QED
                BY <4>3, <4>4
        <3> QED
            BY <3>1, <3>2, <3>3, <3>5
    <2>3. ASSUME stage = "patch", at > Len(Patcher(raw)) PROVE answering = {}
        <3>1. /\ raw \in PatchLists /\ at = Len(Patcher(raw)) + 1 /\ Tried(at - 1)
              /\ Len(Patcher(raw)) \in Nat
            BY <2>3, PatcherShape DEF PatchInv
        <3>2. Tried(Len(Patcher(raw)))
            BY <3>1
        <3>3. ASSUME NEW i \in answering PROVE FALSE
            <4>1. i \in K /\ Matches(Compiled(raw)[i], req)
                BY <2>1
            <4>2. PICK k \in 1 .. Len(Patcher(raw)) : Place(K, k) = i
                BY <3>1, <4>1, PatcherShape
            <4>3. Matches(Patcher(raw)[k], req)
                BY <3>1, <4>1, <4>2, PatcherShape
            <4> QED
                BY <3>2, <4>3 DEF Tried
        <3> QED
            BY <3>3
    <2> QED
        BY <2>2, <2>3, Zenon DEF FirstPatchWins
<1> QED
    BY <1>1, PatchInductive, PTL

-----------------------------------------------------------------------------
(* The decoding of one character.  E is the stack it came under, the first *)
(* c layers of it those that decoding can take off (all, or all but a      *)
(* full-width form at the bottom that no percent-encoding covers), and d   *)
(* the number of layers that are off.                                      *)
Stack(E, c) ==
    /\ E \in Seq(Encodings) /\ c \in 0 .. Len(E)
    /\ \A k \in 1 .. c : E[k] \in Decodable
    /\ \/ c = Len(E)
       \/ c = Len(E) - 1 /\ E[Len(E)] = "wide" /\ (c > 0 => E[c] # "pct")

(* Over the base b no percent-encoding loses the character.                *)
Peelable(E, c, b) == Stack(E, c) /\ (c = Len(E) /\ c > 0 /\ E[c] = "pct" => b # "foreign")

Layers(E, d) == SubSeq(E, d + 1, Len(E))

LEMMA LayersShape ==
    ASSUME NEW E \in Seq(Encodings), NEW d \in 0 .. Len(E)
    PROVE  /\ Layers(E, d) \in Seq(Encodings) /\ Len(Layers(E, d)) = Len(E) - d
           /\ Layers(E, d) = <<>> <=> d = Len(E)
           /\ \A i \in 1 .. Len(E) - d : Layers(E, d)[i] = E[d + i]
           /\ d < Len(E) => /\ Head(Layers(E, d)) = E[d + 1]
                            /\ Tail(Layers(E, d)) = Layers(E, d + 1)
<1>1. Len(E) \in Nat /\ d \in Nat /\ d + 1 \in Int /\ \A i \in 1 .. Len(E) : E[i] \in Encodings
    BY LenProperties, ElementOfSeq
<1>2. \A i \in d + 1 .. Len(E) : E[i] \in Encodings
    BY <1>1
<1>3. /\ SubSeq(E, d + 1, Len(E)) \in Seq(Encodings)
      /\ Len(SubSeq(E, d + 1, Len(E))) = IF d + 1 <= Len(E) THEN Len(E) - (d + 1) + 1 ELSE 0
      /\ \A i \in 1 .. Len(E) - (d + 1) + 1 :
            SubSeq(E, d + 1, Len(E))[i] = E[d + 1 + i - 1]
    BY <1>1, <1>2, SubSeqProperties
<1>4. /\ Layers(E, d) \in Seq(Encodings) /\ Len(Layers(E, d)) = Len(E) - d
      /\ \A i \in 1 .. Len(E) - d : Layers(E, d)[i] = E[d + i]
    <2>1. Len(E) - (d + 1) + 1 = Len(E) - d /\ (~(d + 1 <= Len(E)) => Len(E) - d = 0)
        BY <1>1
    <2>2. \A i \in 1 .. Len(E) - d : d + 1 + i - 1 = d + i
        BY <1>1
    <2> QED
        BY <1>3, <2>1, <2>2, Zenon DEF Layers
<1>5. Layers(E, d) = <<>> <=> d = Len(E)
    <2>1. Layers(E, d) # <<>> => Len(Layers(E, d)) \in Nat \ {0}
        BY <1>4, EmptySeq
    <2>2. Layers(E, d) = <<>> => Len(Layers(E, d)) = 0
        BY EmptySeq
    <2> QED
        BY <1>1, <1>4, <2>1, <2>2
<1>6. ASSUME d < Len(E)
      PROVE  Head(Layers(E, d)) = E[d + 1] /\ Tail(Layers(E, d)) = Layers(E, d + 1)
    <2>1. d + 1 \in 1 .. Len(E) /\ Len(E) \in d + 1 .. Len(E)
        BY <1>1, <1>6
    <2> QED
        BY <2>1, HeadTailOfSubSeq DEF Layers
<1> QED
    BY <1>4, <1>5, <1>6

LEMMA PeelLayer ==
    ASSUME NEW E, NEW c, NEW b, Peelable(E, c, b), NEW d \in 0 .. c, NEW e, e # "wide"
    PROVE  Peel(Char(Layers(E, d), b), e)
             = Char(Layers(E, IF d < c /\ E[d + 1] = e THEN d + 1 ELSE d), b)
<1> DEFINE L == Layers(E, d)
           C == Char(L, b)
<1>1. /\ E \in Seq(Encodings) /\ c \in 0 .. Len(E) /\ Len(E) \in Nat /\ d \in 0 .. Len(E)
      /\ c \in Nat /\ d \in Nat
    BY LenProperties DEF Stack, Peelable
<1>2. C.enc = L /\ C.base = b
    BY DEF Char
<1> HIDE DEF C
<1>3. /\ L \in Seq(Encodings) /\ Len(L) = Len(E) - d /\ (L = <<>> <=> d = Len(E))
      /\ \A i \in 1 .. Len(E) - d : L[i] = E[d + i]
      /\ d < Len(E) => Head(L) = E[d + 1] /\ Tail(L) = Layers(E, d + 1)
    BY <1>1, LayersShape
<1> HIDE DEF L
<1>4. CASE d < c /\ E[d + 1] = e
    <2>1. d < Len(E) /\ L # <<>> /\ Head(L) = e /\ Tail(L) = Layers(E, d + 1)
        BY <1>1, <1>3, <1>4
    <2>2. ~(e = "pct" /\ OutOfAscii(Tail(L), b))
        <3> SUFFICES ASSUME e = "pct", OutOfAscii(Tail(L), b) PROVE FALSE
            OBVIOUS
        <3>1. /\ d + 1 \in 0 .. Len(E) /\ (Tail(L) = <<>> <=> d + 1 = Len(E))
              /\ d + 1 < Len(E) => Head(Tail(L)) = E[d + 2]
            <4>1. d + 1 \in 0 .. Len(E) /\ d + 1 + 1 = d + 2
                BY <1>1, <2>1
            <4> DEFINE f == d + 1
            <4>2. f \in 0 .. Len(E) /\ f + 1 = d + 2 /\ Tail(L) = Layers(E, f)
                BY <2>1, <4>1
            <4> HIDE DEF f
            <4>3. /\ Layers(E, f) = <<>> <=> f = Len(E)
                  /\ f < Len(E) => Head(Layers(E, f)) = E[f + 1]
                BY <1>1, <4>2, LayersShape
            <4> QED
                BY <4>2, <4>3 DEF f
        <3>2. CASE d + 1 = Len(E)
            <4>1. c = Len(E) /\ c > 0 /\ E[c] = "pct" /\ b = "foreign"
                BY <1>1, <1>4, <3>1, <3>2 DEF OutOfAscii
            <4> QED
                BY <4>1 DEF Peelable
        <3>3. CASE d + 1 < Len(E)
            <4>1. E[d + 2] = "wide"
                BY <3>1, <3>3 DEF OutOfAscii
            <4>2. ~(d + 2 <= c)
                <5>1. d + 2 <= c => d + 2 \in 1 .. c
                    BY <1>1
                <5>2. "wide" \notin Decodable
                    BY DEF Decodable
                <5> QED
                    BY <4>1, <5>1, <5>2 DEF Stack, Peelable
            <4>3. d + 1 = c /\ c # Len(E) /\ c > 0
                BY <1>1, <1>4, <3>3, <4>2
            <4> QED
                BY <1>4, <4>3 DEF Stack, Peelable
        <3> QED
            BY <1>1, <3>1, <3>2, <3>3
    <2>3. Peel(C, e) = Char(Tail(L), b)
        BY <1>2, <2>1, <2>2, Zenon DEF Peel
    <2> QED
        BY <1>4, <2>1, <2>3, Zenon DEF C, L
<1>5. CASE ~(d < c /\ E[d + 1] = e)
    <2>1. L = <<>> \/ Head(L) # e
        <3>1. CASE d = Len(E)
            BY <1>3, <3>1
        <3>2. CASE d < c
            BY <1>1, <1>3, <1>5, <3>2
        <3>3. CASE d = c /\ d # Len(E)
            <4>1. d < Len(E) /\ d + 1 = Len(E) /\ E[Len(E)] = "wide"
                BY <1>1, <3>3 DEF Stack, Peelable
            <4> QED
                BY <1>3, <4>1
        <3> QED
            BY <1>1, <3>1, <3>2, <3>3
    <2>2. Peel(C, e) = C
        BY <1>2, <2>1, Zenon DEF Peel
    <2> QED
        BY <1>5, <2>2, Zenon DEF C, L
<1> QED
    BY <1>4, <1>5

-----------------------------------------------------------------------------
(* One round: five replacements, each of which takes off the next layer if *)
(* it is of its kind.                                                      *)
LEMMA Turns ==
    /\ Turn("upct") = 1 /\ Turn("pct") = 2 /\ Turn("dec") = 3 /\ Turn("hex") = 4
    /\ Turn("ent") = 5
<1>1. /\ DOMAIN RoundOrder = 1 .. 5 /\ RoundOrder[1] = "upct" /\ RoundOrder[2] = "pct"
      /\ RoundOrder[3] = "dec" /\ RoundOrder[4] = "hex" /\ RoundOrder[5] = "ent"
    BY DEF RoundOrder
<1>2. \A i \in 1 .. 5 : i = 1 \/ i = 2 \/ i = 3 \/ i = 4 \/ i = 5
    OBVIOUS
<1>3. \A i, k \in 1 .. 5 : RoundOrder[i] = RoundOrder[k] => i = k
    BY <1>1, <1>2
<1>4. ASSUME NEW i \in 1 .. 5 PROVE Turn(RoundOrder[i]) = i
    <2>1. \E k \in DOMAIN RoundOrder : RoundOrder[k] = RoundOrder[i]
        BY <1>1
    <2>2. Turn(RoundOrder[i]) \in DOMAIN RoundOrder
          /\ RoundOrder[Turn(RoundOrder[i])] = RoundOrder[i]
        BY <2>1, Zenon DEF Turn
    <2> QED
        BY <1>1, <1>3, <2>2
<1> QED
    BY <1>1, <1>4

(* What the p-th replacement of a round leaves of d.                       *)
Step(E, c, d, p) == IF d < c /\ Turn(E[d + 1]) = p THEN d + 1 ELSE d

After(E, c, d) == Step(E, c, Step(E, c, Step(E, c, Step(E, c, Step(E, c, d, 1), 2), 3), 4), 5)

LEMMA TurnOf ==
    ASSUME NEW E, NEW c, Stack(E, c), NEW k \in 1 .. c
    PROVE  /\ Turn(E[k]) \in 1 .. 5
           /\ \A e \in Decodable : E[k] = e <=> Turn(E[k]) = Turn(e)
<1>1. E[k] \in Decodable
    BY DEF Stack
<1> QED
    BY <1>1, Turns DEF Decodable

LEMMA PeelStep ==
    ASSUME NEW E, NEW c, NEW b, Peelable(E, c, b), NEW d \in 0 .. c, NEW e \in Decodable,
           NEW p, p = Turn(e)
    PROVE  /\ Peel(Char(Layers(E, d), b), e) = Char(Layers(E, Step(E, c, d, p)), b)
           /\ Step(E, c, d, p) \in 0 .. c
<1>1. c \in Nat /\ d \in Nat
    BY LenProperties DEF Stack, Peelable
<1>2. d < c => (E[d + 1] = e <=> Turn(E[d + 1]) = p)
    <2>1. d < c => d + 1 \in 1 .. c
        BY <1>1
    <2> QED
        BY <2>1, TurnOf DEF Peelable
<1>3. (d < c /\ E[d + 1] = e) <=> (d < c /\ Turn(E[d + 1]) = p)
    BY <1>2
<1>4. Step(E, c, d, p) \in 0 .. c
    BY <1>1 DEF Step
<1>5. Peel(Char(Layers(E, d), b), e)
        = Char(Layers(E, IF d < c /\ E[d + 1] = e THEN d + 1 ELSE d), b)
    <2>1. e # "wide"
        BY DEF Decodable
    <2> QED
        BY <2>1, PeelLayer
<1> QED
    BY <1>3, <1>4, <1>5, Zenon DEF Step

LEMMA RoundLayer ==
    ASSUME NEW E, NEW c, NEW b, Peelable(E, c, b), NEW d \in 0 .. c
    PROVE  /\ DecodeHtml(DecodePct(Char(Layers(E, d), b))) = Char(Layers(E, After(E, c, d)), b)
           /\ After(E, c, d) \in 0 .. c
<1> DEFINE d1 == Step(E, c, d, 1)
           d2 == Step(E, c, d1, 2)
           d3 == Step(E, c, d2, 3)
           d4 == Step(E, c, d3, 4)
           d5 == Step(E, c, d4, 5)
<1>0. After(E, c, d) = d5
    BY DEF After
<1>a. {"upct", "pct", "dec", "hex", "ent"} \in SUBSET Decodable
    BY DEF Decodable
<1>1. Peel(Char(Layers(E, d), b), "upct") = Char(Layers(E, d1), b) /\ d1 \in 0 .. c
    BY <1>a, PeelStep, Turns
<1> HIDE DEF d1
<1>2. Peel(Char(Layers(E, d1), b), "pct") = Char(Layers(E, d2), b) /\ d2 \in 0 .. c
    BY <1>a, <1>1, PeelStep, Turns
<1> HIDE DEF d2
<1>3. Peel(Char(Layers(E, d2), b), "dec") = Char(Layers(E, d3), b) /\ d3 \in 0 .. c
    BY <1>a, <1>2, PeelStep, Turns
<1> HIDE DEF d3
<1>4. Peel(Char(Layers(E, d3), b), "hex") = Char(Layers(E, d4), b) /\ d4 \in 0 .. c
    BY <1>a, <1>3, PeelStep, Turns
<1> HIDE DEF d4
<1>5. Peel(Char(Layers(E, d4), b), "ent") = Char(Layers(E, d5), b) /\ d5 \in 0 .. c
    BY <1>a, <1>4, PeelStep, Turns
<1> HIDE DEF d5
<1> QED
    BY <1>0, <1>1, <1>2, <1>3, <1>4, <1>5, Zenon DEF DecodeHtml, DecodePct

(* Within one round the layers that come off are in the order of           *)
(* RoundOrder, and what stays comes earlier in it or not at all: what d    *)
(* has become after p replacements.                                        *)
Pass(E, c, d, q, p) ==
    /\ q \in d .. c
    /\ \A k \in d + 1 .. q - 1 : Turn(E[k]) < Turn(E[k + 1])
    /\ q > d => Turn(E[q]) <= p
    /\ q < c => Turn(E[q + 1]) > p \/ (q > d /\ Turn(E[q]) >= Turn(E[q + 1]))

LEMMA PassStep ==
    ASSUME NEW E, NEW c, Stack(E, c), NEW d \in 0 .. c, NEW q, NEW p \in 0 .. 4,
           Pass(E, c, d, q, p)
    PROVE  Pass(E, c, d, Step(E, c, q, p + 1), p + 1)
<1>1. /\ c \in Nat /\ d \in Nat /\ q \in d .. c /\ q \in Nat
    BY LenProperties DEF Stack, Pass
<1>2. \A k \in 1 .. c : Turn(E[k]) \in 1 .. 5
    BY TurnOf
<1>3. CASE q < c /\ Turn(E[q + 1]) = p + 1
    <2>1. Step(E, c, q, p + 1) = q + 1
        BY <1>3 DEF Step
    <2>2. q + 1 \in d .. c /\ q + 1 > d /\ q + 1 \in 1 .. c
        BY <1>1, <1>3
    <2>3. ASSUME NEW k \in d + 1 .. (q + 1) - 1 PROVE Turn(E[k]) < Turn(E[k + 1])
        <3>1. CASE k = q
            <4>1. q > d
                BY <1>1, <2>3, <3>1
            <4>2. Turn(E[q]) <= p /\ q \in 1 .. c
                BY <1>1, <4>1 DEF Pass
            <4>3. Turn(E[q]) \in 1 .. 5
                BY <1>2, <4>2
            <4> QED
                BY <1>3, <3>1, <4>2, <4>3
        <3>2. CASE k # q
            <4>1. k \in d + 1 .. q - 1
                BY <1>1, <3>2
            <4> QED
                BY <4>1 DEF Pass
        <3> QED
            BY <3>1, <3>2
    <2>4. Turn(E[q + 1]) <= p + 1
        BY <1>3
    <2>5. q + 1 < c => \/ Turn(E[(q + 1) + 1]) > p + 1
                       \/ q + 1 > d /\ Turn(E[q + 1]) >= Turn(E[(q + 1) + 1])
        <3> SUFFICES ASSUME q + 1 < c
                     PROVE  Turn(E[(q + 1) + 1]) > p + 1 \/ p + 1 >= Turn(E[(q + 1) + 1])
            BY <1>3, <2>2
        <3>1. (q + 1) + 1 \in 1 .. c
            BY <1>1
        <3>2. Turn(E[(q + 1) + 1]) \in 1 .. 5
            BY <1>2, <3>1
        <3> QED
            BY <3>2
    <2> QED
        BY <2>1, <2>2, <2>3, <2>4, <2>5 DEF Pass
<1>4. CASE ~(q < c /\ Turn(E[q + 1]) = p + 1)
    <2>1. Step(E, c, q, p + 1) = q
        BY <1>4 DEF Step
    <2>2. q > d => Turn(E[q]) <= p + 1
        <3> SUFFICES ASSUME q > d PROVE Turn(E[q]) <= p + 1
            OBVIOUS
        <3>1. q \in 1 .. c
            BY <1>1
        <3>2. Turn(E[q]) \in 1 .. 5 /\ Turn(E[q]) <= p
            BY <1>2, <3>1 DEF Pass
        <3> QED
            BY <3>2
    <2>3. q < c => Turn(E[q + 1]) > p + 1 \/ (q > d /\ Turn(E[q]) >= Turn(E[q + 1]))
        <3> SUFFICES ASSUME q < c, ~(q > d /\ Turn(E[q]) >= Turn(E[q + 1]))
                     PROVE  Turn(E[q + 1]) > p + 1
            OBVIOUS
        <3>1. q + 1 \in 1 .. c
            BY <1>1
        <3>2. Turn(E[q + 1]) \in 1 .. 5 /\ Turn(E[q + 1]) > p /\ Turn(E[q + 1]) # p + 1
            BY <1>2, <1>4, <3>1 DEF Pass
        <3> QED
            BY <3>2
    <2> QED
        BY <2>1, <2>2, <2>3 DEF Pass
<1> QED
    BY <1>3, <1>4

LEMMA AfterPass ==
    ASSUME NEW E, NEW c, Stack(E, c), NEW d \in 0 .. c
    PROVE  Pass(E, c, d, After(E, c, d), 5)
<1> DEFINE d1 == Step(E, c, d, 1)
           d2 == Step(E, c, d1, 2)
           d3 == Step(E, c, d2, 3)
           d4 == Step(E, c, d3, 4)
<1>1. Pass(E, c, d, d, 0)
    <2>1. c \in Nat /\ d \in Nat
        BY LenProperties DEF Stack
    <2>2. d < c => Turn(E[d + 1]) > 0
        <3> SUFFICES ASSUME d < c PROVE Turn(E[d + 1]) > 0
            OBVIOUS
        <3>1. d + 1 \in 1 .. c
            BY <2>1
        <3>2. Turn(E[d + 1]) \in 1 .. 5
            BY <3>1, TurnOf
        <3> QED
            BY <3>2
    <2> QED
        BY <2>1, <2>2 DEF Pass
<1>2. 0 + 1 = 1 /\ 1 + 1 = 2 /\ 2 + 1 = 3 /\ 3 + 1 = 4 /\ 4 + 1 = 5
    OBVIOUS
<1>3. 0 \in 0 .. 4 /\ 1 \in 0 .. 4 /\ 2 \in 0 .. 4 /\ 3 \in 0 .. 4 /\ 4 \in 0 .. 4
    OBVIOUS
<1>4. Pass(E, c, d, d1, 1)
    BY <1>1, <1>2, <1>3, PassStep, Zenon
<1> HIDE DEF d1
<1>5. Pass(E, c, d, d2, 2)
    BY <1>2, <1>3, <1>4, PassStep, Zenon
<1> HIDE DEF d2
<1>6. Pass(E, c, d, d3, 3)
    BY <1>2, <1>3, <1>5, PassStep, Zenon
<1> HIDE DEF d3
<1>7. Pass(E, c, d, d4, 4)
    BY <1>2, <1>3, <1>6, PassStep, Zenon
<1> HIDE DEF d4
<1>8. Pass(E, c, d, Step(E, c, d4, 5), 5)
    BY <1>2, <1>3, <1>7, PassStep, Zenon
<1> QED
    BY <1>8 DEF After, d1, d2, d3, d4

(* The rounds that the layers after the d-th take.                         *)
Descents(E, c, d) == {k \in d + 1 .. c - 1 : Turn(E[k]) >= Turn(E[k + 1])}

RoundsLeft(E, c, d) == IF d = c THEN 0 ELSE 1 + Cardinality(Descents(E, c, d))

LEMMA DescentsFinite ==
    ASSUME NEW E, NEW c, Stack(E, c), NEW d \in 0 .. c
    PROVE  /\ IsFiniteSet(Descents(E, c, d)) /\ Cardinality(Descents(E, c, d)) \in Nat
           /\ RoundsLeft(E, c, d) \in Nat /\ (RoundsLeft(E, c, d) = 0 <=> d = c)
<1>1. c \in Nat /\ d \in Nat
    BY LenProperties DEF Stack
<1>2. d + 1 \in Int /\ c - 1 \in Int
    BY <1>1
<1>3. IsFiniteSet(d + 1 .. c - 1)
    BY <1>2, FS_Interval
<1>4. Descents(E, c, d) \in SUBSET (d + 1 .. c - 1)
    BY DEF Descents
<1>5. IsFiniteSet(Descents(E, c, d))
    BY <1>3, <1>4, FS_Subset
<1>6. Cardinality(Descents(E, c, d)) \in Nat
    BY <1>5, FS_CardinalityType
<1> QED
    BY <1>5, <1>6 DEF RoundsLeft

(* A round takes one round's worth of layers off, if there is one.         *)
LEMMA OneRoundLess ==
    ASSUME NEW E, NEW c, Stack(E, c), NEW d \in 0 .. c
    PROVE  /\ After(E, c, d) \in d .. c
           /\ d = c => After(E, c, d) = c
           /\ d < c => /\ After(E, c, d) > d
                       /\ RoundsLeft(E, c, d) = 1 + RoundsLeft(E, c, After(E, c, d))
<1> DEFINE q == After(E, c, d)
<1>1. Pass(E, c, d, q, 5)
    BY AfterPass
<1> HIDE DEF q
<1>2. c \in Nat /\ d \in Nat /\ q \in d .. c /\ q \in Nat
    BY <1>1, LenProperties DEF Stack, Pass
<1>3. \A k \in 1 .. c : Turn(E[k]) \in 1 .. 5
    BY TurnOf
<1>4. q < c => q > d /\ Turn(E[q]) >= Turn(E[q + 1])
    <2> SUFFICES ASSUME q < c PROVE q > d /\ Turn(E[q]) >= Turn(E[q + 1])
        OBVIOUS
    <2>1. q + 1 \in 1 .. c
        BY <1>2
    <2>2. Turn(E[q + 1]) \in 1 .. 5
        BY <1>3, <2>1
    <2>3. ~(Turn(E[q + 1]) > 5)
        BY <2>2
    <2> QED
        BY <1>1, <2>3 DEF Pass
<1>5. ASSUME d < c PROVE RoundsLeft(E, c, d) = 1 + RoundsLeft(E, c, q)
    <2>1. /\ IsFiniteSet(Descents(E, c, q)) /\ Cardinality(Descents(E, c, q)) \in Nat
        BY <1>2, DescentsFinite
    <2>2. q > d
        BY <1>2, <1>4, <1>5
    <2>3. ASSUME NEW k \in d + 1 .. q - 1 PROVE ~(Turn(E[k]) >= Turn(E[k + 1]))
        <3>1. k \in 1 .. c /\ k + 1 \in 1 .. c
            BY <1>2
        <3>2. Turn(E[k]) \in 1 .. 5 /\ Turn(E[k + 1]) \in 1 .. 5
            BY <1>3, <3>1
        <3>3. Turn(E[k]) < Turn(E[k + 1])
            BY <1>1 DEF Pass
        <3> QED
            BY <3>2, <3>3
    <2>4. CASE q = c
        <3>1. Descents(E, c, d) = {}
            BY <2>3, <2>4 DEF Descents
        <3> QED
            BY <1>5, <2>4, <3>1, FS_EmptySet DEF RoundsLeft
    <2>5. CASE q < c
        <3>1. ASSUME NEW k
              PROVE  k \in Descents(E, c, d) <=> k \in Descents(E, c, q) \cup {q}
            <4>1. k \in d + 1 .. c - 1 <=> k \in d + 1 .. q - 1 \/ k = q \/ k \in q + 1 .. c - 1
                BY <1>2, <2>2, <2>5
            <4> QED
                BY <1>4, <2>3, <2>5, <4>1, Zenon DEF Descents
        <3>2. Descents(E, c, d) = Descents(E, c, q) \cup {q} /\ q \notin Descents(E, c, q)
            <4>1. q \notin q + 1 .. c - 1
                BY <1>2
            <4> QED
                BY <3>1, <4>1 DEF Descents
        <3>3. Cardinality(Descents(E, c, d)) = Cardinality(Descents(E, c, q)) + 1
            BY <2>1, <3>2, FS_AddElement
        <3>4. d # c /\ q # c
            BY <1>2, <1>5, <2>5
        <3>5. /\ RoundsLeft(E, c, d) = 1 + Cardinality(Descents(E, c, d))
              /\ RoundsLeft(E, c, q) = 1 + Cardinality(Descents(E, c, q))
            BY <3>4, Zenon DEF RoundsLeft
        <3> QED
            BY <2>1, <3>3, <3>5
    <2> QED
        BY <1>2, <2>4, <2>5
<1>6. d < c => q > d
    BY <1>2, <1>4
<1> QED
    BY <1>2, <1>5, <1>6 DEF q

-----------------------------------------------------------------------------
(* The loop of normalise.                                                  *)
Chars == [enc : Seq(Encodings), base : Bases]

(* What the character t is after n rounds on the character o.              *)
Decoded(o, t, n) ==
    \A c \in 0 .. Len(o.enc) : Peelable(o.enc, c, o.base) =>
        \E d \in 0 .. c :
            /\ t = Char(Layers(o.enc, d), o.base)
            /\ RoundsLeft(o.enc, c, d) = IF RoundsLeft(o.enc, c, 0) > n
                                         THEN RoundsLeft(o.enc, c, 0) - n ELSE 0

Decoding ==
    /\ round \in 0 .. MaxRounds
    /\ input \in Texts /\ text \in Seq(Chars) /\ Len(text) = Len(input)
    /\ \A i \in 1 .. Len(input) : /\ text[i].base \in {input[i].base, "bytes"}
                                  /\ Decoded(input[i], text[i], round)

DecodeInv ==
    /\ stage \in {"patch", "answered", "inputs"} => round = 0
    /\ stage \in {"decode", "clean"} => Decoding
    /\ stage = "clean" => round = MaxRounds \/ DecodeRound(text) = text

LEMMA TextShape ==
    ASSUME NEW t \in Seq(Chars)
    PROVE  /\ Len(t) \in Nat /\ DOMAIN t = 1 .. Len(t)
           /\ \A i \in 1 .. Len(t) :
                t[i] \in Chars /\ t[i].enc \in Seq(Encodings) /\ t[i].base \in Bases
                /\ t[i] = Char(t[i].enc, t[i].base)
<1>1. Len(t) \in Nat /\ DOMAIN t = 1 .. Len(t)
    BY LenProperties
<1>2. ASSUME NEW i \in 1 .. Len(t) PROVE t[i] \in Chars
    BY ElementOfSeq
<1>3. ASSUME NEW o \in Chars
      PROVE  o.enc \in Seq(Encodings) /\ o.base \in Bases /\ o = Char(o.enc, o.base)
    BY DEF Chars, Char
<1> QED
    BY <1>1, <1>2, <1>3

LEMMA InputShape == Texts \in SUBSET Seq(Chars)
    BY TextsAssumption DEF Chars

LEMMA PeelType ==
    ASSUME NEW o \in Chars, NEW e
    PROVE  Peel(o, e) \in Chars /\ Peel(o, e).base \in {o.base, "bytes"}
<1>1. o.enc \in Seq(Encodings) /\ o.base \in Bases /\ "bytes" \in Bases
    BY DEF Chars, Bases
<1>2. ASSUME NEW s \in Seq(Encodings), NEW b \in Bases
      PROVE  Char(s, b) \in Chars /\ Char(s, b).base = b
    BY DEF Chars, Char
<1>3. CASE o.enc = <<>> \/ Head(o.enc) # e
    BY <1>3, Zenon DEF Peel
<1>4. CASE o.enc # <<>> /\ Head(o.enc) = e
    <2>1. Tail(o.enc) \in Seq(Encodings) /\ <<>> \in Seq(Encodings)
        BY <1>1, <1>4, HeadTailProperties
    <2>2. \/ Peel(o, e) = Char(<<>>, "bytes")
          \/ Peel(o, e) = Char(Tail(o.enc), o.base)
        BY <1>4, Zenon DEF Peel
    <2>3. /\ Char(<<>>, "bytes") \in Chars /\ Char(<<>>, "bytes").base = "bytes"
          /\ Char(Tail(o.enc), o.base) \in Chars /\ Char(Tail(o.enc), o.base).base = o.base
        BY <1>1, <1>2, <2>1
    <2> QED
        BY <2>2, <2>3
<1> QED
    BY <1>3, <1>4

LEMMA RoundType ==
    ASSUME NEW o \in Chars
    PROVE  /\ DecodeHtml(DecodePct(o)) \in Chars
           /\ DecodeHtml(DecodePct(o)).base \in {o.base, "bytes"}
<1> DEFINE a == Peel(o, "upct")
           b == Peel(a, "pct")
           c == Peel(b, "dec")
           d == Peel(c, "hex")
           f == Peel(d, "ent")
<1>1. a \in Chars /\ a.base \in {o.base, "bytes"}
    BY PeelType
<1> HIDE DEF a
<1>2. b \in Chars /\ b.base \in {a.base, "bytes"}
    BY <1>1, PeelType
<1> HIDE DEF b
<1>3. c \in Chars /\ c.base \in {b.base, "bytes"}
    BY <1>2, PeelType
<1> HIDE DEF c
<1>4. d \in Chars /\ d.base \in {c.base, "bytes"}
    BY <1>3, PeelType
<1> HIDE DEF d
<1>5. f \in Chars /\ f.base \in {d.base, "bytes"}
    BY <1>4, PeelType
<1>6. DecodeHtml(DecodePct(o)) = f
    BY DEF DecodeHtml, DecodePct, a, b, c, d
<1> HIDE DEF f
<1> QED
    BY <1>1, <1>2, <1>3, <1>4, <1>5, <1>6

LEMMA DecodedStep ==
    ASSUME NEW o \in Chars, NEW t, NEW n \in Nat, Decoded(o, t, n)
    PROVE  Decoded(o, DecodeHtml(DecodePct(t)), n + 1)
<1> SUFFICES ASSUME NEW c \in 0 .. Len(o.enc), Peelable(o.enc, c, o.base)
             PROVE  \E d \in 0 .. c :
                      /\ DecodeHtml(DecodePct(t)) = Char(Layers(o.enc, d), o.base)
                      /\ RoundsLeft(o.enc, c, d) =
                           IF RoundsLeft(o.enc, c, 0) > n + 1
                           THEN RoundsLeft(o.enc, c, 0) - (n + 1) ELSE 0
    BY Zenon DEF Decoded
<1>1. PICK d \in 0 .. c :
        /\ t = Char(Layers(o.enc, d), o.base)
        /\ RoundsLeft(o.enc, c, d) = IF RoundsLeft(o.enc, c, 0) > n
                                     THEN RoundsLeft(o.enc, c, 0) - n ELSE 0
    BY Zenon DEF Decoded
<1> DEFINE q == After(o.enc, c, d)
           R0 == RoundsLeft(o.enc, c, 0)
           R == RoundsLeft(o.enc, c, d)
           Q == RoundsLeft(o.enc, c, q)
<1>2. DecodeHtml(DecodePct(t)) = Char(Layers(o.enc, q), o.base) /\ q \in 0 .. c
    BY <1>1, RoundLayer
<1>3. /\ d = c => q = c
      /\ d < c => R = 1 + Q
    BY OneRoundLess DEF Peelable
<1>4. c \in Nat /\ d \in Nat /\ 0 \in 0 .. c
    BY LenProperties DEF Stack, Peelable
<1>5. R0 \in Nat /\ R \in Nat /\ Q \in Nat /\ (R = 0 <=> d = c) /\ (Q = 0 <=> q = c)
    BY <1>2, <1>4, DescentsFinite, Zenon DEF Peelable
<1>6. R = IF R0 > n THEN R0 - n ELSE 0
    BY <1>1
<1> HIDE DEF q, R0, R, Q
<1>7. Q = IF R0 > n + 1 THEN R0 - (n + 1) ELSE 0
    <2>1. CASE d = c
        BY <1>3, <1>5, <1>6, <2>1
    <2>2. CASE d < c
        BY <1>3, <1>5, <1>6, <2>2
    <2> QED
        BY <1>4, <2>1, <2>2
<1> QED
    BY <1>2, <1>7 DEF q, R0, Q

LEMMA DecodedStart ==
    ASSUME NEW o \in Chars
    PROVE  Decoded(o, o, 0)
<1> SUFFICES ASSUME NEW c \in 0 .. Len(o.enc), Peelable(o.enc, c, o.base)
             PROVE  \E d \in 0 .. c :
                      /\ o = Char(Layers(o.enc, d), o.base)
                      /\ RoundsLeft(o.enc, c, d) =
                           IF RoundsLeft(o.enc, c, 0) > 0
                           THEN RoundsLeft(o.enc, c, 0) - 0 ELSE 0
    BY Zenon DEF Decoded
<1>1. c \in Nat /\ 0 \in 0 .. c /\ o.enc \in Seq(Encodings)
    BY LenProperties DEF Stack, Peelable
<1>2. Layers(o.enc, 0) = o.enc
    BY <1>1, SubSeqFull DEF Layers
<1>3. o = Char(o.enc, o.base)
    BY DEF Chars, Char
<1>4. RoundsLeft(o.enc, c, 0) \in Nat
    BY <1>1, DescentsFinite DEF Peelable
<1>5. RoundsLeft(o.enc, c, 0) = IF RoundsLeft(o.enc, c, 0) > 0
                                THEN RoundsLeft(o.enc, c, 0) - 0 ELSE 0
    BY <1>4
<1> QED
    BY <1>1, <1>2, <1>3, <1>5, Zenon

LEMMA DecodingStep ==
    ASSUME Decoding, round < MaxRounds
    PROVE  /\ round + 1 \in 0 .. MaxRounds
           /\ DecodeRound(text) \in Seq(Chars) /\ Len(DecodeRound(text)) = Len(input)
           /\ \A i \in 1 .. Len(input) :
                /\ DecodeRound(text)[i].base \in {input[i].base, "bytes"}
                /\ Decoded(input[i], DecodeRound(text)[i], round + 1)
<1> DEFINE n == Len(text)
           t == DecodeRound(text)
<1>1. /\ text \in Seq(Chars) /\ input \in Seq(Chars) /\ Len(text) = Len(input)
      /\ round \in 0 .. MaxRounds
    BY InputShape DEF Decoding
<1>2. n \in Nat /\ DOMAIN text = 1 .. n /\ \A i \in 1 .. n : text[i] \in Chars
    BY <1>1, TextShape
<1>3. t = [i \in 1 .. n |-> DecodeHtml(DecodePct(text[i]))]
    BY <1>2 DEF DecodeRound
<1>4. ASSUME NEW i \in 1 .. n
      PROVE  t[i] \in Chars /\ t[i].base \in {input[i].base, "bytes"}
             /\ Decoded(input[i], t[i], round + 1)
    <2>1. t[i] = DecodeHtml(DecodePct(text[i]))
        BY <1>3
    <2>2. text[i].base \in {input[i].base, "bytes"} /\ Decoded(input[i], text[i], round)
        BY <1>1 DEF Decoding
    <2>3. t[i] \in Chars /\ t[i].base \in {text[i].base, "bytes"}
        BY <1>2, <2>1, RoundType
    <2>4. input[i] \in Chars /\ round \in Nat
        BY <1>1, TextShape
    <2>5. Decoded(input[i], DecodeHtml(DecodePct(text[i])), round + 1)
        BY <2>2, <2>4, DecodedStep
    <2> HIDE DEF t
    <2> QED
        BY <2>1, <2>2, <2>3, <2>5
<1>5. t \in [1 .. n -> Chars]
    <2>1. t = [i \in 1 .. n |-> t[i]]
        BY <1>3
    <2> HIDE DEF t
    <2> QED
        BY <1>4, <2>1
<1> HIDE DEF t
<1>6. t \in Seq(Chars) /\ Len(t) = n
    BY <1>2, <1>5
<1>7. round + 1 \in 0 .. MaxRounds
    BY <1>1 DEF MaxRounds
<1> QED
    BY <1>1, <1>4, <1>6, <1>7 DEF t

LEMMA DecodeInductive == ScreenSpec => []DecodeInv
<1>1. ScreenInit => DecodeInv
    BY DEF ScreenInit, DecodeInv
<1>2. DecodeInv /\ [ScreenNext]_screenVars => DecodeInv'
    <2> SUFFICES ASSUME DecodeInv, [ScreenNext]_screenVars PROVE DecodeInv'
        OBVIOUS
    <2>1. CASE TryPatch
        BY <2>1 DEF TryPatch, DecodeInv
    <2>2. CASE NoPatch
        BY <2>2 DEF NoPatch, DecodeInv
    <2>3. CASE TakeInput
        <3>1. /\ round' = 0 /\ stage' = "decode" /\ input' \in Texts /\ text' = input'
            BY <2>3 DEF TakeInput, DecodeInv
        <3>2. input' \in Seq(Chars)
            BY <3>1, InputShape
        <3>3. ASSUME NEW i \in 1 .. Len(input')
              PROVE  Decoded(input'[i], input'[i], 0)
            BY <3>2, TextShape, DecodedStart
        <3>4. 0 \in 0 .. MaxRounds
            BY DEF MaxRounds
        <3>5. Decoding'
            BY <3>1, <3>2, <3>3, <3>4, Zenon DEF Decoding
        <3> QED
            BY <3>1, <3>5 DEF DecodeInv
    <2>4. CASE Decode
        <3>1. stage = "decode" /\ Decoding /\ input' = input
            BY <2>4 DEF Decode, DecodeInv
        <3>2. CASE round < MaxRounds /\ DecodeRound(text) # text
            <4>1. text' = DecodeRound(text) /\ round' = round + 1 /\ stage' = "decode"
                BY <2>4, <3>1, <3>2 DEF Decode
            <4>2. Decoding'
                BY <3>1, <3>2, <4>1, DecodingStep, Zenon DEF Decoding
            <4> QED
                BY <4>1, <4>2 DEF DecodeInv
        <3>3. CASE ~(round < MaxRounds /\ DecodeRound(text) # text)
            <4>1. text' = text /\ round' = round /\ stage' = "clean"
                BY <2>4, <3>3 DEF Decode
            <4>2. Decoding'
                BY <3>1, <4>1, Zenon DEF Decoding
            <4>3. round = MaxRounds \/ DecodeRound(text) = text
                BY <3>1, <3>3 DEF Decoding, MaxRounds
            <4>4. round' = MaxRounds \/ (DecodeRound(text) = text)'
                BY <4>1, <4>3, Zenon
            <4> QED
                BY <4>1, <4>2, <4>4 DEF DecodeInv
        <3> QED
            BY <3>2, <3>3
    <2>5. CASE Normalised
        BY <2>5 DEF Normalised, DecodeInv
    <2>6. CASE UNCHANGED screenVars
        BY <2>6, Zenon DEF screenVars, DecodeInv, Decoding
    <2> QED
        BY <2>1, <2>2, <2>3, <2>4, <2>5, <2>6 DEF ScreenNext
<1> QED
    BY <1>1, <1>2, PTL DEF ScreenSpec

(* After the loop a character is bare of the layers that decoding can take *)
(* off exactly if they took no more than MaxRounds rounds.                 *)
LEMMA AfterLoop ==
    ASSUME DecodeInv, stage = "clean", NEW i \in 1 .. Len(input),
           NEW c, Peelable(input[i].enc, c, input[i].base)
    PROVE  \E d \in 0 .. c :
             /\ text[i] = Char(Layers(input[i].enc, d), input[i].base)
             /\ d = c <=> RoundsLeft(input[i].enc, c, 0) <= MaxRounds
<1> DEFINE E == input[i].enc
           R0 == RoundsLeft(E, c, 0)
<1>1. /\ Decoding /\ (round = MaxRounds \/ DecodeRound(text) = text)
      /\ round \in 0 .. MaxRounds /\ text \in Seq(Chars) /\ Len(text) = Len(input)
    BY DEF DecodeInv, Decoding
<1>2. c \in 0 .. Len(E) /\ c \in Nat /\ 0 \in 0 .. c
    BY LenProperties DEF Stack, Peelable
<1>3. PICK d \in 0 .. c :
        /\ text[i] = Char(Layers(E, d), input[i].base)
        /\ RoundsLeft(E, c, d) = IF R0 > round THEN R0 - round ELSE 0
    BY <1>1, <1>2, Zenon DEF Decoding, Decoded
<1>4. R0 \in Nat /\ RoundsLeft(E, c, d) \in Nat /\ (RoundsLeft(E, c, d) = 0 <=> d = c)
    BY <1>2, DescentsFinite DEF Peelable
<1>5. ASSUME DecodeRound(text) = text PROVE d = c
    <2>1. DOMAIN text = 1 .. Len(text)
        BY <1>1, TextShape
    <2>2. DecodeHtml(DecodePct(text[i])) = text[i]
        <3>1. i \in DOMAIN text
            BY <1>1, <2>1
        <3>2. DecodeRound(text)[i] = DecodeHtml(DecodePct(text[i]))
            BY <3>1 DEF DecodeRound
        <3> QED
            BY <1>5, <3>2
    <2> DEFINE q == After(E, c, d)
    <2>3. Char(Layers(E, q), input[i].base) = Char(Layers(E, d), input[i].base)
          /\ q \in 0 .. c
        BY <1>3, <2>2, RoundLayer
    <2>4. Layers(E, q) = Layers(E, d)
        <3> HIDE DEF q
        <3> QED
            BY <2>3 DEF Char
    <2>5. Len(E) - q = Len(E) - d
        <3>1. /\ E \in Seq(Encodings) /\ q \in 0 .. Len(E) /\ d \in 0 .. Len(E)
            BY <1>2, <2>3, LenProperties DEF Stack, Peelable
        <3> HIDE DEF q, E
        <3>2. Len(Layers(E, q)) = Len(E) - q
            BY <3>1, LayersShape
        <3>3. Len(Layers(E, d)) = Len(E) - d
            BY <3>1, LayersShape
        <3> QED
            BY <2>4, <3>2, <3>3
    <2>6. d < c => q > d
        BY OneRoundLess DEF Peelable
    <2>7. Len(E) \in Nat
        BY LenProperties DEF Stack, Peelable
    <2> HIDE DEF q
    <2> QED
        BY <1>2, <2>3, <2>5, <2>6, <2>7
<1>6. d = c <=> R0 <= MaxRounds
    <2>1. MaxRounds \in Nat /\ round \in Nat /\ round <= MaxRounds
        BY <1>1 DEF MaxRounds
    <2>2. CASE round = MaxRounds
        BY <1>3, <1>4, <2>1, <2>2
    <2>3. CASE d = c
        BY <1>3, <1>4, <2>1, <2>3
    <2> QED
        BY <1>1, <1>5, <2>2, <2>3
<1> QED
    BY <1>3, <1>6

LEMMA NarrowStack ==
    ASSUME NEW o \in Chars
    PROVE  /\ Len(o.enc) \in Nat
           /\ Narrow(o) => Stack(o.enc, Len(o.enc))
           /\ RoundsLeft(o.enc, Len(o.enc), 0) = RoundsOf(o.enc)
<1>1. o.enc \in Seq(Encodings)
    BY DEF Chars
<1>2. Len(o.enc) \in Nat /\ DOMAIN o.enc = 1 .. Len(o.enc) /\ (o.enc = <<>> <=> Len(o.enc) = 0)
    BY <1>1, LenProperties, EmptySeq
<1>3. Narrow(o) => Stack(o.enc, Len(o.enc))
    BY <1>1, <1>2 DEF Narrow, Stack, Range
<1>4. Descents(o.enc, Len(o.enc), 0)
        = {k \in 1 .. Len(o.enc) - 1 : Turn(o.enc[k]) >= Turn(o.enc[k + 1])}
    <2>1. 0 + 1 = 1
        OBVIOUS
    <2> QED
        BY <2>1, Zenon DEF Descents
<1>5. RoundsLeft(o.enc, Len(o.enc), 0) = RoundsOf(o.enc)
    BY <1>2, <1>4, Zenon DEF RoundsLeft, RoundsOf
<1> QED
    BY <1>2, <1>3, <1>5

-----------------------------------------------------------------------------
(* What MapFullwidth makes of a character that Reached names, once the     *)
(* loop is done: the bare character.                                       *)
LEMMA ReachedBare ==
    ASSUME DecodeInv, stage = "clean", NEW i \in 1 .. Len(input), Reached(input[i])
    PROVE  \/ text[i] = Char(<<>>, input[i].base)
           \/ text[i] = Char(<<"wide">>, input[i].base)
<1> DEFINE o == input[i]
           E == o.enc
           n == Len(E)
<1>1. o \in Chars /\ E \in Seq(Encodings)
    <2>1. input \in Seq(Chars)
        BY InputShape DEF DecodeInv, Decoding
    <2> QED
        BY <2>1, TextShape
<1>2. n \in Nat
    BY <1>1, LenProperties
<1>3. CASE /\ Narrow(o) /\ RoundsOf(E) <= MaxRounds
           /\ n > 0 /\ E[n] = "pct" => o.base # "foreign"
    <2>1. Peelable(E, n, o.base) /\ RoundsLeft(E, n, 0) <= MaxRounds
        BY <1>1, <1>3, NarrowStack DEF Peelable
    <2>2. text[i] = Char(Layers(E, n), o.base)
        BY <2>1, AfterLoop
    <2>3. Layers(E, n) = <<>>
        BY <1>1, <1>2, LayersShape
    <2> QED
        BY <2>2, <2>3
<1>4. CASE /\ n > 0 /\ E[n] = "wide" /\ Narrow(Char(SubSeq(E, 1, n - 1), o.base))
           /\ RoundsOf(SubSeq(E, 1, n - 1)) <= MaxRounds
           /\ n > 1 => E[n - 1] # "pct"
    <2> DEFINE c == n - 1
               F == SubSeq(E, 1, n - 1)
    <2>1. c \in 0 .. n /\ c \in Nat /\ n - 1 \in Int /\ 1 \in Int /\ (n - 1) - 1 + 1 = c
        BY <1>2, <1>4
    <2>2. F \in Seq(Encodings) /\ Len(F) = c /\ \A k \in 1 .. c : F[k] = E[k]
        <3>1. \A k \in 1 .. n - 1 : E[k] \in Encodings
            BY <1>1, <1>2, ElementOfSeq
        <3>2. /\ SubSeq(E, 1, n - 1) \in Seq(Encodings)
              /\ Len(SubSeq(E, 1, n - 1)) = IF 1 <= n - 1 THEN (n - 1) - 1 + 1 ELSE 0
              /\ \A k \in 1 .. (n - 1) - 1 + 1 : SubSeq(E, 1, n - 1)[k] = E[1 + k - 1]
            BY <2>1, <3>1, SubSeqProperties
        <3>3. \A k \in 1 .. c : 1 + k - 1 = k
            BY <2>1
        <3>4. ~(1 <= n - 1) => c = 0
            <4>1. c = n - 1
                OBVIOUS
            <4> HIDE DEF c, n
            <4> QED
                BY <1>2, <2>1, <4>1
        <3>5. Len(F) = c
            <4>1. CASE 1 <= n - 1
                BY <2>1, <3>2, <4>1, Zenon
            <4>2. CASE ~(1 <= n - 1)
                BY <3>2, <3>4, <4>2, Zenon
            <4> QED
                BY <4>1, <4>2
        <3>6. \A k \in 1 .. c : F[k] = E[k]
            BY <2>1, <3>2, <3>3, Zenon
        <3> QED
            BY <3>2, <3>5, <3>6
    <2>3. Char(F, o.base) \in Chars /\ Char(F, o.base).enc = F
        <3>1. o.base \in Bases
            BY <1>1 DEF Chars
        <3> QED
            BY <2>2, <3>1 DEF Chars, Char
    <2>4. Stack(F, c) /\ RoundsLeft(F, c, 0) <= MaxRounds
        BY <1>4, <2>2, <2>3, NarrowStack
    <2>5. Peelable(E, c, o.base)
        <3>1. \A k \in 1 .. c : E[k] \in Decodable
            BY <2>2, <2>4 DEF Stack
        <3>2. c > 0 => E[c] # "pct"
            BY <1>2, <1>4
        <3> QED
            BY <1>1, <1>2, <1>4, <2>1, <3>1, <3>2 DEF Stack, Peelable
    <2>6. RoundsLeft(E, c, 0) = RoundsLeft(F, c, 0)
        <3>1. Descents(E, c, 0) = Descents(F, c, 0)
            <4>1. \A k \in 0 + 1 .. c - 1 : E[k] = F[k] /\ E[k + 1] = F[k + 1]
                BY <2>1, <2>2
            <4> QED
                BY <4>1, Zenon DEF Descents
        <3> QED
            BY <3>1, Zenon DEF RoundsLeft
    <2>7. text[i] = Char(Layers(E, c), o.base)
        BY <2>4, <2>5, <2>6, AfterLoop
    <2>8. Layers(E, c) = <<"wide">>
        <3>1. /\ Layers(E, c) \in Seq(Encodings) /\ Len(Layers(E, c)) = 1
              /\ Layers(E, c)[1] = "wide"
            <4>1. n - c = 1 /\ c + 1 = n /\ 1 \in 1 .. 1
                BY <1>2
            <4>2. /\ Layers(E, c) \in Seq(Encodings) /\ Len(Layers(E, c)) = n - c
                  /\ \A k \in 1 .. n - c : Layers(E, c)[k] = E[c + k]
                BY <1>1, <2>1, LayersShape
            <4> HIDE DEF c
            <4> QED
                BY <1>4, <4>1, <4>2
        <3>2. <<"wide">> \in Seq(Encodings) /\ Len(<<"wide">>) = 1 /\ <<"wide">>[1] = "wide"
            BY DEF Encodings
        <3>3. \A k \in 1 .. Len(Layers(E, c)) : Layers(E, c)[k] = <<"wide">>[k]
            BY <3>1, <3>2
        <3> HIDE DEF c
        <3> QED
            BY <3>1, <3>2, <3>3, SeqEqual
    <2> QED
        BY <2>7, <2>8
<1> QED
    BY <1>3, <1>4, Zenon DEF Reached

LEMMA BareText ==
    ASSUME DecodeInv, stage = "clean", \A i \in DOMAIN input : Reached(input[i])
    PROVE  Clean(text) = Clean([i \in DOMAIN input |-> Char(<<>>, input[i].base)])
<1> DEFINE bare == [i \in DOMAIN input |-> Char(<<>>, input[i].base)]
<1>1. DOMAIN text = 1 .. Len(input) /\ DOMAIN input = 1 .. Len(input)
    BY InputShape, TextShape DEF DecodeInv, Decoding
<1>2. ASSUME NEW b
      PROVE  /\ Char(<<>>, b).enc = <<>> /\ Char(<<>>, b).base = b
             /\ Char(<<"wide">>, b).enc # <<>> /\ Head(Char(<<"wide">>, b).enc) = "wide"
             /\ Tail(Char(<<"wide">>, b).enc) = <<>> /\ Char(<<"wide">>, b).base = b
    BY DEF Char
<1>3. ASSUME NEW i \in DOMAIN input
      PROVE  MapFullwidth(text)[i] = Char(<<>>, input[i].base)
    <2>1. i \in DOMAIN text /\ i \in 1 .. Len(input) /\ Reached(input[i])
        BY <1>1
    <2>2. MapFullwidth(text)[i] = IF text[i].enc # <<>> /\ Head(text[i].enc) = "wide"
                                  THEN Char(Tail(text[i].enc), text[i].base) ELSE text[i]
        BY <2>1, Zenon DEF MapFullwidth
    <2>3. \/ text[i] = Char(<<>>, input[i].base)
          \/ text[i] = Char(<<"wide">>, input[i].base)
        BY <2>1, ReachedBare
    <2> QED
        BY <1>2, <2>2, <2>3, Zenon
<1>4. ASSUME NEW i \in DOMAIN input
      PROVE  MapFullwidth(bare)[i] = Char(<<>>, input[i].base)
    <2>1. bare[i] = Char(<<>>, input[i].base) /\ i \in DOMAIN bare
        OBVIOUS
    <2> HIDE DEF bare
    <2>2. MapFullwidth(bare)[i] = IF bare[i].enc # <<>> /\ Head(bare[i].enc) = "wide"
                                  THEN Char(Tail(bare[i].enc), bare[i].base) ELSE bare[i]
        BY <2>1, Zenon DEF MapFullwidth
    <2> QED
        BY <1>2, <2>1, <2>2, Zenon
<1>5. MapFullwidth(text) = [i \in DOMAIN input |-> MapFullwidth(text)[i]]
    BY <1>1 DEF MapFullwidth
<1>6. MapFullwidth(bare) = [i \in DOMAIN input |-> MapFullwidth(bare)[i]]
    BY DEF MapFullwidth
<1> HIDE DEF bare
<1>7. MapFullwidth(text) = MapFullwidth(bare)
    BY <1>3, <1>4, <1>5, <1>6
<1> QED
    BY <1>7, Zenon DEF Clean, bare

(* Within four rounds the rules see the same text however it was encoded   *)
(* (normaliser.rs:72-93).                                                  *)
THEOREM EncodingsDoNotMatter == ScreenSpec => []EncodingDoesNotMatter
<1>1. ScreenInit => EncodingDoesNotMatter
    BY DEF ScreenInit, EncodingDoesNotMatter
<1>2. DecodeInv /\ EncodingDoesNotMatter /\ [ScreenNext]_screenVars => EncodingDoesNotMatter'
    <2> SUFFICES ASSUME DecodeInv, EncodingDoesNotMatter, [ScreenNext]_screenVars
                 PROVE  EncodingDoesNotMatter'
        OBVIOUS
    <2>1. CASE TryPatch
        BY <2>1 DEF TryPatch, EncodingDoesNotMatter
    <2>2. CASE NoPatch
        BY <2>2 DEF NoPatch, EncodingDoesNotMatter
    <2>3. CASE TakeInput
        BY <2>3 DEF TakeInput, EncodingDoesNotMatter
    <2>4. CASE Decode
        BY <2>4 DEF Decode, EncodingDoesNotMatter
    <2>5. CASE Normalised
        <3>1. stage = "clean" /\ text' = Clean(text) /\ input' = input
            BY <2>5 DEF Normalised
        <3>2. ASSUME \A i \in DOMAIN input : Reached(input[i])
              PROVE  text' = Clean([i \in DOMAIN input |-> Char(<<>>, input[i].base)])
            BY <3>1, <3>2, BareText, Zenon
        <3> QED
            BY <3>1, <3>2, Zenon DEF EncodingDoesNotMatter
    <2>6. CASE UNCHANGED screenVars
        BY <2>6, Zenon DEF screenVars, EncodingDoesNotMatter
    <2> QED
        BY <2>1, <2>2, <2>3, <2>4, <2>5, <2>6 DEF ScreenNext
<1> QED
    BY <1>1, <1>2, DecodeInductive, PTL DEF ScreenSpec

-----------------------------------------------------------------------------
(* The inductive invariant.  Mates(n) are the records up to the n-th that  *)
(* its window of the tracker holds: the same client's, since the same      *)
(* start.                                                                  *)
Mates(n) == {k \in 1 .. n : log[k].ip = log[n].ip
                            /\ log[k].entry.start = log[n].entry.start}

(* A record falls into its window, and the log is in the order of time.    *)
InTime ==
    \A n \in 1 .. Len(log) :
        /\ log[n].entry.start <= log[n].at /\ log[n].at - log[n].entry.start <= Window
        /\ log[n].at <= clock
        /\ \A k \in 1 .. n : log[k].at <= log[n].at

(* A client's windows do not overlap.                                      *)
Apart ==
    \A n \in 1 .. Len(log) : \A k \in 1 .. n :
        log[k].ip = log[n].ip =>
            \/ log[k].entry.start = log[n].entry.start
            \/ log[n].entry.start - log[k].entry.start > Window

(* Every window begins with a record.                                      *)
Begun ==
    \A n \in 1 .. Len(log) : \E k \in Mates(n) : log[k].at = log[n].entry.start

(* The entry of a client is what its last record left; when there is none, *)
(* its windows are over.                                                   *)
LastOf(i, m) ==
    /\ m \in 1 .. Len(log) /\ log[m].ip = i
    /\ \A k \in m + 1 .. Len(log) : log[k].ip # i

Current ==
    \A i \in Ips :
        IF session[i] = NoSession
        THEN \A k \in 1 .. Len(log) :
                log[k].ip = i => clock - log[k].entry.start > Window
        ELSE \E m \in 1 .. Len(log) : LastOf(i, m) /\ session[i] = log[m].entry

(* The entry's numbers are those of its window, as long as they fit.       *)
Sum(n) == Total(Mates(n))
Number(n) == Cardinality(Mates(n))

CountedAt(n) ==
    /\ log[n].entry.score <= Sum(n)
    /\ Sum(n) < Modulus => log[n].entry.score = Sum(n)
    /\ log[n].entry.count <= Number(n) + 1
    /\ Number(n) + 1 < Modulus =>
         /\ log[n].entry.count >= Number(n)
         /\ \A k \in Mates(n) : log[k].entry.count <= log[n].entry.count

Counted == \A n \in 1 .. Len(log) : CountedAt(n)

Answered ==
    \A n \in 1 .. Len(log) :
        log[n].action = Escalate(log[n].entry.score, log[n].entry.count)

SessionInv == TypeOK /\ InTime /\ Apart /\ Begun /\ Current /\ Counted /\ Answered

(* What a client does within any Window stays below the width.             *)
Fits ==
    \A n \in 1 .. Len(log) :
        LET S == Sliding(log[n].ip, n) IN
        Total(S) < Modulus /\ Cardinality(S) + 1 < Modulus

-----------------------------------------------------------------------------
(* Sums over parts of the log.                                             *)
Weight == [k \in 1 .. Len(log) |-> log[k].score]

(* u32 addition.                                                           *)
LEMMA Wrapped ==
    ASSUME NEW x \in Nat, NEW y \in Nat
    PROVE  /\ (x + y) % Modulus \in Nat
           /\ (x + y) % Modulus <= x + y
           /\ x + y < Modulus => (x + y) % Modulus = x + y
BY WidthAssumption

LEMMA LogType ==
    ASSUME TypeOK
    PROVE  /\ Len(log) \in Nat
           /\ \A k \in 1 .. Len(log) :
                /\ log[k].ip \in Ips /\ log[k].at \in Nat /\ log[k].score \in Scores
                /\ log[k].score \in Nat /\ log[k].entry \in Entries
                /\ log[k].entry.score \in Nat /\ log[k].entry.count \in Nat
                /\ log[k].entry.start \in Nat
<1>1. Len(log) \in Nat
    BY DEF TypeOK
<1> DEFINE Records == [ip : Ips, at : 0 .. MaxClock, score : Scores, entry : Entries,
                       action : Actions]
<1>2. ASSUME NEW k \in 1 .. Len(log) PROVE log[k] \in Records
    <2>1. log \in Seq(Records)
        BY DEF TypeOK
    <2> HIDE DEF Records
    <2> QED
        BY <2>1
<1>3. ASSUME NEW k \in 1 .. Len(log)
      PROVE  /\ log[k].ip \in Ips /\ log[k].at \in 0 .. MaxClock /\ log[k].score \in Scores
             /\ log[k].entry \in Entries
    BY <1>2
<1>4. \A e \in Entries : e.score \in Nat /\ e.count \in Nat /\ e.start \in Nat
    BY WidthAssumption, TimeAssumption DEF Entries
<1>5. Scores \subseteq Nat /\ 0 .. MaxClock \subseteq Nat
    BY WidthAssumption, TimeAssumption
<1> QED
    BY <1>1, <1>3, <1>4, <1>5

LEMMA TotalIsSum ==
    ASSUME TypeOK, NEW S \in SUBSET (1 .. Len(log))
    PROVE  /\ IsFiniteSet(S) /\ Weighs(Weight, S)
           /\ Total(S) = SumOver(Weight, S)
<1>1. \A k \in 1 .. Len(log) : Weight[k] = log[k].score /\ log[k].score \in Nat
    BY LogType DEF Weight
<1>2. IsFiniteSet(S)
    <2>1. Len(log) \in Nat
        BY DEF TypeOK
    <2>2. IsFiniteSet(1 .. Len(log))
        BY <2>1, FS_Interval
    <2> QED
        BY <2>2, FS_Subset
<1>3. Weighs(Weight, S)
    BY <1>1 DEF Weighs
<1> DEFINE Recursion(f) ==
             f = [s \in SUBSET S |->
                    IF s = {} THEN 0 ELSE log[Chosen(s)].score + f[s \ {Chosen(s)}]]
           iter == CHOOSE f : Recursion(f)
<1>4. Total(S) = iter[S]
    BY DEF Total, MapThenSumSet, MapThenFoldSet, Chosen
<1>5. ASSUME NEW f PROVE Recursion(f) <=> Iterates(f, Weight, S)
    <2>1. \A s \in SUBSET S : s # {} => log[Chosen(s)].score = Weight[Chosen(s)]
        BY <1>1 DEF Chosen
    <2>2. [s \in SUBSET S |->
             IF s = {} THEN 0 ELSE log[Chosen(s)].score + f[s \ {Chosen(s)}]]
           = [s \in SUBSET S |->
             IF s = {} THEN 0 ELSE Weight[Chosen(s)] + f[s \ {Chosen(s)}]]
        BY <2>1
    <2> QED
        BY <2>2 DEF Iterates
<1>6. PICK g : Adds(g, Weight, S)
    BY <1>2, <1>3, SumsExist
<1>7. Recursion(iter)
    <2>1. Iterates(g, Weight, S)
        BY <1>6, SumsIterate
    <2>2. Recursion(g)
        BY <1>5, <2>1
    <2> QED
        BY <2>2
<1> HIDE DEF iter
<1>8. iter[S] = g[S]
    <2>1. Iterates(iter, Weight, S)
        BY <1>5, <1>7
    <2> QED
        BY <1>2, <1>6, <2>1, IteratesSums
<1>9. SumOver(Weight, S) = g[S]
    BY <1>2, <1>6, SumsOfSubsets
<1> QED
    BY <1>2, <1>3, <1>4, <1>8, <1>9

LEMMA MatesInLog ==
    ASSUME TypeOK, NEW n \in 1 .. Len(log)
    PROVE  Mates(n) \in SUBSET (1 .. Len(log)) /\ n \in Mates(n)
<1>1. n \in 1 .. n /\ 1 .. n \subseteq 1 .. Len(log)
    BY LogType
<1> QED
    BY <1>1 DEF Mates

LEMMA SumsOfMates ==
    TypeOK => \A n \in 1 .. Len(log) :
                 /\ IsFiniteSet(Mates(n)) /\ Weighs(Weight, Mates(n))
                 /\ Sum(n) = SumOver(Weight, Mates(n)) /\ Sum(n) \in Nat
                 /\ Number(n) \in Nat
<1> SUFFICES ASSUME TypeOK, NEW n \in 1 .. Len(log)
             PROVE  /\ IsFiniteSet(Mates(n)) /\ Weighs(Weight, Mates(n))
                    /\ Sum(n) = SumOver(Weight, Mates(n)) /\ Sum(n) \in Nat
                    /\ Number(n) \in Nat
    OBVIOUS
<1>1. /\ IsFiniteSet(Mates(n)) /\ Weighs(Weight, Mates(n))
      /\ Total(Mates(n)) = SumOver(Weight, Mates(n))
    BY MatesInLog, TotalIsSum
<1> QED
    BY <1>1, SumOfSet, FS_CardinalityType DEF Sum, Number

LEMMA SumsOfMatesNext ==
    TypeOK' => (\A n \in 1 .. Len(log) :
                  /\ IsFiniteSet(Mates(n)) /\ Weighs(Weight, Mates(n))
                  /\ Sum(n) = SumOver(Weight, Mates(n)) /\ Sum(n) \in Nat
                  /\ Number(n) \in Nat)'
BY SumsOfMates, PTL

-----------------------------------------------------------------------------
(* What a record does.                                                     *)
Left(i, s) == [score |-> (Opened(i).score + s) % Modulus,
               count |-> (Opened(i).count + 1) % Modulus,
               start |-> Opened(i).start]

LEMMA OpenedType ==
    ASSUME TypeOK, NEW i \in Ips
    PROVE  /\ Opened(i).score \in Nat /\ Opened(i).count \in Nat
           /\ Opened(i).start \in 0 .. MaxClock
<1>1. clock \in 0 .. MaxClock
    BY DEF TypeOK
<1>2. CASE Opened(i) \in {New, Reset}
    BY <1>1, <1>2 DEF New, Reset
<1>3. CASE session[i] # NoSession /\ Opened(i) = session[i]
    <2>1. session[i] \in Entries
        BY <1>3 DEF TypeOK
    <2> QED
        BY <1>3, <2>1, WidthAssumption DEF Entries
<1> QED
    BY <1>2, <1>3 DEF Opened

LEMMA LeftType ==
    ASSUME TypeOK, NEW i \in Ips, NEW s \in Scores
    PROVE  Left(i, s) \in Entries /\ Left(i, s) # NoSession
<1>1. Opened(i).score + s \in Nat /\ Opened(i).count + 1 \in Nat
    BY OpenedType, WidthAssumption
<1>2. /\ (Opened(i).score + s) % Modulus \in 0 .. Modulus - 1
      /\ (Opened(i).count + 1) % Modulus \in 0 .. Modulus - 1
    BY <1>1, WidthAssumption
<1>3. Left(i, s) \in Entries
    BY <1>2, OpenedType DEF Left, Entries
<1>4. Entries \subseteq [score : Nat, count : Nat, start : Nat]
    BY WidthAssumption, TimeAssumption DEF Entries
<1> QED
    BY <1>3, <1>4, NoSessionAssumption

(* The log keeps what it has and gets one record more.                     *)
Grows(i, s) ==
    /\ clock' = clock
    /\ session' = [session EXCEPT ![i] = Left(i, s)]
    /\ Len(log') = Len(log) + 1
    /\ \A k \in 1 .. Len(log) : log'[k] = log[k]
    /\ log'[Len(log) + 1].ip = i /\ log'[Len(log) + 1].at = clock
    /\ log'[Len(log) + 1].score = s /\ log'[Len(log) + 1].entry = Left(i, s)
    /\ log'[Len(log) + 1].action = Escalate(Left(i, s).score, Left(i, s).count)

LEMMA RecordMove ==
    ASSUME TypeOK, NEW i \in Ips, NEW s \in Scores, Record(i, s)
    PROVE  Grows(i, s) /\ TypeOK'
<1> DEFINE Records == [ip : Ips, at : 0 .. MaxClock, score : Scores, entry : Entries,
                       action : Actions]
           r == [ip |-> i, at |-> clock, score |-> s, entry |-> Left(i, s),
                 action |-> Escalate(Left(i, s).score, Left(i, s).count)]
<1>1. clock' = clock /\ session' = [session EXCEPT ![i] = Left(i, s)] /\ log' = Append(log, r)
    BY DEF Record, Left
<1>2. log \in Seq(Records) /\ clock \in 0 .. MaxClock
      /\ session \in [Ips -> Entries \cup {NoSession}]
    BY DEF TypeOK
<1>3. Left(i, s) \in Entries
    BY LeftType
<1>4. Escalate(Left(i, s).score, Left(i, s).count) \in Actions
    BY DEF Escalate, Actions
<1>5. r \in Records
    BY <1>2, <1>3, <1>4
<1>6. /\ r.ip = i /\ r.at = clock /\ r.score = s /\ r.entry = Left(i, s)
      /\ r.action = Escalate(Left(i, s).score, Left(i, s).count)
    OBVIOUS
<1> HIDE DEF r, Records
<1>7. /\ log' \in Seq(Records) /\ Len(log') = Len(log) + 1 /\ log'[Len(log) + 1] = r
      /\ \A k \in 1 .. Len(log) : log'[k] = log[k]
    BY <1>1, <1>2, <1>5
<1>8. Grows(i, s)
    BY <1>1, <1>6, <1>7 DEF Grows
<1>9. TypeOK'
    BY <1>1, <1>2, <1>3, <1>7 DEF TypeOK, Records
<1> QED
    BY <1>8, <1>9

(* What was logged stays as it was.                                        *)
LEMMA OldMates ==
    ASSUME TypeOK, NEW i \in Ips, NEW s \in Scores, Grows(i, s), TypeOK',
           NEW n \in 1 .. Len(log)
    PROVE  /\ Mates(n)' = Mates(n) /\ Sum(n)' = Sum(n) /\ Number(n)' = Number(n)
           /\ CountedAt(n)' <=> CountedAt(n)
<1>1. Len(log) \in Nat /\ n \in 1 .. Len(log')
    BY LogType DEF Grows
<1>2. \A k \in 1 .. n : log'[k] = log[k]
    BY <1>1 DEF Grows
<1>3. Mates(n)' = Mates(n)
    BY <1>1, <1>2 DEF Mates
<1>4. Sum(n)' = SumOver(Weight', Mates(n)')
    BY <1>1, SumsOfMatesNext
<1>5. Sum(n)' = SumOver(Weight', Mates(n))
    BY <1>3, <1>4
<1>6. /\ IsFiniteSet(Mates(n)) /\ Weighs(Weight, Mates(n))
      /\ Sum(n) = SumOver(Weight, Mates(n))
    BY SumsOfMates
<1>7. \A k \in Mates(n) : Weight'[k] = Weight[k]
    <2>1. \A k \in Mates(n) : k \in 1 .. n /\ k \in 1 .. Len(log) /\ k \in 1 .. Len(log')
        BY <1>1 DEF Mates, Grows
    <2> QED
        BY <1>2, <2>1 DEF Weight
<1>8. Sum(n)' = Sum(n)
    BY <1>5, <1>6, <1>7, SumSame
<1>9. Number(n)' = Number(n)
    BY <1>3 DEF Number
<1>10. CountedAt(n)' <=> CountedAt(n)
    <2>1. log'[n] = log[n] /\ \A k \in Mates(n) : log'[k] = log[k]
        BY <1>1, <1>2 DEF Mates
    <2> QED
        BY <1>3, <1>8, <1>9, <2>1 DEF CountedAt
<1> QED
    BY <1>3, <1>8, <1>9, <1>10

(* The new record opens a window or goes on with that of record m.         *)
Opens(i) ==
    /\ Opened(i) \in {New, Reset}
    /\ \A k \in 1 .. Len(log) : log[k].ip = i => clock - log[k].entry.start > Window

Continues(i, m) ==
    /\ LastOf(i, m) /\ Opened(i) = log[m].entry
    /\ clock - log[m].entry.start <= Window

LEMMA OpensOrContinues ==
    ASSUME SessionInv, NEW i \in Ips
    PROVE  Opens(i) \/ \E m \in 1 .. Len(log) : Continues(i, m)
<1>1. CASE session[i] = NoSession
    BY <1>1 DEF SessionInv, Current, Opens, Opened
<1>2. CASE session[i] # NoSession
    <2>1. PICK m \in 1 .. Len(log) : LastOf(i, m) /\ session[i] = log[m].entry
        BY <1>2 DEF SessionInv, Current
    <2>2. clock \in Nat /\ log[m].entry.start \in Nat /\ Window \in Nat /\ Len(log) \in Nat
        BY LogType, TimeAssumption DEF SessionInv, TypeOK
    <2>3. CASE clock - session[i].start > Window
        <3>1. Opened(i) = Reset
            BY <1>2, <2>3 DEF Opened, Expired
        <3>2. ASSUME NEW k \in 1 .. Len(log), log[k].ip = i
              PROVE  clock - log[k].entry.start > Window
            <4>1. k \in 1 .. m
                BY <2>1, <2>2, <3>2 DEF LastOf
            <4>2. \/ log[k].entry.start = log[m].entry.start
                  \/ log[m].entry.start - log[k].entry.start > Window
                BY <2>1, <3>2, <4>1 DEF SessionInv, Apart, LastOf
            <4>3. log[k].entry.start \in Nat
                BY LogType DEF SessionInv
            <4> QED
                BY <2>1, <2>2, <2>3, <4>2, <4>3
        <3> QED
            BY <3>1, <3>2 DEF Opens
    <2>4. CASE ~(clock - session[i].start > Window)
        <3>1. Opened(i) = session[i]
            BY <1>2, <2>4 DEF Opened, Expired
        <3> QED
            BY <2>1, <2>2, <2>4, <3>1 DEF Continues
    <2> QED
        BY <2>3, <2>4
<1> QED
    BY <1>1, <1>2

(* The window of the new record n.                                         *)
LEMMA NewMates ==
    ASSUME SessionInv, NEW i \in Ips, NEW s \in Scores, Grows(i, s), TypeOK',
           NEW n, n = Len(log) + 1
    PROVE  /\ Opens(i) => Mates(n)' = {n} /\ Sum(n)' = s /\ Number(n)' = 1
           /\ \A m \in 1 .. Len(log) : Continues(i, m) =>
                /\ Mates(n)' = Mates(m) \cup {n}
                /\ Sum(n)' = Sum(m) + s /\ Number(n)' = Number(m) + 1
<1>1. /\ Len(log) \in Nat /\ n \in 1 .. Len(log') /\ TypeOK /\ clock \in Nat /\ s \in Nat
      /\ Window \in Nat
    BY LogType, WidthAssumption, TimeAssumption DEF SessionInv, TypeOK, Grows
<1>2. /\ \A k \in 1 .. Len(log) : log'[k] = log[k]
      /\ log'[n].ip = i /\ log'[n].score = s /\ log'[n].entry.start = Opened(i).start
    BY DEF Grows, Left
<1>3. Sum(n)' = SumOver(Weight', Mates(n)') /\ IsFiniteSet(Mates(n)') /\ Weighs(Weight', Mates(n)')
    BY <1>1, SumsOfMatesNext
<1>4. Weight'[n] = s /\ \A k \in 1 .. Len(log) : Weight'[k] = Weight[k]
    <2>1. Len(log') = Len(log) + 1
        BY DEF Grows
    <2> QED
        BY <1>1, <1>2, <2>1 DEF Weight
<1>5. 1 .. n = (1 .. Len(log)) \cup {n} /\ n \notin 1 .. Len(log)
    BY <1>1
<1>6. Mates(n)' = {k \in 1 .. Len(log) : log[k].ip = i /\ log[k].entry.start = Opened(i).start}
                    \cup {n}
    BY <1>2, <1>5 DEF Mates
<1>7. ASSUME Opens(i)
      PROVE  Mates(n)' = {n} /\ Sum(n)' = s /\ Number(n)' = 1
    <2>1. Opened(i).start = clock
        BY <1>7 DEF Opens, New, Reset
    <2>2. \A k \in 1 .. Len(log) : log[k].entry.start \in Nat
        BY <1>1, LogType
    <2>3. \A k \in 1 .. Len(log) : log[k].ip = i => log[k].entry.start # clock
        BY <1>1, <1>7, <2>2 DEF Opens
    <2>4. Mates(n)' = {n}
        BY <1>6, <2>1, <2>3
    <2>5. SumOver(Weight', {n}) = s
        <3>1. IsFiniteSet({n}) /\ Weighs(Weight', {n}) /\ n \in {n}
            BY <1>3, <2>4
        <3>2. /\ SumOver(Weight', {}) = 0
              /\ SumOver(Weight', {n}) = Weight'[n] + SumOver(Weight', {n} \ {n})
            BY <3>1, SumOfSet
        <3>3. {n} \ {n} = {}
            OBVIOUS
        <3>4. SumOver(Weight', {n}) = s + 0
            BY <1>4, <3>2, <3>3
        <3> QED
            BY <1>1, <3>4
    <2> QED
        BY <1>3, <2>4, <2>5, FS_Singleton DEF Number
<1>8. ASSUME NEW m \in 1 .. Len(log), Continues(i, m)
      PROVE  /\ Mates(n)' = Mates(m) \cup {n}
             /\ Sum(n)' = Sum(m) + s /\ Number(n)' = Number(m) + 1
    <2>1. /\ log[m].ip = i /\ Opened(i).start = log[m].entry.start
          /\ \A k \in m + 1 .. Len(log) : log[k].ip # i
        BY <1>8 DEF Continues, LastOf
    <2>2. Mates(m) = {k \in 1 .. Len(log) : log[k].ip = i /\ log[k].entry.start = Opened(i).start}
        <3>1. 1 .. m \subseteq 1 .. Len(log)
            BY <1>1
        <3>2. \A k \in 1 .. Len(log) : log[k].ip = i => k \in 1 .. m
            BY <1>1, <2>1
        <3> QED
            BY <2>1, <3>1, <3>2 DEF Mates
    <2>3. Mates(n)' = Mates(m) \cup {n} /\ n \notin Mates(m) /\ Mates(m) \in SUBSET (1 .. Len(log))
        BY <1>5, <1>6, <2>2
    <2>4. /\ IsFiniteSet(Mates(m)) /\ Weighs(Weight, Mates(m))
          /\ Sum(m) = SumOver(Weight, Mates(m)) /\ Sum(m) \in Nat /\ Number(m) \in Nat
        BY <1>1, SumsOfMates
    <2>5. SumOver(Weight', Mates(n)') = SumOver(Weight', Mates(m)) + s
        <3>1. Weighs(Weight', Mates(m) \cup {n})
            BY <1>3, <2>3
        <3>2. SumOver(Weight', Mates(m) \cup {n}) = SumOver(Weight', Mates(m)) + Weight'[n]
            <4>1. IsFiniteSet(Mates(m)) /\ n \notin Mates(m)
                BY <2>3, <2>4
            <4> QED
                BY ONLY <3>1, <4>1, SumAdd
        <3> QED
            BY <1>4, <2>3, <3>2
    <2>6. SumOver(Weight', Mates(m)) = SumOver(Weight, Mates(m))
        BY <1>4, <2>3, <2>4, SumSame
    <2>7. Number(n)' = Number(m) + 1
        BY <2>3, <2>4, FS_AddElement DEF Number
    <2> QED
        BY <1>3, <2>3, <2>4, <2>5, <2>6, <2>7
<1> QED
    BY <1>7, <1>8

(* The numbers of the new record are those of its window.                  *)
LEMMA NewCounted ==
    ASSUME SessionInv, NEW i \in Ips, NEW s \in Scores, Grows(i, s), TypeOK',
           NEW n, n = Len(log) + 1
    PROVE  CountedAt(n)'
<1>1. /\ TypeOK /\ Modulus \in Nat \ {0} /\ s \in 0 .. Modulus - 1
      /\ Opened(i).score \in Nat /\ Opened(i).count \in Nat
    BY OpenedType, WidthAssumption DEF SessionInv
<1>2. log'[n].entry.score = (Opened(i).score + s) % Modulus
      /\ log'[n].entry.count = (Opened(i).count + 1) % Modulus
    BY DEF Grows, Left
<1>3. /\ log'[n].entry.score \in Nat
      /\ log'[n].entry.score <= Opened(i).score + s
      /\ Opened(i).score + s < Modulus => log'[n].entry.score = Opened(i).score + s
    <2>1. s \in Nat
        BY <1>1
    <2> QED
        BY <1>1, <1>2, <2>1, Wrapped
<1>4. /\ log'[n].entry.count \in Nat
      /\ log'[n].entry.count <= Opened(i).count + 1
      /\ Opened(i).count + 1 < Modulus => log'[n].entry.count = Opened(i).count + 1
    BY <1>1, <1>2, Wrapped
<1>5. CASE Opens(i)
    <2>1. Mates(n)' = {n} /\ Sum(n)' = s /\ Number(n)' = 1
        BY <1>5, NewMates
    <2>2. Opened(i).score = 0 /\ Opened(i).count \in {0, 1}
        BY <1>5 DEF Opens, New, Reset
    <2>3. log'[n].entry.score <= Sum(n)'
          /\ (Sum(n)' < Modulus => log'[n].entry.score = Sum(n)')
        BY <1>1, <1>3, <2>1, <2>2
    <2>4. log'[n].entry.count <= Number(n)' + 1
          /\ (Number(n)' + 1 < Modulus => log'[n].entry.count >= Number(n)')
        BY <1>1, <1>4, <2>1, <2>2
    <2>5. \A k \in Mates(n)' : log'[k].entry.count <= log'[n].entry.count
        BY <1>4, <2>1
    <2> QED
        BY <2>3, <2>4, <2>5 DEF CountedAt
<1>6. ASSUME NEW m \in 1 .. Len(log), Continues(i, m) PROVE CountedAt(n)'
    <2>1. /\ Mates(n)' = Mates(m) \cup {n}
          /\ Sum(n)' = Sum(m) + s /\ Number(n)' = Number(m) + 1
        BY <1>6, NewMates
    <2>2. Opened(i).score = log[m].entry.score /\ Opened(i).count = log[m].entry.count
        BY <1>6 DEF Continues
    <2>3. CountedAt(m) /\ Sum(m) \in Nat /\ Number(m) \in Nat
        BY SumsOfMates DEF SessionInv, Counted
    <2>4. log'[n].entry.score <= Sum(n)'
          /\ (Sum(n)' < Modulus => log'[n].entry.score = Sum(n)')
        <3>1. /\ Opened(i).score <= Sum(m) /\ (Sum(m) < Modulus => Opened(i).score = Sum(m))
              /\ Sum(n)' = Sum(m) + s /\ s \in Nat
            BY <1>1, <2>1, <2>2, <2>3 DEF CountedAt
        <3> QED
            BY <1>1, <1>3, <2>3, <3>1
    <2>5. log'[n].entry.count <= Number(n)' + 1
          /\ (Number(n)' + 1 < Modulus =>
                 log'[n].entry.count >= Number(n)'
                 /\ log'[n].entry.count = log[m].entry.count + 1)
        <3>1. /\ Opened(i).count <= Number(m) + 1
              /\ Number(m) + 1 < Modulus => Opened(i).count >= Number(m)
              /\ Number(n)' = Number(m) + 1
            BY <2>1, <2>2, <2>3 DEF CountedAt
        <3>2. /\ log'[n].entry.count <= Number(n)' + 1
              /\ Number(n)' + 1 < Modulus =>
                   log'[n].entry.count >= Number(n)'
                   /\ log'[n].entry.count = Opened(i).count + 1
            <4>1. /\ Number(m) \in Nat /\ Modulus \in Nat /\ Opened(i).count \in Nat
                  /\ Number(n)' = Number(m) + 1
                BY <1>1, <2>3, <3>1
            <4> QED
                BY ONLY <1>4, <3>1, <4>1
        <3> QED
            BY <2>2, <3>2
    <2>6. ASSUME Number(n)' + 1 < Modulus, NEW k \in Mates(n)'
          PROVE  log'[k].entry.count <= log'[n].entry.count
        <3>1. CASE k = n
            BY <1>4, <3>1
        <3>2. CASE k \in Mates(m)
            <4>1. k \in 1 .. Len(log) /\ Number(m) + 1 < Modulus
                BY <1>1, <2>1, <2>3, <2>6, <3>2, MatesInLog
            <4>2. log'[k] = log[k] /\ log[k].entry.count <= log[m].entry.count
                BY <2>3, <3>2, <4>1 DEF CountedAt, Grows
            <4>3. log[k].entry.count \in Nat /\ log[m].entry.count \in Nat
                BY <1>1, <4>1, LogType
            <4> QED
                BY <2>5, <2>6, <4>2, <4>3
        <3> QED
            BY <2>1, <3>1, <3>2
    <2> QED
        BY <2>4, <2>5, <2>6 DEF CountedAt
<1> QED
    BY <1>5, <1>6, OpensOrContinues

-----------------------------------------------------------------------------
LEMMA InitInv == Init => SessionInv
<1> SUFFICES ASSUME Init PROVE SessionInv
    OBVIOUS
<1>1. Len(log) = 0 /\ 1 .. Len(log) = {}
    BY DEF Init
<1>2. TypeOK
    BY TimeAssumption DEF Init, TypeOK
<1>3. Current
    BY <1>1 DEF Init, Current
<1> QED
    BY <1>1, <1>2, <1>3 DEF SessionInv, InTime, Apart, Begun, Counted, Answered

LEMMA RecordStep ==
    ASSUME SessionInv, NEW i \in Ips, NEW s \in Scores, Record(i, s)
    PROVE  SessionInv'
<1>1. TypeOK /\ Grows(i, s) /\ TypeOK'
    BY RecordMove DEF SessionInv
<1> DEFINE top == Len(log) + 1
<1>2. PICK n \in Nat : n = top
    BY <1>1, LogType
<1> HIDE DEF top
<1>3. /\ n = Len(log) + 1 /\ Len(log) \in Nat /\ Len(log') = n
      /\ 1 .. n = (1 .. Len(log)) \cup {n} /\ n \notin 1 .. Len(log)
    BY <1>1, <1>2, LogType DEF Grows, top
<1>4. /\ \A k \in 1 .. Len(log) : log'[k] = log[k]
      /\ log'[n].ip = i /\ log'[n].at = clock
      /\ log'[n].entry = Left(i, s) /\ log'[n].entry.start = Opened(i).start
      /\ log'[n].action = Escalate(Left(i, s).score, Left(i, s).count)
      /\ clock' = clock /\ session' = [session EXCEPT ![i] = Left(i, s)]
    BY <1>1, <1>3 DEF Grows, Left
<1>5. clock \in Nat /\ Window \in Nat /\ Opened(i).start \in Nat
    BY <1>1, OpenedType, TimeAssumption DEF TypeOK
<1>6. \A k \in 1 .. Len(log) : /\ log[k].at \in Nat /\ log[k].entry.start \in Nat
                               /\ log[k].at <= clock
    BY <1>1, LogType DEF SessionInv, InTime
<1>7. InTime'
    <2>1. Opened(i).start <= clock /\ clock - Opened(i).start <= Window
        <3>1. CASE Opens(i)
            BY <1>5, <3>1 DEF Opens, New, Reset
        <3>2. ASSUME NEW m \in 1 .. Len(log), Continues(i, m)
              PROVE  Opened(i).start <= clock /\ clock - Opened(i).start <= Window
            <4>1. log[m].entry.start <= log[m].at
                BY DEF SessionInv, InTime
            <4> QED
                BY <1>5, <1>6, <3>2, <4>1 DEF Continues
        <3> QED
            BY <3>1, <3>2, OpensOrContinues
    <2>2. ASSUME NEW k \in 1 .. Len(log)
          PROVE  /\ log'[k].entry.start <= log'[k].at /\ log'[k].at - log'[k].entry.start <= Window
                 /\ log'[k].at <= clock'
                 /\ \A j \in 1 .. k : log'[j].at <= log'[k].at
        <3>1. \A j \in 1 .. k : log'[j] = log[j]
            BY <1>3, <1>4
        <3> QED
            BY <1>4, <3>1 DEF SessionInv, InTime
    <2>3. /\ log'[n].entry.start <= log'[n].at /\ log'[n].at - log'[n].entry.start <= Window
          /\ log'[n].at <= clock'
          /\ \A j \in 1 .. n : log'[j].at <= log'[n].at
        <3>1. /\ log'[n].entry.start <= clock /\ clock - log'[n].entry.start <= Window
              /\ clock <= clock
            BY <1>4, <1>5, <2>1
        <3>2. \A j \in 1 .. n : log'[j].at <= clock
            <4>1. \A j \in 1 .. Len(log) : log'[j].at <= clock
                BY <1>4, <1>6
            <4> QED
                BY <1>3, <1>4, <3>1, <4>1
        <3> QED
            BY <1>4, <3>1, <3>2
    <2> QED
        BY <1>3, <2>2, <2>3 DEF InTime
<1>8. Apart'
    <2>1. ASSUME NEW k \in 1 .. Len(log), log[k].ip = i
          PROVE  \/ log[k].entry.start = Opened(i).start
                 \/ Opened(i).start - log[k].entry.start > Window
        <3>1. CASE Opens(i)
            BY <2>1, <3>1 DEF Opens, New, Reset
        <3>2. ASSUME NEW m \in 1 .. Len(log), Continues(i, m)
              PROVE  \/ log[k].entry.start = Opened(i).start
                     \/ Opened(i).start - log[k].entry.start > Window
            <4>1. k \in 1 .. m /\ log[m].ip = i /\ Opened(i) = log[m].entry
                BY <1>3, <2>1, <3>2 DEF Continues, LastOf
            <4> QED
                BY <2>1, <4>1 DEF SessionInv, Apart
        <3> QED
            BY <3>1, <3>2, OpensOrContinues
    <2>2. ASSUME NEW m \in 1 .. Len(log), NEW k \in 1 .. m, log'[k].ip = log'[m].ip
          PROVE  \/ log'[k].entry.start = log'[m].entry.start
                 \/ log'[m].entry.start - log'[k].entry.start > Window
        <3>1. log'[k] = log[k] /\ log'[m] = log[m]
            BY <1>3, <1>4
        <3> QED
            BY <2>2, <3>1 DEF SessionInv, Apart
    <2>3. ASSUME NEW k \in 1 .. n, log'[k].ip = log'[n].ip
          PROVE  \/ log'[k].entry.start = log'[n].entry.start
                 \/ log'[n].entry.start - log'[k].entry.start > Window
        BY <1>3, <1>4, <2>1, <2>3
    <2> QED
        BY <1>3, <2>2, <2>3 DEF Apart
<1>9. Begun'
    <2>1. ASSUME NEW m \in 1 .. Len(log)
          PROVE  \E k \in Mates(m)' : log'[k].at = log'[m].entry.start
        <3>1. PICK k \in Mates(m) : log[k].at = log[m].entry.start
            BY DEF SessionInv, Begun
        <3>2. Mates(m)' = Mates(m) /\ k \in 1 .. Len(log)
            BY <1>1, OldMates, MatesInLog
        <3> QED
            BY <1>4, <3>1, <3>2
    <2>2. \E k \in Mates(n)' : log'[k].at = log'[n].entry.start
        <3>1. CASE Opens(i)
            <4>1. Mates(n)' = {n} /\ Opened(i).start = clock
                BY <1>1, <1>3, <3>1, NewMates DEF Opens, New, Reset
            <4> QED
                BY <1>4, <4>1
        <3>2. ASSUME NEW m \in 1 .. Len(log), Continues(i, m)
              PROVE  \E k \in Mates(n)' : log'[k].at = log'[n].entry.start
            <4>1. Mates(n)' = Mates(m) \cup {n} /\ Opened(i).start = log[m].entry.start
                BY <1>1, <1>3, <3>2, NewMates DEF Continues
            <4>2. PICK k \in Mates(m) : log[k].at = log[m].entry.start
                BY DEF SessionInv, Begun
            <4>3. k \in 1 .. Len(log)
                BY <1>1, MatesInLog
            <4> QED
                BY <1>4, <4>1, <4>2, <4>3
        <3> QED
            BY <3>1, <3>2, OpensOrContinues
    <2> QED
        BY <1>3, <2>1, <2>2 DEF Begun
<1>10. Current'
    <2>1. ASSUME NEW j \in Ips, j # i
          PROVE  IF session'[j] = NoSession
                 THEN \A k \in 1 .. Len(log') :
                        log'[k].ip = j => clock' - log'[k].entry.start > Window
                 ELSE \E m \in 1 .. Len(log') :
                        /\ log'[m].ip = j /\ \A k \in m + 1 .. Len(log') : log'[k].ip # j
                        /\ session'[j] = log'[m].entry
        <3>1. session'[j] = session[j]
            BY <1>1, <1>4, <2>1 DEF TypeOK
        <3>2. CASE session[j] = NoSession
            BY <1>3, <1>4, <2>1, <3>1, <3>2 DEF SessionInv, Current
        <3>3. CASE session[j] # NoSession
            <4>1. PICK m \in 1 .. Len(log) : LastOf(j, m) /\ session[j] = log[m].entry
                BY <3>3 DEF SessionInv, Current
            <4>2. \A k \in m + 1 .. Len(log') : k = n \/ k \in m + 1 .. Len(log)
                BY <1>3
            <4>3. \A k \in m + 1 .. Len(log) : k \in 1 .. Len(log) /\ log[k].ip # j
                BY <1>3, <4>1 DEF LastOf
            <4>4. \A k \in m + 1 .. Len(log') : log'[k].ip # j
                BY <1>4, <2>1, <4>2, <4>3
            <4>5. m \in 1 .. Len(log') /\ log'[m].ip = j /\ log'[m].entry = session'[j]
                BY <1>3, <1>4, <3>1, <4>1 DEF LastOf
            <4> QED
                BY <3>1, <3>3, <4>4, <4>5
        <3> QED
            BY <3>2, <3>3
    <2>2. session'[i] = Left(i, s) /\ session'[i] # NoSession
        BY <1>1, <1>4, LeftType DEF TypeOK
    <2>3. n \in 1 .. Len(log') /\ n + 1 .. Len(log') = {}
        BY <1>3
    <2> QED
        BY <1>4, <2>1, <2>2, <2>3 DEF Current, LastOf
<1>11. Counted'
    <2>1. \A m \in 1 .. Len(log) : CountedAt(m)'
        BY <1>1, OldMates DEF SessionInv, Counted
    <2>2. CountedAt(n)'
        BY <1>1, <1>3, NewCounted
    <2> QED
        BY <1>3, <2>1, <2>2 DEF Counted
<1>12. Answered'
    <2>1. ASSUME NEW m \in 1 .. Len(log)
          PROVE  log'[m].action = Escalate(log'[m].entry.score, log'[m].entry.count)
        BY <1>4 DEF SessionInv, Answered
    <2> QED
        BY <1>3, <1>4, <2>1 DEF Answered, Escalate
<1> QED
    BY <1>1, <1>7, <1>8, <1>9, <1>10, <1>11, <1>12 DEF SessionInv

(* The other steps leave the log alone.                                    *)
LEMMA SameLog ==
    ASSUME SessionInv, TypeOK', log' = log, clock' \in Nat, clock <= clock', Current'
    PROVE  SessionInv'
<1>1. \A n : Mates(n)' = Mates(n)
    BY DEF Mates
<1>2. InTime'
    <2>1. \A n \in 1 .. Len(log) : log[n].at <= clock /\ log[n].at \in Nat
        BY LogType DEF SessionInv, InTime
    <2>2. clock \in Nat
        BY TimeAssumption DEF SessionInv, TypeOK
    <2>3. \A n \in 1 .. Len(log) : log[n].at <= clock'
        BY <2>1, <2>2
    <2> QED
        BY <2>3 DEF SessionInv, InTime
<1>3. Apart' /\ Answered'
    BY DEF SessionInv, Apart, Answered, Escalate
<1>4. Begun'
    BY <1>1 DEF SessionInv, Begun
<1>5. Counted'
    <2>1. ASSUME NEW n \in 1 .. Len(log) PROVE CountedAt(n)'
        <3>1. Sum(n)' = Sum(n) /\ Number(n)' = Number(n)
            <4>1. Sum(n)' = SumOver(Weight', Mates(n)')
                BY SumsOfMatesNext
            <4>2. Sum(n) = SumOver(Weight, Mates(n))
                BY SumsOfMates DEF SessionInv
            <4>3. Weight' = Weight
                BY DEF Weight
            <4> QED
                BY <1>1, <4>1, <4>2, <4>3 DEF Number
        <3> QED
            BY <1>1, <3>1 DEF SessionInv, Counted, CountedAt
    <2> QED
        BY <2>1 DEF Counted
<1> QED
    BY <1>2, <1>3, <1>4, <1>5 DEF SessionInv

LEMMA PurgeStep ==
    ASSUME SessionInv, PurgeExpired
    PROVE  SessionInv'
<1>1. /\ log' = log /\ clock' = clock /\ clock \in Nat /\ Len(log) \in Nat /\ Window \in Nat
      /\ session \in [Ips -> Entries \cup {NoSession}]
    BY TimeAssumption, LogType DEF SessionInv, TypeOK, PurgeExpired
<1>2. ASSUME NEW i \in Ips
      PROVE  \/ session'[i] = session[i]
             \/ /\ session'[i] = NoSession /\ session[i] # NoSession
                /\ clock - session[i].start > Window
    BY DEF PurgeExpired, Expired
<1>3. TypeOK'
    <2>1. session' \in [Ips -> Entries \cup {NoSession}]
        BY <1>1 DEF PurgeExpired
    <2> QED
        BY <1>1, <2>1 DEF SessionInv, TypeOK
<1>4. Current'
    <2> SUFFICES ASSUME NEW i \in Ips
                 PROVE  IF session'[i] = NoSession
                        THEN \A k \in 1 .. Len(log) :
                               log[k].ip = i => clock - log[k].entry.start > Window
                        ELSE \E m \in 1 .. Len(log) :
                               LastOf(i, m) /\ session'[i] = log[m].entry
        BY <1>1 DEF Current, LastOf
    <2>1. CASE session'[i] = session[i]
        BY <2>1 DEF SessionInv, Current
    <2>2. CASE session'[i] = NoSession /\ session[i] # NoSession
               /\ clock - session[i].start > Window
        <3>1. PICK m \in 1 .. Len(log) : LastOf(i, m) /\ session[i] = log[m].entry
            BY <2>2 DEF SessionInv, Current
        <3>2. ASSUME NEW k \in 1 .. Len(log), log[k].ip = i
              PROVE  clock - log[k].entry.start > Window
            <4>1. k \in 1 .. m /\ log[m].ip = i
                BY <1>1, <3>1, <3>2 DEF LastOf
            <4>2. \/ log[k].entry.start = log[m].entry.start
                  \/ log[m].entry.start - log[k].entry.start > Window
                BY <3>2, <4>1 DEF SessionInv, Apart
            <4>3. log[k].entry.start \in Nat /\ log[m].entry.start \in Nat
                BY LogType DEF SessionInv
            <4> QED
                BY <1>1, <2>2, <3>1, <4>2, <4>3
        <3> QED
            BY <2>2, <3>2
    <2> QED
        BY <1>2, <2>1, <2>2
<1> QED
    BY <1>1, <1>3, <1>4, SameLog

LEMMA TickStep ==
    ASSUME SessionInv, Tick
    PROVE  SessionInv'
<1>1. /\ log' = log /\ session' = session /\ clock' = clock + 1 /\ clock \in Nat
      /\ Window \in Nat
    BY TimeAssumption DEF SessionInv, TypeOK, Tick
<1>2. TypeOK'
    <2>1. clock' \in 0 .. MaxClock
        BY TimeAssumption DEF SessionInv, TypeOK, Tick
    <2> QED
        BY <1>1, <2>1 DEF SessionInv, TypeOK
<1>3. Current'
    <2>1. \A k \in 1 .. Len(log) :
            clock - log[k].entry.start > Window => clock' - log[k].entry.start > Window
        <3> SUFFICES ASSUME NEW k \in 1 .. Len(log), clock - log[k].entry.start > Window
                     PROVE  clock' - log[k].entry.start > Window
            OBVIOUS
        <3>1. log[k].entry.start \in Nat
            BY LogType DEF SessionInv
        <3> QED
            BY <1>1, <3>1
    <2> QED
        BY <1>1, <2>1 DEF SessionInv, Current, LastOf
<1> QED
    BY <1>1, <1>2, <1>3, SameLog

LEMMA NextInv == SessionInv /\ [Next]_vars => SessionInv'
<1> SUFFICES ASSUME SessionInv, [Next]_vars PROVE SessionInv'
    OBVIOUS
<1>1. CASE Next
    BY <1>1, RecordStep, PurgeStep, TickStep DEF Next
<1>2. CASE UNCHANGED vars
    <2>1. log' = log /\ session' = session /\ clock' = clock /\ clock \in Nat
        BY <1>2, TimeAssumption DEF SessionInv, TypeOK, vars
    <2>2. TypeOK' /\ Current'
        BY <2>1 DEF SessionInv, TypeOK, Current, LastOf
    <2> QED
        BY <2>1, <2>2, SameLog
<1> QED
    BY <1>1, <1>2

LEMMA SessionInductive == Spec => []SessionInv
BY InitInv, NextInv, PTL DEF Spec

(* Types, for every instance.                                              *)
THEOREM SessionTyped == Spec => []TypeOK
<1>1. SessionInv => TypeOK
    BY DEF SessionInv
<1> QED
    BY <1>1, SessionInductive, PTL

-----------------------------------------------------------------------------
(* What a window holds, the last Window holds.                             *)
LEMMA SlidingInLog ==
    ASSUME SessionInv, NEW n \in 1 .. Len(log)
    PROVE  /\ Sliding(log[n].ip, n) \in SUBSET (1 .. Len(log))
           /\ Mates(n) \subseteq Sliding(log[n].ip, n)
           /\ n \in Sliding(log[n].ip, n)
<1>1. 1 .. n \subseteq 1 .. Len(log) /\ n \in 1 .. n /\ Window \in Nat
    BY LogType, TimeAssumption DEF SessionInv
<1>2. ASSUME NEW k \in Mates(n) PROVE log[n].at - log[k].at <= Window
    <2>1. k \in 1 .. Len(log) /\ log[k].entry.start = log[n].entry.start
        BY <1>1 DEF Mates
    <2>2. log[k].entry.start <= log[k].at /\ log[n].at - log[n].entry.start <= Window
        BY <2>1 DEF SessionInv, InTime
    <2>3. log[k].at \in Nat /\ log[n].at \in Nat /\ log[k].entry.start \in Nat
        BY <2>1, LogType DEF SessionInv
    <2> QED
        BY <1>1, <2>1, <2>2, <2>3
<1>3. n \in Mates(n)
    BY MatesInLog DEF SessionInv
<1> QED
    BY <1>1, <1>2, <1>3 DEF Sliding, Mates

(* More records have the larger total and the larger number.               *)
LEMMA TotalMonotone ==
    ASSUME TypeOK, NEW S \in SUBSET (1 .. Len(log)), NEW T \in SUBSET S
    PROVE  /\ Total(T) <= Total(S) /\ Cardinality(T) <= Cardinality(S)
           /\ Total(T) \in Nat /\ Total(S) \in Nat
           /\ Cardinality(T) \in Nat /\ Cardinality(S) \in Nat
           /\ IsFiniteSet(S)
<1>1. T \in SUBSET (1 .. Len(log))
    OBVIOUS
<1>2. /\ IsFiniteSet(S) /\ Weighs(Weight, S) /\ Total(S) = SumOver(Weight, S)
      /\ IsFiniteSet(T) /\ Weighs(Weight, T) /\ Total(T) = SumOver(Weight, T)
    BY <1>1, TotalIsSum
<1>3. SumOver(Weight, T) <= SumOver(Weight, S)
    BY <1>2, SumMonotone
<1>4. SumOver(Weight, T) \in Nat /\ SumOver(Weight, S) \in Nat
    BY <1>2, SumOfSet
<1>5. Cardinality(T) <= Cardinality(S) /\ Cardinality(T) \in Nat /\ Cardinality(S) \in Nat
    BY <1>2, FS_Subset, FS_CardinalityType
<1> QED
    BY <1>2, <1>3, <1>4, <1>5

(* A Challenge or Block rests on what the client did in the last Window    *)
(* (session.rs:123-146), whatever wraps: a total that wraps is too small.  *)
THEOREM EscalationIsEarned == Spec => []EscalationEarned
<1>1. ASSUME SessionInv, NEW n \in 1 .. Len(log), NEW S, S = Sliding(log[n].ip, n)
      PROVE  /\ log[n].action = "Challenge" => Total(S) >= Challenge
             /\ log[n].action = "Block" =>
                  Total(S) >= Block \/ Cardinality(S) >= MaxRequests
    <2>1. /\ log[n].entry.score <= Total(Mates(n))
          /\ log[n].entry.count <= Cardinality(Mates(n)) + 1
          /\ log[n].action = Escalate(log[n].entry.score, log[n].entry.count)
        BY <1>1 DEF SessionInv, Counted, CountedAt, Answered, Sum, Number
    <2>2. S \in SUBSET (1 .. Len(log)) /\ Mates(n) \in SUBSET S
        BY <1>1, SlidingInLog
    <2>3. /\ Total(Mates(n)) <= Total(S) /\ Cardinality(Mates(n)) <= Cardinality(S)
          /\ Total(Mates(n)) \in Nat /\ Total(S) \in Nat
          /\ Cardinality(Mates(n)) \in Nat /\ Cardinality(S) \in Nat
        BY <1>1, <2>2, TotalMonotone DEF SessionInv
    <2>4. log[n].entry.score \in Nat /\ log[n].entry.count \in Nat
        BY <1>1, LogType DEF SessionInv
    <2>5. Challenge \in Nat /\ Block \in Nat /\ MaxRequests \in Nat
        BY ThresholdAssumption
    <2>6. log[n].action = "Challenge" => log[n].entry.score >= Challenge
        BY <2>1 DEF Escalate
    <2>7. log[n].action = "Block" =>
            log[n].entry.score >= Block \/ log[n].entry.count > MaxRequests
        BY <2>1 DEF Escalate
    <2>8. log[n].action = "Challenge" => Total(S) >= Challenge
        BY <2>1, <2>3, <2>4, <2>5, <2>6
    <2>9. log[n].action = "Block" => Total(S) >= Block \/ Cardinality(S) >= MaxRequests
        BY <2>1, <2>3, <2>4, <2>5, <2>7
    <2> QED
        BY <2>8, <2>9
<1>2. SessionInv => EscalationEarned
    BY <1>1 DEF EscalationEarned
<1> QED
    BY <1>2, SessionInductive, PTL

(* While nothing wraps, the entry's numbers are the window's.              *)
LEMMA FitsExactly ==
    ASSUME SessionInv, Fits, NEW n \in 1 .. Len(log)
    PROVE  /\ log[n].entry.score = Total(Mates(n))
           /\ log[n].entry.count >= Cardinality(Mates(n))
           /\ \A k \in Mates(n) : log[k].entry.count <= log[n].entry.count
<1> DEFINE S == Sliding(log[n].ip, n)
<1>1. S \in SUBSET (1 .. Len(log)) /\ Mates(n) \in SUBSET S
    BY SlidingInLog
<1>2. Total(S) < Modulus /\ Cardinality(S) + 1 < Modulus
    BY DEF Fits
<1> HIDE DEF S
<1>3. /\ Total(Mates(n)) <= Total(S) /\ Cardinality(Mates(n)) <= Cardinality(S)
      /\ Total(Mates(n)) \in Nat /\ Total(S) \in Nat
      /\ Cardinality(Mates(n)) \in Nat /\ Cardinality(S) \in Nat
    BY <1>1, TotalMonotone DEF SessionInv
<1>4. Total(Mates(n)) < Modulus /\ Cardinality(Mates(n)) + 1 < Modulus
    BY <1>2, <1>3, WidthAssumption
<1> QED
    BY <1>4 DEF SessionInv, Counted, CountedAt, Sum, Number

LEMMA EscalateRises ==
    ASSUME NEW x \in Nat, NEW y \in Nat, x <= y, NEW c \in Nat, NEW d \in Nat, c <= d
    PROVE  Rank[Escalate(x, c)] <= Rank[Escalate(y, d)]
<1>1. Warn \in Nat /\ Challenge \in Nat /\ Block \in Nat /\ MaxRequests \in Nat
    BY ThresholdAssumption
<1>2. Rank["Normal"] = 0 /\ Rank["Suspicious"] = 1 /\ Rank["Challenge"] = 2 /\ Rank["Block"] = 3
    BY DEF Rank
<1>3. CASE c > MaxRequests \/ x >= Block
    <2>1. d > MaxRequests \/ y >= Block
        BY <1>1, <1>3
    <2>2. Escalate(x, c) = "Block" /\ Escalate(y, d) = "Block"
        BY <1>3, <2>1 DEF Escalate
    <2> QED
        BY <1>2, <2>2
<1>4. CASE ~(c > MaxRequests \/ x >= Block) /\ x >= Challenge
    <2>1. y >= Challenge /\ Escalate(x, c) = "Challenge"
        BY <1>1, <1>4 DEF Escalate
    <2>2. Escalate(y, d) \in {"Challenge", "Block"}
        BY <2>1 DEF Escalate
    <2> QED
        BY <1>2, <2>1, <2>2
<1>5. CASE ~(c > MaxRequests \/ x >= Block) /\ ~(x >= Challenge) /\ x >= Warn
    <2>1. y >= Warn /\ Escalate(x, c) = "Suspicious"
        BY <1>1, <1>5 DEF Escalate
    <2>2. Escalate(y, d) \in {"Suspicious", "Challenge", "Block"}
        BY <2>1 DEF Escalate
    <2> QED
        BY <1>2, <2>1, <2>2
<1>6. CASE ~(c > MaxRequests \/ x >= Block) /\ ~(x >= Challenge) /\ ~(x >= Warn)
    <2>1. Escalate(x, c) = "Normal"
        BY <1>6 DEF Escalate
    <2>2. Escalate(y, d) \in {"Normal", "Suspicious", "Challenge", "Block"}
        BY DEF Escalate
    <2> QED
        BY <1>2, <2>1, <2>2
<1> QED
    BY <1>3, <1>4, <1>5, <1>6

(* Within a window the answers never become milder.                        *)
LEMMA RisesWithinWindow ==
    ASSUME SessionInv, Fits, NEW n \in 1 .. Len(log), NEW k \in Mates(n)
    PROVE  Rank[log[k].action] <= Rank[log[n].action]
<1>1. k \in 1 .. Len(log) /\ 1 .. k \subseteq 1 .. n /\ Mates(n) \in SUBSET (1 .. Len(log))
    <2>1. Mates(n) \in SUBSET (1 .. Len(log)) /\ n \in Nat /\ k \in 1 .. n
        BY MatesInLog, LogType DEF SessionInv, Mates
    <2> QED
        BY <2>1
<1>2. Mates(k) \subseteq Mates(n)
    BY <1>1 DEF Mates
<1>3. Total(Mates(k)) <= Total(Mates(n))
    BY <1>1, <1>2, TotalMonotone DEF SessionInv
<1>4. log[k].entry.score <= log[n].entry.score /\ log[k].entry.count <= log[n].entry.count
    BY <1>1, <1>3, FitsExactly
<1>5. /\ log[k].entry.score \in Nat /\ log[n].entry.score \in Nat
      /\ log[k].entry.count \in Nat /\ log[n].entry.count \in Nat
    BY <1>1, LogType DEF SessionInv
<1>6. /\ log[k].action = Escalate(log[k].entry.score, log[k].entry.count)
      /\ log[n].action = Escalate(log[n].entry.score, log[n].entry.count)
    BY <1>1 DEF SessionInv, Answered
<1> QED
    BY <1>4, <1>5, <1>6, EscalateRises

(* Until its window has expired a client is never treated more mildly than *)
(* before (session.rs:123-146), as long as what it does within a window    *)
(* fits the counters.                                                      *)
THEOREM EscalationNeverStepsBack == Spec => [](Fits => NoStepBack)
<1>1. ASSUME SessionInv, Fits, NEW n \in 1 .. Len(log), NEW k \in 1 .. n - 1,
             log[k].ip = log[n].ip, Rank[log[n].action] < Rank[log[k].action]
      PROVE  \E m \in k + 1 .. n, j \in 1 .. k :
                /\ log[m].ip = log[n].ip /\ log[j].ip = log[n].ip
                /\ log[m].at - log[j].at > Window
                /\ log[n].at - log[m].at <= Window
    <2>1. k \in 1 .. Len(log) /\ k \in 1 .. n /\ Len(log) \in Nat
        BY <1>1, LogType DEF SessionInv
    <2>2. log[k].entry.start # log[n].entry.start
        <3>1. SUFFICES ASSUME log[k].entry.start = log[n].entry.start PROVE FALSE
            OBVIOUS
        <3>2. k \in Mates(n)
            BY <1>1, <2>1, <3>1 DEF Mates
        <3>3. Rank[log[k].action] <= Rank[log[n].action]
            BY <1>1, <3>2, RisesWithinWindow
        <3>4. log[k].action \in Actions /\ log[n].action \in Actions
            BY <1>1, <2>1 DEF SessionInv, Answered, Escalate, Actions
        <3>5. \A a \in Actions : Rank[a] \in Nat
            BY DEF Rank, Actions
        <3> QED
            BY <1>1, <3>3, <3>4, <3>5
    <2>3. log[n].entry.start - log[k].entry.start > Window
        BY <1>1, <2>1, <2>2 DEF SessionInv, Apart
    <2>4. PICK m \in Mates(n) : log[m].at = log[n].entry.start
        BY <1>1 DEF SessionInv, Begun
    <2>5. PICK j \in Mates(k) : log[j].at = log[k].entry.start
        BY <1>1, <2>1 DEF SessionInv, Begun
    <2>6. /\ m \in 1 .. n /\ m \in 1 .. Len(log) /\ log[m].ip = log[n].ip
          /\ j \in 1 .. k /\ log[j].ip = log[n].ip
        BY <1>1, <2>1, <2>4, <2>5 DEF Mates
    <2>7. /\ log[n].entry.start \in Nat /\ log[k].entry.start \in Nat /\ log[k].at \in Nat
          /\ Window \in Nat
          /\ log[k].at - log[k].entry.start <= Window
          /\ log[n].at - log[n].entry.start <= Window
        BY <1>1, <2>1, LogType, TimeAssumption DEF SessionInv, InTime
    <2>8. m \in k + 1 .. n
        <3>1. log[k].at < log[m].at
            BY <2>3, <2>4, <2>7
        <3>2. m \in 1 .. k => log[m].at <= log[k].at
            BY <1>1, <2>1 DEF SessionInv, InTime
        <3>3. m \notin 1 .. k
            BY <2>4, <2>7, <3>1, <3>2
        <3> QED
            BY <2>1, <2>6, <3>3
    <2>9. log[m].at - log[j].at > Window /\ log[n].at - log[m].at <= Window
        BY <2>3, <2>4, <2>5, <2>7
    <2> QED
        BY <2>6, <2>8, <2>9
<1>2. SessionInv => (Fits => NoStepBack)
    BY <1>1 DEF NoStepBack
<1> QED
    BY <1>2, SessionInductive, PTL

(* Records without a Block, all of the window of the last of them, stay    *)
(* below the thresholds.                                                   *)
LEMMA BelowWithoutBlock ==
    ASSUME SessionInv, Fits, NEW n \in 1 .. Len(log), log[n].action # "Block",
           NEW S \in SUBSET Mates(n)
    PROVE  Total(S) < Block /\ Cardinality(S) <= MaxRequests
<1>1. Mates(n) \in SUBSET (1 .. Len(log))
    BY MatesInLog DEF SessionInv
<1>2. /\ Total(S) <= Total(Mates(n)) /\ Cardinality(S) <= Cardinality(Mates(n))
      /\ Total(Mates(n)) \in Nat /\ Total(S) \in Nat
      /\ Cardinality(Mates(n)) \in Nat /\ Cardinality(S) \in Nat
    BY <1>1, TotalMonotone DEF SessionInv
<1>3. log[n].entry.score < Block /\ log[n].entry.count <= MaxRequests
    <2>1. ~(log[n].entry.count > MaxRequests \/ log[n].entry.score >= Block)
        BY DEF SessionInv, Answered, Escalate
    <2>2. log[n].entry.count \in Nat /\ log[n].entry.score \in Nat
        BY LogType DEF SessionInv
    <2> QED
        BY <2>1, <2>2, ThresholdAssumption
<1>4. /\ log[n].entry.score = Total(Mates(n))
      /\ log[n].entry.count >= Cardinality(Mates(n)) /\ log[n].entry.count \in Nat
    BY FitsExactly, LogType DEF SessionInv
<1>5. Block \in Nat /\ MaxRequests \in Nat
    BY ThresholdAssumption
<1> QED
    BY <1>2, <1>3, <1>4, <1>5

(* A record of the last Window cannot belong to a window that was over     *)
(* when the one before the last began.                                     *)
LEMMA NoRoom ==
    ASSUME NEW w \in Nat, NEW s \in Nat, NEW seen \in Nat, NEW t \in Nat, NEW u \in Nat,
           NEW now \in Nat,
           seen - s <= w, u <= now, now - seen <= w, u - t > w
    PROVE  ~(t - s > w)
OBVIOUS

(* Any Window meets at most two windows of the tracker.                    *)
LEMMA TwoWindows ==
    ASSUME SessionInv, NEW n \in 1 .. Len(log),
           NEW rest, rest = Sliding(log[n].ip, n) \ Mates(n), rest # {}
    PROVE  \E m \in rest : rest \subseteq Mates(m)
<1>1. rest \in SUBSET (1 .. n) /\ 1 .. n \in SUBSET (1 .. Len(log)) /\ n \in Nat
      /\ Window \in Nat
    BY LogType, TimeAssumption DEF SessionInv, Sliding
<1>2. PICK m \in rest : \A k \in rest : k <= m
    <2>1. rest \in SUBSET Nat /\ \A k \in rest : k <= n
        BY <1>1
    <2> QED
        BY <1>1, <2>1, LargestNumber
<1>3. ASSUME NEW k \in rest
      PROVE  /\ k \in 1 .. Len(log) /\ log[k].ip = log[n].ip
             /\ log[n].at - log[k].at <= Window
             /\ log[n].entry.start - log[k].entry.start > Window
    <2>1. k \in 1 .. n /\ k \in 1 .. Len(log) /\ log[k].ip = log[n].ip
          /\ log[n].at - log[k].at <= Window /\ k \notin Mates(n)
        BY <1>1 DEF Sliding
    <2>2. log[k].entry.start # log[n].entry.start
        BY <2>1 DEF Mates
    <2> QED
        BY <2>1, <2>2 DEF SessionInv, Apart
<1>4. ASSUME NEW k \in rest PROVE k \in Mates(m)
    <2>1. k \in 1 .. m /\ log[k].ip = log[m].ip /\ k \in 1 .. Len(log) /\ m \in 1 .. Len(log)
        BY <1>1, <1>2, <1>3
    <2>2. \/ log[k].entry.start = log[m].entry.start
          \/ log[m].entry.start - log[k].entry.start > Window
        BY <2>1 DEF SessionInv, Apart
    <2>3. /\ log[k].at - log[k].entry.start <= Window
          /\ log[n].entry.start <= log[n].at
        BY <2>1 DEF SessionInv, InTime
    <2>4. /\ log[n].at - log[k].at <= Window
          /\ log[n].entry.start - log[m].entry.start > Window
        BY <1>3
    <2>5. /\ log[k].at \in Nat /\ log[n].at \in Nat /\ log[k].entry.start \in Nat
          /\ log[m].entry.start \in Nat /\ log[n].entry.start \in Nat
        BY <2>1, LogType DEF SessionInv
    <2>6. ~(log[m].entry.start - log[k].entry.start > Window)
        <3>1. Window \in Nat
            BY <1>1
        <3> QED
            BY <2>3, <2>4, <2>5, <3>1, NoRoom
    <2> QED
        BY <2>1, <2>2, <2>6 DEF Mates
<1> QED
    BY <1>4

(* What the tumbling window of session.rs:123-128 still guarantees: twice  *)
(* a threshold within any Window does not go without a Block, as long as   *)
(* the counters do not wrap.                                               *)
THEOREM TwiceIsCaught == Spec => [](Fits => TwiceTheThresholdIsCaught)
<1>1. ASSUME SessionInv, Fits, NEW n \in 1 .. Len(log), NEW S, S = Sliding(log[n].ip, n),
             Total(S) >= 2 * Block - 1 \/ Cardinality(S) > 2 * MaxRequests
      PROVE  \E k \in S : log[k].action = "Block"
    <2> SUFFICES ASSUME \A k \in S : log[k].action # "Block" PROVE FALSE
        OBVIOUS
    <2> DEFINE rest == S \ Mates(n)
    <2>1. S \in SUBSET (1 .. Len(log)) /\ Mates(n) \in SUBSET S /\ n \in S
        BY <1>1, SlidingInLog
    <2>2. Total(Mates(n)) < Block /\ Cardinality(Mates(n)) <= MaxRequests
        BY <1>1, <2>1, BelowWithoutBlock
    <2>3. Total(rest) < Block /\ Cardinality(rest) <= MaxRequests
        <3>1. CASE rest = {}
            <4>1. {} \in SUBSET Mates(n)
                OBVIOUS
            <4>2. Total({}) < Block /\ Cardinality({}) <= MaxRequests
                BY <1>1, <2>1, <4>1, BelowWithoutBlock
            <4> QED
                BY <3>1, <4>2
        <3>2. CASE rest # {}
            <4>1. PICK m \in rest : rest \subseteq Mates(m)
                BY <1>1, <3>2, TwoWindows
            <4> QED
                BY <1>1, <2>1, <4>1, BelowWithoutBlock
        <3> QED
            BY <3>1, <3>2
    <2>4. /\ Total(S) = Total(Mates(n)) + Total(rest)
          /\ Cardinality(S) = Cardinality(Mates(n)) + Cardinality(rest)
          /\ Total(Mates(n)) \in Nat /\ Total(rest) \in Nat
          /\ Cardinality(Mates(n)) \in Nat /\ Cardinality(rest) \in Nat
        <3>1. S = Mates(n) \cup rest /\ Mates(n) \cap rest = {}
              /\ rest \in SUBSET S /\ rest \in SUBSET (1 .. Len(log))
              /\ Mates(n) \in SUBSET (1 .. Len(log))
            BY <2>1
        <3> HIDE DEF rest
        <3>2. /\ IsFiniteSet(S) /\ Weighs(Weight, S) /\ Total(S) = SumOver(Weight, S)
              /\ IsFiniteSet(Mates(n)) /\ Total(Mates(n)) = SumOver(Weight, Mates(n))
              /\ IsFiniteSet(rest) /\ Total(rest) = SumOver(Weight, rest)
            BY <1>1, <2>1, <3>1, TotalIsSum DEF SessionInv
        <3>3. Total(S) = Total(Mates(n)) + Total(rest)
            BY <3>1, <3>2, SumDisjoint
        <3>4. Cardinality(S) = Cardinality(Mates(n)) + Cardinality(rest)
            <4>1. Cardinality(Mates(n) \cup rest)
                    = Cardinality(Mates(n)) + Cardinality(rest) - Cardinality(Mates(n) \cap rest)
                BY <3>2, FS_Union
            <4>2. Cardinality({}) = 0 /\ Cardinality(Mates(n)) \in Nat /\ Cardinality(rest) \in Nat
                BY <3>2, FS_EmptySet, FS_CardinalityType
            <4>3. Cardinality(S) = Cardinality(Mates(n)) + Cardinality(rest) - Cardinality({})
                BY <3>1, <4>1, Zenon
            <4> QED
                BY <4>2, <4>3
        <3>5. /\ Total(Mates(n)) \in Nat /\ Total(rest) \in Nat
              /\ Cardinality(Mates(n)) \in Nat /\ Cardinality(rest) \in Nat
            BY <1>1, <2>1, <3>1, TotalMonotone DEF SessionInv
        <3> QED
            BY <3>3, <3>4, <3>5
    <2>5. Block \in Nat /\ MaxRequests \in Nat
        BY ThresholdAssumption
    <2> HIDE DEF rest
    <2> QED
        BY <1>1, <2>2, <2>3, <2>4, <2>5
<1>2. SessionInv => (Fits => TwiceTheThresholdIsCaught)
    BY <1>1 DEF TwiceTheThresholdIsCaught
<1> QED
    BY <1>2, SessionInductive, PTL
=============================================================================
