------------------------ MODULE FundingWalletProofs -------------------------
(***************************************************************************)
(* Proofs about the funding wallet, for any channels, coins, fee rates and *)
(* weights, and any number of restarts from the wallet file.               *)
(***************************************************************************)
EXTENDS FundingWallet, FiniteSetTheorems, TLAPS

(* What is known of the data without computing amounts.                      *)
WalletTypeOK ==
    /\ launchers \subseteq Chan /\ utxos \subseteq Outpoints
    /\ psbt = [c \in Chan |-> psbt[c]]
    /\ funding = [c \in Chan |-> funding[c]]
    /\ \A c \in Chan : psbt[c].index \in Nat
    /\ pending_fundings \in [Chan -> SUBSET Outpoints]
    /\ disk.pending \in [Chan -> SUBSET Outpoints]
    /\ last_change_index \in Nat /\ disk.index \in Nat

(* The coins of a live funding are on record and unspent, and no other live  *)
(* funding has them.                                                         *)
CoinsOK ==
    \A c \in launchers :
        /\ funding[c] = "pending"
        /\ pending_fundings[c] = psbt[c].inputs
        /\ psbt[c].inputs \subseteq utxos
        /\ \A d \in launchers \ {c} : psbt[c].inputs \cap psbt[d].inputs = {}

(* Only a published funding has change; change on record as taken has an     *)
(* index that is used up, in memory and in the file alike.                   *)
ChangeOK ==
    \A d \in Chan :
        /\ Change(d) \in utxos => funding[d] = "published"
        /\ \A e \in Chan :
            /\ Change(d) \in pending_fundings[e] =>
                   /\ funding[d] = "published"
                   /\ psbt[d].index < last_change_index
            /\ Change(d) \in disk.pending[e] =>
                   /\ funding[d] = "published"
                   /\ psbt[d].index < disk.index

(* The index of a live funding is used up.                                   *)
IndexOK ==
    /\ \A c \in launchers : psbt[c].index < last_change_index
    /\ ChangeIsFresh

IInv == WalletTypeOK /\ CoinsOK /\ ChangeOK /\ IndexOK

-----------------------------------------------------------------------------
(* A set of subsets of a finite set has a minimal element.                   *)
LEMMA SmallestSubset ==
    ASSUME NEW S, IsFiniteSet(S), NEW Bad, Bad \subseteq SUBSET S, Bad # {}
    PROVE  \E T \in Bad : \A U \in Bad : <<U, T>> \notin StrictSubsetOrdering(S)
<1>1. IsWellFoundedOn(StrictSubsetOrdering(S), SUBSET S)
  BY Zenon, FS_StrictSubsetOrderingWellFounded, FS_FiniteSubsetsOfFinite
<1> QED
  BY Zenon, <1>1, WFMin

(* A natural number and the values of a function on a finite set have a      *)
(* maximum: a smallest subset without one would have one.                    *)
LEMMA MaxExists ==
    ASSUME NEW D, IsFiniteSet(D), NEW f \in [D -> Nat], NEW n \in Nat
    PROVE  \E m \in {n} \cup {f[d] : d \in D} :
               /\ m \in Nat
               /\ m >= n
               /\ \A d \in D : m >= f[d]
<1> DEFINE IsMax(m, T) == /\ m \in {n} \cup {f[d] : d \in T}
                          /\ m >= n /\ \A d \in T : m >= f[d]
           Bad == {T \in SUBSET D : \A m \in Nat : ~IsMax(m, T)}
<1>1. Bad = {}
  <2> SUFFICES ASSUME Bad # {} PROVE FALSE
    BY Zenon
  <2>2. PICK T \in Bad : \A U \in Bad : <<U, T>> \notin StrictSubsetOrdering(D)
    <3> HIDE DEF IsMax
    <3>1. Bad \subseteq SUBSET D
      BY Zenon
    <3> HIDE DEF Bad
    <3> QED
      BY Zenon, <3>1, SmallestSubset
  <2>3. CASE T = {}
    <3>1. IsMax(n, T)
      BY <2>3
    <3> QED
      BY Zenon, <3>1
  <2>4. CASE T # {}
    <3>1. PICK x \in T : TRUE
      BY Zenon, <2>4
    <3>2. T \ {x} \in SUBSET D /\ x \in D /\ f[x] \in Nat
      BY Zenon, <3>1
    <3>3. <<T \ {x}, T>> \in StrictSubsetOrdering(D)
      BY Zenon, <3>1, <3>2 DEF StrictSubsetOrdering
    <3>4. PICK m \in Nat : IsMax(m, T \ {x})
      BY Zenon, <2>2, <3>2, <3>3
    <3>5. CASE m >= f[x]
      <4>1. IsMax(m, T)
        BY Zenon, <3>4, <3>5
      <4> QED
        BY Zenon, <4>1
    <3>6. CASE m < f[x]
      <4>1. \A d \in T : f[d] \in Nat
        BY Zenon, <3>1
      <4>2. IsMax(f[x], T)
        BY <3>1, <3>2, <3>4, <3>6, <4>1
      <4> QED
        BY Zenon, <3>2, <4>2
    <3> QED
      BY <3>2, <3>5, <3>6
  <2> QED
    BY Zenon, <2>3, <2>4
<1> QED
  BY Zenon, <1>1

(* The scan gives an index past the last one handed out, and past that of    *)
(* every change it offers.                                                   *)
LEMMA ScannedIndexFacts ==
    ASSUME WalletTypeOK
    PROVE  /\ ScannedIndex \in Nat
           /\ ScannedIndex >= last_change_index
           /\ \A d \in Chan : Change(d) \in Available =>
                  ScannedIndex > psbt[d].index
<1> DEFINE D == {d \in Chan : Change(d) \in Available}
           f == [d \in D |-> psbt[d].index + 1]
           S == {last_change_index} \cup {psbt[c].index + 1 : c \in D}
<1>1. /\ \A d \in D : psbt[d].index \in Nat
      /\ last_change_index \in Nat
  BY Zenon DEF WalletTypeOK
<1>2. IsFiniteSet(D)
  BY Zenon, FS_Subset, WalletAssumption
<1> HIDE DEF D
<1>3. f \in [D -> Nat]
  BY <1>1
<1>4. \E m \in S : m \in Nat /\ \A y \in S : m >= y
  <2>1. PICK m \in {last_change_index} \cup {f[d] : d \in D} :
            m \in Nat /\ m >= last_change_index /\ \A d \in D : m >= f[d]
    <3> HIDE DEF f
    <3> QED
      BY Zenon, <1>1, <1>2, <1>3, MaxExists
  <2> QED
    BY Zenon, <2>1
<1>5. Max(S) \in S /\ \A y \in S : Max(S) >= y
  BY Zenon, <1>4 DEF Max
<1>6. ScannedIndex = Max(S)
  BY Zenon DEF ScannedIndex, D
<1>7. /\ ScannedIndex \in Nat /\ ScannedIndex >= last_change_index
      /\ \A d \in D : ScannedIndex >= psbt[d].index + 1
  BY <1>1, <1>5, <1>6
<1> QED
  BY <1>1, <1>7 DEF D

-----------------------------------------------------------------------------
(* The value of coins.                                                      *)

(* g sums up the values v of the elements of each subset of T, in the order  *)
(* in which CHOOSE takes them.                                               *)
First(s) == CHOOSE x \in s : TRUE

SumsUp(g, T, v) ==
    g = [s \in SUBSET T |->
            IF s = {} THEN 0 ELSE v[First(s)] + g[s \ {First(s)}]]

LEMMA FirstFacts ==
    ASSUME NEW S, NEW s \in SUBSET S, s # {}
    PROVE  /\ First(s) \in s /\ s \ {First(s)} \in SUBSET S
           /\ <<s \ {First(s)}, s>> \in StrictSubsetOrdering(S)
<1>1. First(s) \in s
  BY Zenon DEF First
<1> QED
  BY Zenon, <1>1 DEF StrictSubsetOrdering

(* Such sums are unique: a smallest subset they differ on would have a       *)
(* smaller one.                                                              *)
LEMMA SumsAgree ==
    ASSUME NEW S, IsFiniteSet(S), NEW v, NEW T \in SUBSET S, NEW U \in SUBSET S,
           NEW g, NEW h, SumsUp(g, T, v), SumsUp(h, U, v),
           NEW s \in SUBSET T, s \in SUBSET U
    PROVE  g[s] = h[s]
<1> DEFINE Bad == {r \in SUBSET S : r \subseteq T /\ r \subseteq U /\ g[r] # h[r]}
<1> SUFFICES ASSUME s \in Bad PROVE FALSE
  BY Zenon
<1>1. PICK r \in Bad : \A q \in Bad : <<q, r>> \notin StrictSubsetOrdering(S)
  <2>1. Bad \subseteq SUBSET S /\ Bad # {}
    BY Zenon
  <2> HIDE DEF Bad
  <2> QED
    BY Zenon, <2>1, SmallestSubset
<1>2. r \in SUBSET S /\ r \in SUBSET T /\ r \in SUBSET U /\ g[r] # h[r]
  BY Zenon
<1>3. /\ g[r] = IF r = {} THEN 0 ELSE v[First(r)] + g[r \ {First(r)}]
      /\ h[r] = IF r = {} THEN 0 ELSE v[First(r)] + h[r \ {First(r)}]
  BY Zenon, <1>2 DEF SumsUp
<1>4. r # {} /\ g[r \ {First(r)}] # h[r \ {First(r)}]
  BY Zenon, <1>2, <1>3
<1>5. r \ {First(r)} \in Bad
  BY Zenon, <1>2, <1>4
<1> QED
  BY Zenon, <1>1, <1>2, <1>4, <1>5, FirstFacts

(* And they exist, on the subsets of every finite set.                       *)
LEMMA SumsExist ==
    ASSUME NEW S, IsFiniteSet(S), NEW v \in [S -> Nat]
    PROVE  \A T \in SUBSET S : \E g \in [SUBSET T -> Nat] : SumsUp(g, T, v)
<1> DEFINE Bad == {T \in SUBSET S : \A g \in [SUBSET T -> Nat] : ~SumsUp(g, T, v)}
<1> SUFFICES ASSUME Bad # {} PROVE FALSE
  BY Zenon
<1>1. PICK T \in Bad : \A U \in Bad : <<U, T>> \notin StrictSubsetOrdering(S)
  <2>1. Bad \subseteq SUBSET S
    BY Zenon
  <2> HIDE DEF Bad
  <2> QED
    BY Zenon, <2>1, SmallestSubset
<1>2. T \in SUBSET S
  BY Zenon
<1> DEFINE Sums(U) == CHOOSE g \in [SUBSET U -> Nat] : SumsUp(g, U, v)
           at(U) == Sums(U)[U]
           g == [s \in SUBSET T |->
                    IF s = {} THEN 0 ELSE v[First(s)] + at(s \ {First(s)})]
<1>3. ASSUME NEW U \in SUBSET T, U # T
      PROVE  Sums(U) \in [SUBSET U -> Nat] /\ SumsUp(Sums(U), U, v)
  <2>1. U \in SUBSET S /\ <<U, T>> \in StrictSubsetOrdering(S)
    BY Zenon, <1>2, <1>3 DEF StrictSubsetOrdering
  <2>2. \E f \in [SUBSET U -> Nat] : SumsUp(f, U, v)
    BY Zenon, <1>1, <2>1
  <2> QED
    BY Zenon, <2>2
<1> HIDE DEF Bad, Sums
<1>4. ASSUME NEW s \in SUBSET T, s # {}
      PROVE  /\ First(s) \in s /\ s \ {First(s)} \in SUBSET T /\ s \ {First(s)} # T
             /\ v[First(s)] \in Nat /\ at(s \ {First(s)}) \in Nat
  <2>1. First(s) \in s /\ s \ {First(s)} \in SUBSET T /\ s \ {First(s)} # T
    BY Zenon, <1>4, FirstFacts
  <2>2. v[First(s)] \in Nat
    BY Zenon, <1>2, <2>1
  <2>3. Sums(s \ {First(s)}) \in [SUBSET (s \ {First(s)}) -> Nat]
    BY Zenon, <2>1, <1>3
  <2> QED
    BY Zenon, <2>1, <2>2, <2>3
<1>5. g \in [SUBSET T -> Nat]
  BY <1>4
<1>6. ASSUME NEW s \in SUBSET T, s # T
      PROVE  g[s] = at(s)
  <2>1. at(s) = IF s = {} THEN 0 ELSE v[First(s)] + Sums(s)[s \ {First(s)}]
    BY Zenon, <1>3, <1>6 DEF SumsUp
  <2>2. CASE s = {}
    BY Zenon, <2>1, <2>2
  <2>3. CASE s # {}
    <3>1. Sums(s)[s \ {First(s)}] = at(s \ {First(s)})
      <4> DEFINE q == s \ {First(s)}
      <4>1. q \in SUBSET S /\ s \in SUBSET S /\ q \in SUBSET s /\ q \in SUBSET q
        BY Zenon, <1>2, <1>4, <2>3
      <4>2. SumsUp(Sums(s), s, v) /\ SumsUp(Sums(q), q, v)
        BY Zenon, <1>3, <1>4, <1>6, <2>3
      <4> HIDE DEF q
      <4>3. Sums(s)[q] = Sums(q)[q]
        BY <4>1, <4>2, SumsAgree
      <4> QED
        BY Zenon, <4>3 DEF q
    <3> QED
      BY Zenon, <2>1, <2>3, <3>1
  <2> QED
    BY Zenon, <2>2, <2>3
<1>7. SumsUp(g, T, v)
  <2>1. ASSUME NEW s \in SUBSET T, s # {}
        PROVE  at(s \ {First(s)}) = g[s \ {First(s)}]
    BY Zenon, <1>4, <1>6, <2>1
  <2>2. \A s \in SUBSET T :
            g[s] = IF s = {} THEN 0 ELSE v[First(s)] + g[s \ {First(s)}]
    BY Zenon, <2>1
  <2>3. g = [s \in SUBSET T |-> g[s]]
    BY Zenon
  <2> HIDE DEF g
  <2> QED
    BY Zenon, <2>2, <2>3 DEF SumsUp
<1> QED
  <2> HIDE DEF g
  <2> QED
    BY Zenon, <1>5, <1>7 DEF Bad

(* The value of some coins is a natural number.                              *)
LEMMA TotalType ==
    ASSUME NEW S, IsFiniteSet(S), \A o \in S : ValueOf(o) \in Nat
    PROVE  Total(S) \in Nat
<1> DEFINE v == [o \in S |-> ValueOf(o)]
           Sum(g) == g = [s \in SUBSET S |->
                             IF s = {} THEN 0
                             ELSE ValueOf(CHOOSE x \in s : TRUE)
                                      + g[s \ {CHOOSE x \in s : TRUE}]]
<1>1. Total(S) = (CHOOSE g : Sum(g))[S]
  BY Zenon DEF Total, MapThenSumSet, MapThenFoldSet
<1>2. ASSUME NEW g PROVE Sum(g) <=> SumsUp(g, S, v)
  <2>1. ASSUME NEW s \in SUBSET S, s # {}
        PROVE  v[First(s)] = ValueOf(CHOOSE x \in s : TRUE)
    BY Zenon, <2>1, FirstFacts DEF First
  <2> HIDE DEF v
  <2> QED
    BY ZenonT(30), <2>1 DEF SumsUp, First
<1>3. v \in [S -> Nat]
  BY Zenon
<1> HIDE DEF v, Sum
<1>4. PICK g \in [SUBSET S -> Nat] : SumsUp(g, S, v)
  BY Zenon, <1>3, SumsExist
<1>5. SumsUp(CHOOSE h : Sum(h), S, v)
  BY Zenon, <1>2, <1>4
<1>6. (CHOOSE h : Sum(h))[S] = g[S]
  <2> DEFINE h == CHOOSE h : Sum(h)
  <2>1. SumsUp(h, S, v)
    BY Zenon, <1>5
  <2> HIDE DEF h
  <2>2. h[S] = g[S]
    BY <1>4, <2>1, SumsAgree
  <2> QED
    BY Zenon, <2>2 DEF h
<1> QED
  BY Zenon, <1>1, <1>4, <1>6

-----------------------------------------------------------------------------
LEMMA InitInv == Init => IInv
BY DEF Init, IInv, WalletTypeOK, CoinsOK, ChangeOK, IndexOK, ChangeIsFresh

(* The scan keeps the invariant, whether its result is saved or not.         *)
LEMMA ScanInv ==
    ASSUME IInv, UNCHANGED <<utxos, psbt, pending_fundings, launchers>>,
           \/ last_change_index' = ScannedIndex
           \/ last_change_index' = ScannedIndex + 1
           \/ UNCHANGED last_change_index,
           disk' = Saved \/ UNCHANGED disk,
           funding' = [c \in Chan |-> funding'[c]],
           \A c \in Chan : funding'[c] = funding[c]
                           \/ funding[c] = "none"
    PROVE  IInv'
<1>1. WalletTypeOK
  BY Zenon DEF IInv
<1>2. /\ ScannedIndex \in Nat /\ last_change_index \in Nat
      /\ ScannedIndex >= last_change_index
      /\ last_change_index' \in Nat /\ last_change_index' >= last_change_index
      /\ \A c \in Chan : psbt[c].index \in Nat
  BY <1>1, ScannedIndexFacts DEF WalletTypeOK
<1>3. WalletTypeOK'
  BY <1>1, <1>2 DEF WalletTypeOK, Saved
<1>4. CoinsOK'
  BY Zenon, <1>1 DEF IInv, CoinsOK, WalletTypeOK
<1>5. ChangeOK'
  <2> SUFFICES ASSUME NEW d \in Chan, NEW e \in Chan
               PROVE  /\ Change(d) \in utxos => funding'[d] = "published"
                      /\ Change(d) \in pending_fundings[e] =>
                             /\ funding'[d] = "published"
                             /\ psbt[d].index < last_change_index'
                      /\ Change(d) \in disk'.pending[e] =>
                             /\ funding'[d] = "published"
                             /\ psbt[d].index < disk'.index
    BY Zenon DEF ChangeOK, Change
  <2>1. /\ Change(d) \in utxos => funding[d] = "published"
        /\ Change(d) \in pending_fundings[e] =>
               /\ funding[d] = "published"
               /\ psbt[d].index < last_change_index
        /\ Change(d) \in disk.pending[e] =>
               /\ funding[d] = "published"
               /\ psbt[d].index < disk.index
    BY Zenon DEF IInv, ChangeOK
  <2>2. funding[d] = "published" => funding'[d] = "published"
    BY Zenon
  <2>3. psbt[d].index < last_change_index =>
            psbt[d].index < last_change_index' /\ psbt[d].index < ScannedIndex
    BY <1>2
  <2>4. CASE disk' = Saved
    BY Zenon, <2>1, <2>2, <2>3, <2>4 DEF Saved
  <2>5. CASE UNCHANGED disk
    BY Zenon, <2>1, <2>2, <2>3, <2>5
  <2> QED
    BY Zenon, <2>4, <2>5
<1>6. IndexOK'
  <2>1. \A c \in launchers : psbt[c].index < last_change_index'
    <3>1. \A c \in launchers : c \in Chan /\ psbt[c].index < last_change_index
      BY Zenon, <1>1 DEF IInv, IndexOK, WalletTypeOK
    <3> QED
      BY <1>2, <3>1
  <2>2. ChangeIsFresh'
    BY Zenon DEF IInv, IndexOK, ChangeIsFresh, Change
  <2> QED
    BY Zenon, <2>1, <2>2 DEF IndexOK
<1> QED
  BY Zenon, <1>3, <1>4, <1>5, <1>6 DEF IInv

LEMMA ListFundsInv ==
    ASSUME IInv, ListFunds
    PROVE  IInv'
BY Zenon, ScanInv DEF ListFunds, IInv, WalletTypeOK

(* A new funding takes coins on no record and an index past all others.      *)
LEMMA FundingPsbtInv ==
    ASSUME IInv, NEW c \in Chan, funding[c] = "none", NEW fee,
           NEW inputs \in SUBSET Available, FundingPsbt(c, inputs, fee),
           UNCHANGED utxos
    PROVE  IInv'
<1>1. /\ WalletTypeOK /\ c \notin launchers
      /\ Change(c) \notin utxos
  BY Zenon DEF IInv, CoinsOK, ChangeOK
<1>2. /\ psbt'[c].inputs = inputs /\ psbt'[c].index = ScannedIndex
      /\ \A d \in Chan \ {c} : psbt'[d] = psbt[d]
      /\ psbt' = [d \in Chan |-> psbt'[d]]
  <2> DEFINE p == [inputs |-> inputs, index |-> ScannedIndex,
                   change |-> Total(inputs) - Amount[c] - fee]
  <2>1. psbt' = [psbt EXCEPT ![c] = p]
    BY Zenon DEF FundingPsbt
  <2>2. p.inputs = inputs /\ p.index = ScannedIndex
    BY Zenon
  <2> HIDE DEF p
  <2>3. psbt' = [d \in Chan |-> IF d = c THEN p ELSE psbt[d]]
    BY Zenon, <1>1, <2>1 DEF WalletTypeOK
  <2> QED
    BY Zenon, <2>2, <2>3
<1>3. /\ pending_fundings'[c] = inputs
      /\ \A d \in Chan \ {c} : pending_fundings'[d] = pending_fundings[d]
      /\ funding'[c] = "pending"
      /\ \A d \in Chan \ {c} : funding'[d] = funding[d]
      /\ funding' = [d \in Chan |-> funding'[d]]
      /\ last_change_index' = ScannedIndex + 1 /\ disk' = Saved
      /\ launchers' = launchers \cup {c}
  BY Zenon, <1>1 DEF FundingPsbt, WalletTypeOK
<1>4. /\ ScannedIndex \in Nat /\ last_change_index \in Nat
      /\ ScannedIndex >= last_change_index
      /\ \A d \in Chan : psbt[d].index \in Nat
      /\ \A d \in Chan : Change(d) \in Available =>
             ScannedIndex > psbt[d].index
  BY Zenon, <1>1, ScannedIndexFacts DEF WalletTypeOK
<1>5. /\ inputs \subseteq utxos
      /\ \A d \in Chan : inputs \cap pending_fundings[d] = {}
  BY ZenonT(30) DEF Available
<1>6. \A d \in Chan : Change(d) \in utxos => psbt[d].index < ScannedIndex
  <2> SUFFICES ASSUME NEW d \in Chan, Change(d) \in utxos,
                      Change(d) \notin Available
               PROVE  psbt[d].index < ScannedIndex
    BY Zenon, <1>4
  <2>1. PICK e \in Chan : Change(d) \in pending_fundings[e]
    BY DEF Available
  <2>2. psbt[d].index < last_change_index
    BY Zenon, <2>1 DEF IInv, ChangeOK
  <2> QED
    BY <1>4, <2>2
<1>7. WalletTypeOK'
  BY <1>1, <1>2, <1>3, <1>4, <1>5 DEF WalletTypeOK, Saved, FundingPsbt
<1>8. CoinsOK'
  <2> SUFFICES ASSUME NEW d \in launchers \cup {c}
               PROVE  /\ funding'[d] = "pending"
                      /\ pending_fundings'[d] = psbt'[d].inputs
                      /\ psbt'[d].inputs \subseteq utxos
                      /\ \A e \in (launchers \cup {c}) \ {d} :
                             psbt'[d].inputs \cap psbt'[e].inputs = {}
    BY Zenon, <1>3 DEF CoinsOK
  <2>1. \A e \in launchers : /\ e \in Chan \ {c}
                             /\ psbt'[e].inputs = psbt[e].inputs
                             /\ inputs \cap psbt[e].inputs = {}
    BY Zenon, <1>1, <1>2, <1>5 DEF IInv, CoinsOK, WalletTypeOK
  <2>2. CASE d = c
    BY Zenon, <1>2, <1>3, <1>5, <2>1, <2>2
  <2>3. CASE d \in launchers
    BY Zenon, <1>2, <1>3, <2>1, <2>3 DEF IInv, CoinsOK
  <2> QED
    BY Zenon, <2>2, <2>3
<1>9. ChangeOK'
  <2> SUFFICES ASSUME NEW d \in Chan, NEW e \in Chan
               PROVE  /\ Change(d) \in utxos => funding'[d] = "published"
                      /\ Change(d) \in pending_fundings'[e] =>
                             /\ funding'[d] = "published"
                             /\ psbt'[d].index < ScannedIndex + 1
                      /\ Change(d) \in pending_fundings[e] =>
                             /\ funding'[d] = "published"
                             /\ psbt'[d].index < ScannedIndex
    BY Zenon, <1>3 DEF ChangeOK, Change, Saved
  <2>1. /\ Change(d) \in utxos => funding[d] = "published"
        /\ Change(d) \in pending_fundings[e] =>
               /\ funding[d] = "published"
               /\ psbt[d].index < last_change_index
    BY Zenon DEF IInv, ChangeOK
  <2>2. funding[d] = "published" =>
            funding'[d] = "published" /\ psbt'[d].index = psbt[d].index
    BY Zenon, <1>2, <1>3
  <2>3. Change(d) \in pending_fundings'[e] =>
            Change(d) \in pending_fundings[e] \/ Change(d) \in utxos
    BY Zenon, <1>3, <1>5
  <2> QED
    BY <1>4, <1>6, <2>1, <2>2, <2>3
<1>10. IndexOK'
  <2>1. \A d \in launchers : d \in Chan \ {c} /\ psbt[d].index < ScannedIndex
    <3>1. \A d \in launchers : /\ d \in Chan \ {c}
                               /\ psbt[d].index < last_change_index
      BY Zenon, <1>1 DEF IInv, IndexOK, WalletTypeOK
    <3> QED
      BY <1>4, <3>1
  <2>2. \A d \in launchers' : psbt'[d].index < last_change_index'
    BY <1>2, <1>3, <1>4, <2>1
  <2>3. ChangeIsFresh'
    <3> SUFFICES ASSUME NEW d \in launchers \cup {c}, NEW e \in Chan \ {d},
                        e \in launchers \cup {c} \/ Change(e) \in utxos
                 PROVE  psbt'[d].index # psbt'[e].index
      BY Zenon, <1>3 DEF ChangeIsFresh, Change
    <3>1. CASE d = c
      BY <1>2, <1>4, <1>6, <2>1, <3>1
    <3>2. CASE e = c
      BY <1>2, <1>4, <2>1, <3>2
    <3>3. CASE d # c /\ e # c
      BY Zenon, <1>2, <2>1, <3>3 DEF IInv, IndexOK, ChangeIsFresh
    <3> QED
      BY Zenon, <3>1, <3>2, <3>3
  <2> QED
    BY Zenon, <2>2, <2>3 DEF IndexOK
<1> QED
  BY Zenon, <1>7, <1>8, <1>9, <1>10 DEF IInv

LEMMA ConstructFundingInv ==
    ASSUME IInv, NEW c \in Chan, ConstructFunding(c)
    PROVE  IInv'
<1>1. funding[c] = "none" /\ UNCHANGED utxos /\ WalletTypeOK
  BY Zenon DEF ConstructFunding, IInv
<1>2. CASE FundingFails(c)
  <2>1. /\ funding' = [d \in Chan |-> funding'[d]]
        /\ \A d \in Chan : funding'[d] = funding[d] \/ funding[d] = "none"
    BY Zenon, <1>1, <1>2 DEF FundingFails, WalletTypeOK
  <2> QED
    BY Zenon, <1>1, <1>2, <2>1, ScanInv DEF FundingFails
<1>3. CASE FundingPanics
  BY Zenon, <1>1, <1>3, ScanInv DEF FundingPanics, WalletTypeOK
<1>4. ASSUME NEW rate \in Rates, NEW fee,
             NEW inputs \in Selections(Amount[c] + FeeEstimate(rate)),
             FundingPsbt(c, inputs, fee)
      PROVE  IInv'
  <2>1. inputs \in SUBSET Available
    BY Zenon DEF Selections
  <2> QED
    BY Zenon, <1>1, <1>4, <2>1, FundingPsbtInv
<1> QED
  BY Zenon, <1>2, <1>3, <1>4 DEF ConstructFunding

(* A launcher that goes takes no coin from another.                          *)
LEMMA PublishInv ==
    ASSUME IInv, NEW c \in Chan, Publish(c)
    PROVE  IInv'
<1>1. /\ c \in launchers /\ launchers' = launchers \ {c}
      /\ utxos' = (utxos \ psbt[c].inputs) \cup {Change(c)}
      /\ funding' = [funding EXCEPT ![c] = "published"]
      /\ UNCHANGED <<psbt, pending_fundings, last_change_index, disk>>
  BY Zenon DEF Publish, IInv, CoinsOK
<1>2. WalletTypeOK /\ launchers \subseteq Chan /\ funding[c] = "pending"
  BY Zenon, <1>1 DEF IInv, CoinsOK, WalletTypeOK
<1>3. /\ funding' = [d \in Chan |-> funding'[d]] /\ funding'[c] = "published"
      /\ \A d \in Chan \ {c} : funding'[d] = funding[d]
  BY Zenon, <1>1, <1>2 DEF WalletTypeOK
<1>4. \A d \in Chan : Change(d) = Change(c) => d = c
  BY Zenon DEF Change
<1>5. WalletTypeOK'
  <2>1. Change(c) \in Outpoints
    BY Zenon DEF Change, Outpoints
  <2> QED
    BY Zenon, <1>1, <1>2, <1>3, <2>1 DEF WalletTypeOK
<1>6. CoinsOK'
  <2> SUFFICES ASSUME NEW d \in launchers \ {c}
               PROVE  /\ funding'[d] = "pending"
                      /\ pending_fundings[d] = psbt[d].inputs
                      /\ psbt[d].inputs \subseteq utxos'
                      /\ \A e \in (launchers \ {c}) \ {d} :
                             psbt[d].inputs \cap psbt[e].inputs = {}
    BY Zenon, <1>1 DEF CoinsOK
  <2>1. /\ psbt[d].inputs \subseteq utxos
        /\ psbt[d].inputs \cap psbt[c].inputs = {}
    BY Zenon, <1>1 DEF IInv, CoinsOK
  <2> QED
    BY Zenon, <1>1, <1>2, <1>3, <2>1 DEF IInv, CoinsOK
<1>7. ChangeOK'
  <2> SUFFICES ASSUME NEW d \in Chan, NEW e \in Chan
               PROVE  /\ Change(d) \in utxos' => funding'[d] = "published"
                      /\ Change(d) \in pending_fundings[e] =>
                             /\ funding'[d] = "published"
                             /\ psbt[d].index < last_change_index
                      /\ Change(d) \in disk.pending[e] =>
                             /\ funding'[d] = "published"
                             /\ psbt[d].index < disk.index
    BY Zenon, <1>1 DEF ChangeOK, Change
  <2>1. Change(d) \in utxos' => d = c \/ Change(d) \in utxos
    BY Zenon, <1>1, <1>4
  <2> QED
    BY Zenon, <1>3, <2>1 DEF IInv, ChangeOK
<1>8. IndexOK'
  <2>1. \A d \in launchers' : psbt[d].index < last_change_index
    BY Zenon, <1>1 DEF IInv, IndexOK
  <2>2. ChangeIsFresh'
    <3> SUFFICES ASSUME NEW d \in launchers \ {c}, NEW e \in Chan \ {d},
                        e \in launchers \ {c} \/ Change(e) \in utxos'
                 PROVE  psbt[d].index # psbt[e].index
      BY Zenon, <1>1 DEF ChangeIsFresh, Change
    <3>1. e \in launchers \/ Change(e) \in utxos
      BY Zenon, <1>1, <1>4
    <3> QED
      BY Zenon, <3>1 DEF IInv, IndexOK, ChangeIsFresh
  <2> QED
    BY Zenon, <1>1, <2>1, <2>2 DEF IndexOK
<1> QED
  BY Zenon, <1>5, <1>6, <1>7, <1>8 DEF IInv

LEMMA GiveUpInv ==
    ASSUME IInv, NEW c \in Chan, GiveUp(c)
    PROVE  IInv'
<1>1. /\ c \in launchers /\ launchers' = launchers \ {c}
      /\ funding' = [funding EXCEPT ![c] = "failed"]
      /\ UNCHANGED <<utxos, psbt, pending_fundings, last_change_index, disk>>
  BY Zenon DEF GiveUp
<1>2. WalletTypeOK /\ launchers \subseteq Chan /\ funding[c] = "pending"
  BY Zenon, <1>1 DEF IInv, CoinsOK, WalletTypeOK
<1>3. /\ funding' = [d \in Chan |-> funding'[d]]
      /\ \A d \in Chan \ {c} : funding'[d] = funding[d]
  BY Zenon, <1>1, <1>2 DEF WalletTypeOK
<1>4. WalletTypeOK' /\ CoinsOK'
  BY Zenon, <1>1, <1>2, <1>3 DEF IInv, WalletTypeOK, CoinsOK
<1>5. ChangeOK'
  BY Zenon, <1>1, <1>2, <1>3 DEF IInv, ChangeOK, Change
<1>6. IndexOK'
  BY Zenon, <1>1 DEF IInv, IndexOK, ChangeIsFresh, Change
<1> QED
  BY Zenon, <1>4, <1>5, <1>6 DEF IInv

(* After a restart no launcher is left, and the file is as good as memory.   *)
LEMMA RestartInv ==
    ASSUME IInv, Restart
    PROVE  IInv'
<1>1. WalletTypeOK' /\ CoinsOK' /\ IndexOK'
  BY Zenon DEF Restart, IInv, WalletTypeOK, CoinsOK, IndexOK, ChangeIsFresh
<1>2. ChangeOK'
  BY Zenon DEF Restart, IInv, ChangeOK, Change
<1> QED
  BY Zenon, <1>1, <1>2 DEF IInv

LEMMA ReceiveInv ==
    ASSUME IInv, NEW o \in Deposits, Receive(o)
    PROVE  IInv'
<1>1. /\ utxos' = utxos \cup {o}
      /\ UNCHANGED <<psbt, pending_fundings, last_change_index, disk,
                     launchers, funding>>
  BY Zenon DEF Receive
<1>2. \A d \in Chan : Change(d) \in utxos' => Change(d) \in utxos
  BY <1>1 DEF Change, Deposits
<1>3. WalletTypeOK' /\ CoinsOK'
  BY Zenon, <1>1 DEF IInv, WalletTypeOK, CoinsOK, Outpoints
<1>4. ChangeOK'
  BY Zenon, <1>1, <1>2 DEF IInv, ChangeOK, Change
<1>5. IndexOK'
  BY Zenon, <1>1, <1>2 DEF IInv, IndexOK, ChangeIsFresh, Change
<1> QED
  BY Zenon, <1>3, <1>4, <1>5 DEF IInv

LEMMA NextInv ==
    ASSUME IInv, [Next]_vars
    PROVE  IInv'
<1>1. CASE Next
  BY Zenon, <1>1, ListFundsInv, ConstructFundingInv, PublishInv, GiveUpInv,
     RestartInv, ReceiveInv
     DEF Next
<1>2. CASE UNCHANGED vars
  BY Zenon, <1>2 DEF vars, IInv, WalletTypeOK, CoinsOK, ChangeOK, IndexOK,
              ChangeIsFresh, Change
<1> QED
  BY Zenon, <1>1, <1>2

(* The inductive invariant: coins and change of live fundings are on record, *)
(* and the file never makes the wallet forget a change index that matters.   *)
THEOREM Invariance == Spec => []IInv
BY InitInv, NextInv, PTL DEF Spec

(* construct_funding_psbt and list_funds: the coins of a live funding are    *)
(* unspent and used by no other, through any number of restarts from a file  *)
(* that was written before the last funding.                                 *)
THEOREM CoinsAreSpendable == Spec => []LiveFundingIsSpendable
<1>1. IInv => LiveFundingIsSpendable
  BY Zenon DEF IInv, CoinsOK, LiveFundingIsSpendable
<1> QED
  BY <1>1, Invariance, PTL

(* construct_funding_psbt and list_funds: live fundings have change at       *)
(* different addresses, which no unspent change is at either.                *)
THEOREM ChangeAddressesAreFresh == Spec => []ChangeIsFresh
<1>1. IInv => ChangeIsFresh
  BY Zenon DEF IInv, IndexOK
<1> QED
  BY <1>1, Invariance, PTL

-----------------------------------------------------------------------------
(* Types, and the fee.                                                      *)

(* The coins offered are finitely many, each of a natural value.             *)
LEMMA CoinFacts ==
    ASSUME TypeOK, NEW S \in SUBSET Available
    PROVE  /\ S \in SUBSET Outpoints /\ IsFiniteSet(S) /\ Total(S) \in Nat
           /\ Cardinality(S) \in Nat /\ Cardinality(Outpoints) \in Nat
           /\ Cardinality(S) <= Cardinality(Outpoints)
<1>1. IsFiniteSet(Outpoints)
  <2>1. IsFiniteSet(Deposits)
    BY Zenon, WalletAssumption, FS_Singleton, FS_Product DEF Deposits
  <2>2. IsFiniteSet({"change"} \X Chan)
    BY Zenon, WalletAssumption, FS_Singleton, FS_Product
  <2> QED
    BY Zenon, <2>1, <2>2, FS_Union DEF Outpoints
<1>2. S \in SUBSET Outpoints
  BY Zenon DEF Available, TypeOK
<1>3. /\ IsFiniteSet(S) /\ Cardinality(S) <= Cardinality(Outpoints)
      /\ Cardinality(S) \in Nat /\ Cardinality(Outpoints) \in Nat
  BY Zenon, <1>1, <1>2, FS_Subset, FS_CardinalityType
<1>4. ASSUME NEW o \in S PROVE ValueOf(o) \in Nat
  <2>1. CASE o \in Deposits
    BY Zenon, <2>1, WalletAssumption DEF ValueOf, Deposits
  <2>2. CASE o \notin Deposits
    <3>1. o[2] \in Chan
      BY Zenon, <1>2, <2>2 DEF Outpoints
    <3> QED
      BY Zenon, <2>2, <3>1 DEF ValueOf, TypeOK, Psbts
  <2> QED
    BY Zenon, <2>1, <2>2
<1> QED
  BY Zenon, <1>2, <1>3, <1>4, TotalType

(* The precise fee of a transaction of at most two kilo-weight units is      *)
(* within the estimate.                                                      *)
LEMMA FeeWithinEstimate ==
    ASSUME NEW rate \in Nat, NEW weight \in Nat, weight <= 2000
    PROVE  (weight * rate) \div 1000 <= 2 * rate
<1>1. weight * rate \in Nat /\ weight * rate <= 2000 * rate
  OBVIOUS
<1> QED
  BY <1>1

LEMMA WeightType ==
    ASSUME TypeOK, NEW inputs \in SUBSET Available
    PROVE  Weight(inputs) \in Nat
<1>1. Cardinality(inputs) \in Nat
  BY Zenon, CoinFacts
<1> QED
  BY <1>1, WalletAssumption DEF Weight

(* The fee of coins offered is a natural number.                             *)
LEMMA PreciseFeeType ==
    ASSUME TypeOK, NEW inputs \in SUBSET Available, NEW rate \in Nat
    PROVE  PreciseFee(inputs, rate) \in Nat
<1> DEFINE p == Weight(inputs) * rate
<1>1. Weight(inputs) \in Nat
  BY Zenon, WeightType
<1>2. PreciseFee(inputs, rate) = p \div 1000
  BY Zenon DEF PreciseFee
<1>3. p \in Nat
  BY <1>1
<1> HIDE DEF p
<1> QED
  BY <1>2, <1>3

(* Every step keeps the types: the change of a funding is what its coins are *)
(* worth beyond amount and fee, which construct has checked to be covered.   *)
LEMMA TypeNext ==
    ASSUME TypeOK, WalletTypeOK, [Next]_vars
    PROVE  TypeOK'
<1>1. ScannedIndex \in Nat /\ Saved \in WalletData
  BY Zenon, ScannedIndexFacts DEF Saved, WalletData, TypeOK
<1>2. CASE ListFunds
  BY Zenon, <1>1, <1>2 DEF ListFunds, TypeOK
<1>3. ASSUME NEW c \in Chan, ConstructFunding(c)
      PROVE  TypeOK'
  <2>1. UNCHANGED <<utxos, restarts>>
    BY Zenon, <1>3 DEF ConstructFunding
  <2>2. CASE FundingFails(c)
    BY Zenon, <1>1, <2>1, <2>2 DEF FundingFails, TypeOK, FundingStates
  <2>3. CASE FundingPanics
    BY <1>1, <2>1, <2>3 DEF FundingPanics, TypeOK
  <2>4. ASSUME NEW rate \in Rates,
               NEW inputs \in Selections(Amount[c] + FeeEstimate(rate)),
               Total(inputs) >= Amount[c] + PreciseFee(inputs, rate),
               FundingPsbt(c, inputs, PreciseFee(inputs, rate))
        PROVE  TypeOK'
    <3> DEFINE rest == Total(inputs) - Amount[c] - PreciseFee(inputs, rate)
    <3>1. inputs \in SUBSET Available /\ rate \in Nat /\ Amount[c] \in Nat
      BY Zenon, WalletAssumption DEF Selections
    <3>2. inputs \in SUBSET Outpoints /\ Total(inputs) \in Nat
      BY Zenon, <3>1, CoinFacts
    <3>3. PreciseFee(inputs, rate) \in Nat
      BY Zenon, <3>1, PreciseFeeType
    <3>4. rest \in Nat
      BY <2>4, <3>1, <3>2, <3>3
    <3>5. psbt' = [psbt EXCEPT ![c] =
              [inputs |-> inputs, index |-> ScannedIndex, change |-> rest]]
      BY Zenon, <2>4 DEF FundingPsbt
    <3> HIDE DEF rest
    <3>6. psbt' \in [Chan -> Psbts]
      BY Zenon, <1>1, <3>2, <3>4, <3>5 DEF TypeOK, Psbts
    <3> QED
      BY <1>1, <2>1, <2>4, <3>2, <3>6 DEF FundingPsbt, TypeOK, FundingStates
  <2> QED
    BY Zenon, <1>3, <2>2, <2>3, <2>4 DEF ConstructFunding
<1>4. ASSUME NEW c \in Chan, Publish(c)
      PROVE  TypeOK'
  <2>1. Change(c) \in Outpoints
    BY Zenon DEF Change, Outpoints
  <2> QED
    BY Zenon, <1>4, <2>1 DEF Publish, TypeOK, FundingStates
<1>5. ASSUME NEW c \in Chan, GiveUp(c)
      PROVE  TypeOK'
  BY Zenon, <1>5 DEF GiveUp, TypeOK, FundingStates
<1>6. CASE Restart
  <2>1. disk.pending \in [Chan -> SUBSET Outpoints] /\ disk.index \in Nat
    BY Zenon DEF TypeOK, WalletData
  <2>2. restarts' \in 0..MaxRestarts
    BY <1>6, WalletAssumption DEF Restart, TypeOK
  <2> QED
    BY Zenon, <1>6, <2>1, <2>2 DEF Restart, TypeOK
<1>7. ASSUME NEW o \in Deposits, Receive(o)
      PROVE  TypeOK'
  BY Zenon, <1>7 DEF Receive, TypeOK, Outpoints
<1>8. CASE UNCHANGED vars
  BY Zenon, <1>8 DEF vars, TypeOK
<1> QED
  BY Zenon, <1>2, <1>3, <1>4, <1>5, <1>6, <1>7, <1>8 DEF Next

LEMMA TypeInit == Init => TypeOK
<1> SUFFICES ASSUME Init PROVE TypeOK
  BY Zenon
<1>1. psbt \in [Chan -> Psbts]
  BY Zenon DEF Init, Psbts
<1>2. disk \in WalletData
  BY Zenon DEF Init, WalletData
<1>3. /\ restarts \in 0..MaxRestarts /\ last_change_index \in Nat
      /\ pending_fundings \in [Chan -> SUBSET Outpoints]
      /\ funding \in [Chan -> FundingStates]
  BY WalletAssumption DEF Init, FundingStates
<1> QED
  BY Zenon, <1>1, <1>2, <1>3 DEF Init, TypeOK

(* The wallet's data in memory and in its file keep their types, through any *)
(* number of fundings and restarts; in particular the change of a funding    *)
(* is never negative, as a PSBT of construct_funding_psbt requires.          *)
THEOREM TypeCorrect == Spec => []TypeOK
<1>1. IInv => WalletTypeOK
  BY Zenon DEF IInv
<1> QED
  BY <1>1, Invariance, TypeInit, TypeNext, PTL DEF Spec

(* Coins selected for amount and estimated fee cover the precise fee of a    *)
(* transaction of at most two kilo-weight units.                             *)
LEMMA LightIsCovered ==
    ASSUME TypeOK, NEW c \in Chan, NEW rate \in Rates,
           NEW inputs \in Selections(Amount[c] + FeeEstimate(rate))
    PROVE  Weight(inputs) <= EstimatedWeight =>
               Total(inputs) >= Amount[c] + PreciseFee(inputs, rate)
<1>1. inputs \in SUBSET Available /\ rate \in Nat /\ Amount[c] \in Nat
  BY Zenon, WalletAssumption DEF Selections
<1>2. Total(inputs) \in Nat /\ Total(inputs) >= Amount[c] + 2 * rate
  BY Zenon, <1>1, CoinFacts DEF Selections, FeeEstimate
<1>3. Weight(inputs) \in Nat
  BY Zenon, <1>1, WeightType
<1>4. Weight(inputs) <= EstimatedWeight => PreciseFee(inputs, rate) <= 2 * rate
  BY <1>1, <1>3, FeeWithinEstimate DEF PreciseFee, EstimatedWeight
<1>5. PreciseFee(inputs, rate) \in Nat
  BY Zenon, <1>1, PreciseFeeType
<1> QED
  BY <1>1, <1>2, <1>4, <1>5

(* construct_funding_psbt meets its expect on Psbt::construct only where the *)
(* coins selected make a transaction beyond the two kilo-weight units of the *)
(* estimate, for any coins, amounts, rates and weights.                      *)
THEOREM HeavyFundingsPanic == Spec => OnlyHeavyFundingPanics
<1> DEFINE Heavy == ~halted /\ halted' =>
               \E c \in Chan, rate \in Rates :
                   /\ funding[c] = "none"
                   /\ \E inputs \in Selections(Amount[c] + FeeEstimate(rate)) :
                          /\ ~(Total(inputs) >= Amount[c]
                                                 + PreciseFee(inputs, rate))
                          /\ Weight(inputs) > EstimatedWeight
<1>1. ASSUME TypeOK, [Next]_vars, ~halted, halted'
      PROVE  Heavy
  <2>1. PICK c \in Chan : ConstructFunding(c)
    BY Zenon, <1>1 DEF Next, ListFunds, Publish, GiveUp, Restart, Receive, vars
  <2>2. PICK rate \in Rates :
            \E inputs \in Selections(Amount[c] + FeeEstimate(rate)) :
                ~(Total(inputs) >= Amount[c] + PreciseFee(inputs, rate))
    BY Zenon, <1>1, <2>1 DEF ConstructFunding, FundingFails, FundingPsbt
  <2>3. PICK inputs \in Selections(Amount[c] + FeeEstimate(rate)) :
            ~(Total(inputs) >= Amount[c] + PreciseFee(inputs, rate))
    BY Zenon, <2>2
  <2>4. ~(Weight(inputs) <= EstimatedWeight)
    BY Zenon, <1>1, <2>3, LightIsCovered
  <2>5. Weight(inputs) \in Nat
    <3>1. inputs \in SUBSET Available
      BY Zenon, <2>3 DEF Selections
    <3> QED
      BY Zenon, <1>1, <3>1, WeightType
  <2>6. Weight(inputs) > EstimatedWeight
    BY <2>4, <2>5 DEF EstimatedWeight
  <2> QED
    BY Zenon, <2>1, <2>3, <2>6 DEF ConstructFunding
<1>2. TypeOK /\ [Next]_vars => [Heavy]_vars
  BY Zenon, <1>1
<1> QED
  BY <1>2, TypeCorrect, PTL DEF Spec, OnlyHeavyFundingPanics

=============================================================================
