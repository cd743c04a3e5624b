-------------------------- MODULE WraithPoolProofs --------------------------
(* The pool is solvent and implements the shielded ledger, for every set   *)
(* of owners, assets and prices, every width, scale, capacity and history. *)
EXTENDS WraithPool, ArithmeticProofs, SequenceTheorems

-----------------------------------------------------------------------------
(* What a set of notes is worth, and how it changes with one note          *)

NoteWorth(n, a) == IF n.asset = a THEN n.amount ELSE 0
OrderWorth(o, a) == IF LockedAsset(o) = a THEN LockedAmount(o) ELSE 0

LEMMA OrdersValues == \A o \in Orders : OrderValues(o)
BY DEF Orders, OrderValues

LEMMA LockNat ==
    ASSUME NEW o \in Orders
    PROVE  LockedAmount(o) \in Nat
BY OrdersValues, LockedAmountNat

LEMMA AmountOfNote ==
    ASSUME NEW n \in Notes
    PROVE  AmountOf[n] = n.amount /\ n.amount \in Nat
BY DEF AmountOf, Notes

LEMMA LockOfOrder ==
    ASSUME NEW o \in Orders
    PROVE  LockOf[o] = LockedAmount(o) /\ LockedAmount(o) \in Nat
BY LockNat DEF LockOf

LEMMA NoteClaimsNat ==
    ASSUME NEW S \in SUBSET Notes, IsFiniteSet(S), NEW a
    PROVE  NoteClaims(S, a) \in Nat
<1> DEFINE T == {n \in S : n.asset = a}
<1>1. IsFiniteSet(T)
  BY FS_Subset
<1>2. \A n \in T : AmountOf[n] \in Nat
  BY AmountOfNote
<1> HIDE DEF T
<1>3. Total(T, AmountOf) \in Nat
  BY <1>1, <1>2, TotalNat
<1> QED
  BY <1>3 DEF NoteClaims, T

LEMMA NoteClaimsSubset ==
    ASSUME NEW S \in SUBSET Notes, IsFiniteSet(S), NEW R \in SUBSET S, NEW a
    PROVE  NoteClaims(R, a) <= NoteClaims(S, a)
<1> DEFINE T == {n \in S : n.asset = a}
           Q == {n \in R : n.asset = a}
<1>1. IsFiniteSet(T)
  BY FS_Subset
<1>2. \A n \in T : AmountOf[n] \in Nat
  BY AmountOfNote
<1>3. Q \in SUBSET T
  OBVIOUS
<1> HIDE DEF T, Q
<1>4. Total(Q, AmountOf) <= Total(T, AmountOf)
  BY <1>1, <1>2, <1>3, TotalSubset
<1> QED
  BY <1>4 DEF NoteClaims, T, Q

LEMMA NoteClaimsAdd ==
    ASSUME NEW S \in SUBSET Notes, IsFiniteSet(S), NEW n \in Notes, NEW a
    PROVE  NoteClaims(S \cup {n}, a) <= NoteClaims(S, a) + NoteWorth(n, a)
<1> DEFINE T == {m \in S : m.asset = a}
<1>1. IsFiniteSet(T)
  BY FS_Subset
<1>2. \A m \in T : AmountOf[m] \in Nat
  BY AmountOfNote
<1>3. AmountOf[n] = n.amount /\ n.amount \in Nat
  BY AmountOfNote
<1>4. CASE n.asset = a
  <2>1. {m \in S \cup {n} : m.asset = a} = T \cup {n}
    BY <1>4
  <2> HIDE DEF T
  <2>2. Total(T \cup {n}, AmountOf) <= Total(T, AmountOf) + AmountOf[n]
    BY <1>1, <1>2, <1>3, TotalAdd
  <2>3. NoteClaims(S \cup {n}, a) = Total(T \cup {n}, AmountOf)
    BY <2>1 DEF NoteClaims
  <2>4. NoteClaims(S, a) = Total(T, AmountOf)
    BY DEF NoteClaims, T
  <2>5. NoteWorth(n, a) = AmountOf[n]
    BY <1>3, <1>4 DEF NoteWorth
  <2> QED
    BY <2>2, <2>3, <2>4, <2>5
<1>5. CASE n.asset # a
  <2>1. {m \in S \cup {n} : m.asset = a} = T
    BY <1>5
  <2>2. NoteClaims(S \cup {n}, a) = NoteClaims(S, a)
    BY <2>1 DEF NoteClaims
  <2>3. NoteWorth(n, a) = 0
    BY <1>5 DEF NoteWorth
  <2> QED
    BY <2>2, <2>3, NoteClaimsNat
<1> QED
  BY <1>4, <1>5

\* Spending a note that carries value gives up that value.
LEMMA NoteClaimsSpend ==
    ASSUME NEW S \in SUBSET Notes, IsFiniteSet(S), NEW n \in Notes, NEW a,
           n.amount # 0 => n \in S
    PROVE  NoteClaims(S \ {n}, a) <= NoteClaims(S, a) - NoteWorth(n, a)
<1> DEFINE T == {m \in S : m.asset = a}
<1>1. IsFiniteSet(T)
  BY FS_Subset
<1>2. \A m \in T : AmountOf[m] \in Nat
  BY AmountOfNote
<1>3. AmountOf[n] = n.amount /\ n.amount \in Nat
  BY AmountOfNote
<1>4. CASE n \in S /\ n.asset = a
  <2>1. {m \in S \ {n} : m.asset = a} = T \ {n} /\ n \in T
    BY <1>4
  <2> HIDE DEF T
  <2>2. Total(T \ {n}, AmountOf) = Total(T, AmountOf) - AmountOf[n]
    BY <1>1, <1>2, <2>1, TotalRemove
  <2>3. NoteClaims(S \ {n}, a) = Total(T \ {n}, AmountOf)
    BY <2>1 DEF NoteClaims
  <2>4. NoteClaims(S, a) = Total(T, AmountOf)
    BY DEF NoteClaims, T
  <2>5. NoteWorth(n, a) = AmountOf[n]
    BY <1>3, <1>4 DEF NoteWorth
  <2>6. Total(T, AmountOf) \in Nat
    BY <1>1, <1>2, TotalNat
  <2> QED
    BY <1>3, <2>2, <2>3, <2>4, <2>5, <2>6
<1>5. CASE ~(n \in S /\ n.asset = a)
  <2>1. NoteWorth(n, a) = 0
    BY <1>5 DEF NoteWorth
  <2>2. NoteClaims(S \ {n}, a) <= NoteClaims(S, a)
    BY NoteClaimsSubset
  <2>3. NoteClaims(S, a) \in Nat
    BY NoteClaimsNat
  <2> QED
    BY <2>1, <2>2, <2>3
<1> QED
  BY <1>4, <1>5

LEMMA OrderClaimsNat ==
    ASSUME NEW S \in SUBSET Orders, IsFiniteSet(S), NEW a
    PROVE  OrderClaims(S, a) \in Nat
<1> DEFINE T == {o \in S : LockedAsset(o) = a}
<1>1. IsFiniteSet(T)
  BY FS_Subset
<1>2. \A o \in T : LockOf[o] \in Nat
  BY LockOfOrder
<1> HIDE DEF T
<1>3. Total(T, LockOf) \in Nat
  BY <1>1, <1>2, TotalNat
<1> QED
  BY <1>3 DEF OrderClaims, T

LEMMA OrderWorthNat ==
    ASSUME NEW o \in Orders, NEW a
    PROVE  OrderWorth(o, a) \in Nat
BY LockNat DEF OrderWorth

LEMMA NoteWorthNat ==
    ASSUME NEW n \in Notes, NEW a
    PROVE  NoteWorth(n, a) \in Nat
BY AmountOfNote DEF NoteWorth

LEMMA OrderClaimsAdd ==
    ASSUME NEW S \in SUBSET Orders, IsFiniteSet(S), NEW o \in Orders, NEW a
    PROVE  OrderClaims(S \cup {o}, a) <= OrderClaims(S, a) + OrderWorth(o, a)
<1> DEFINE T == {p \in S : LockedAsset(p) = a}
<1>1. IsFiniteSet(T)
  BY FS_Subset
<1>2. \A p \in T : LockOf[p] \in Nat
  BY LockOfOrder
<1>3. LockOf[o] = LockedAmount(o) /\ LockedAmount(o) \in Nat
  BY LockOfOrder
<1>4. CASE LockedAsset(o) = a
  <2>1. {p \in S \cup {o} : LockedAsset(p) = a} = T \cup {o}
    BY <1>4
  <2> HIDE DEF T
  <2>2. Total(T \cup {o}, LockOf) <= Total(T, LockOf) + LockOf[o]
    BY <1>1, <1>2, <1>3, TotalAdd
  <2>3. OrderClaims(S \cup {o}, a) = Total(T \cup {o}, LockOf)
    BY <2>1 DEF OrderClaims
  <2>4. OrderClaims(S, a) = Total(T, LockOf)
    BY DEF OrderClaims, T
  <2>5. OrderWorth(o, a) = LockOf[o]
    BY <1>3, <1>4 DEF OrderWorth
  <2> QED
    BY <2>2, <2>3, <2>4, <2>5
<1>5. CASE LockedAsset(o) # a
  <2>1. {p \in S \cup {o} : LockedAsset(p) = a} = T
    BY <1>5
  <2>2. OrderClaims(S \cup {o}, a) = OrderClaims(S, a)
    BY <2>1 DEF OrderClaims
  <2>3. OrderWorth(o, a) = 0
    BY <1>5 DEF OrderWorth
  <2> QED
    BY <2>2, <2>3, OrderClaimsNat
<1> QED
  BY <1>4, <1>5

LEMMA OrderClaimsRemove ==
    ASSUME NEW S \in SUBSET Orders, IsFiniteSet(S), NEW o \in S, NEW a
    PROVE  OrderClaims(S \ {o}, a) = OrderClaims(S, a) - OrderWorth(o, a)
<1> DEFINE T == {p \in S : LockedAsset(p) = a}
<1>1. IsFiniteSet(T)
  BY FS_Subset
<1>2. \A p \in T : LockOf[p] \in Nat
  BY LockOfOrder
<1>3. LockOf[o] = LockedAmount(o) /\ LockedAmount(o) \in Nat
  BY LockOfOrder
<1>4. CASE LockedAsset(o) = a
  <2>1. {p \in S \ {o} : LockedAsset(p) = a} = T \ {o} /\ o \in T
    BY <1>4
  <2> HIDE DEF T
  <2>2. Total(T \ {o}, LockOf) = Total(T, LockOf) - LockOf[o]
    BY <1>1, <1>2, <2>1, TotalRemove
  <2>3. OrderClaims(S \ {o}, a) = Total(T \ {o}, LockOf)
    BY <2>1 DEF OrderClaims
  <2>4. OrderClaims(S, a) = Total(T, LockOf)
    BY DEF OrderClaims, T
  <2>5. OrderWorth(o, a) = LockOf[o]
    BY <1>3, <1>4 DEF OrderWorth
  <2> QED
    BY <2>2, <2>3, <2>4, <2>5
<1>5. CASE LockedAsset(o) # a
  <2>1. {p \in S \ {o} : LockedAsset(p) = a} = T
    BY <1>5
  <2>2. OrderClaims(S \ {o}, a) = OrderClaims(S, a)
    BY <2>1 DEF OrderClaims
  <2>3. OrderWorth(o, a) = 0
    BY <1>5 DEF OrderWorth
  <2> QED
    BY <2>2, <2>3, OrderClaimsNat
<1> QED
  BY <1>4, <1>5

-----------------------------------------------------------------------------
(* The tree                                                                *)

LEMMA LeavesFinite ==
    ASSUME NEW s \in Seq(Notes)
    PROVE  /\ IsFiniteSet(Range(s))
           /\ Range(s) \subseteq Notes
           /\ \A k : \A n : (\E i \in 1 .. k : s[i] = n /\ i <= Len(s))
                              => n \in Range(s)
<1>1. Len(s) \in Nat /\ s \in [1 .. Len(s) -> Notes] /\ DOMAIN s = 1 .. Len(s)
  BY LenProperties
<1>2. s \in Surjection(1 .. Len(s), Range(s))
  BY <1>1 DEF Surjection, Range
<1>3. IsFiniteSet(1 .. Len(s))
  BY <1>1, FS_Interval
<1>4. IsFiniteSet(Range(s))
  BY <1>2, <1>3, FS_Surjection
<1> QED
  BY <1>1, <1>4 DEF Range

LEMMA RangeConcat ==
    ASSUME NEW s \in Seq(Notes), NEW t \in Seq(Notes)
    PROVE  Range(s \o t) = Range(s) \cup Range(t)
<1>1. /\ s \o t \in Seq(Notes)
      /\ Len(s \o t) = Len(s) + Len(t)
      /\ \A i \in 1 .. Len(s) + Len(t) :
           (s \o t)[i] = IF i <= Len(s) THEN s[i] ELSE t[i - Len(s)]
  BY ConcatProperties
<1>2. /\ Len(s) \in Nat /\ DOMAIN s = 1 .. Len(s)
      /\ Len(t) \in Nat /\ DOMAIN t = 1 .. Len(t)
      /\ DOMAIN (s \o t) = 1 .. Len(s) + Len(t)
  BY <1>1, LenProperties
<1>3. ASSUME NEW n \in Range(s \o t) PROVE n \in Range(s) \cup Range(t)
  <2>1. PICK i \in 1 .. Len(s) + Len(t) : (s \o t)[i] = n
    BY <1>2 DEF Range
  <2>2. CASE i <= Len(s)
    BY <1>1, <1>2, <2>1, <2>2 DEF Range
  <2>3. CASE i > Len(s)
    <3>1. i - Len(s) \in 1 .. Len(t) /\ t[i - Len(s)] = n
      BY <1>1, <1>2, <2>1, <2>3
    <3> QED
      BY <1>2, <3>1 DEF Range
  <2> QED
    BY <1>2, <2>2, <2>3
<1>4. ASSUME NEW n \in Range(s) PROVE n \in Range(s \o t)
  <2>1. PICK i \in 1 .. Len(s) : s[i] = n
    BY <1>2 DEF Range
  <2>2. i \in 1 .. Len(s) + Len(t) /\ (s \o t)[i] = n
    BY <1>1, <1>2, <2>1
  <2> QED
    BY <1>2, <2>2 DEF Range
<1>5. ASSUME NEW n \in Range(t) PROVE n \in Range(s \o t)
  <2>1. PICK i \in 1 .. Len(t) : t[i] = n
    BY <1>2 DEF Range
  <2>2. i + Len(s) \in 1 .. Len(s) + Len(t) /\ (s \o t)[i + Len(s)] = n
    BY <1>1, <1>2, <2>1
  <2> QED
    BY <1>2, <2>2 DEF Range
<1> QED
  BY <1>3, <1>4, <1>5

\* The roots are the last ROOT_HISTORY prefixes of the tree, oldest first.
RootShape ==
    /\ roots \in Seq(1 .. MAX_LEAVES)
    /\ Len(roots) <= ROOT_HISTORY /\ Len(roots) <= Len(leaves)
    /\ Len(roots) = ROOT_HISTORY \/ Len(roots) = Len(leaves)
    /\ \A i \in 1 .. Len(roots) : roots[i] = Len(leaves) - Len(roots) + i

TreeOK == leaves \in Seq(Notes) /\ Len(leaves) <= MAX_LEAVES /\ RootShape

LEMMA InsertTree ==
    ASSUME TreeOK, NEW new \in Seq(Notes), insert(new)
    PROVE  TreeOK' /\ Range(leaves') = Range(leaves) \cup Range(new)
<1> DEFINE n == Len(new)
           L == Len(leaves)
           r == Len(roots)
           added == [i \in 1 .. n |-> L + i]
           s == roots \o added
<1>1. n \in Nat /\ L \in Nat /\ r \in Nat /\ L + n <= MAX_LEAVES
      /\ MAX_LEAVES \in Nat /\ ROOT_HISTORY \in Nat \ {0}
  BY LenProperties, TreeAssumption DEF TreeOK, RootShape, insert
<1>2. /\ leaves' = leaves \o new /\ leaves' \in Seq(Notes)
      /\ Len(leaves') = L + n
      /\ Range(leaves') = Range(leaves) \cup Range(new)
  BY ConcatProperties, RangeConcat DEF TreeOK, insert
<1>3. added \in Seq(1 .. MAX_LEAVES) /\ Len(added) = n
  BY <1>1
<1>4. /\ roots \in Seq(1 .. MAX_LEAVES)
      /\ r <= ROOT_HISTORY /\ r <= L /\ (r = ROOT_HISTORY \/ r = L)
      /\ \A i \in 1 .. r : roots[i] = L - r + i
  BY DEF TreeOK, RootShape
<1>5. roots' = KeepLast(s)
  BY DEF insert
<1>6. /\ s \in Seq(1 .. MAX_LEAVES) /\ Len(s) = r + n
      /\ \A i \in 1 .. r + n :
           s[i] = IF i <= r THEN roots[i] ELSE added[i - r]
  <2> DEFINE P == 1 .. MAX_LEAVES
  <2>1. roots \in Seq(P) /\ added \in Seq(P)
    BY <1>3, <1>4
  <2> HIDE DEF added, n, P
  <2>2. /\ s \in Seq(P) /\ Len(s) = Len(roots) + Len(added)
        /\ \A i \in 1 .. Len(roots) + Len(added) :
             s[i] = IF i <= Len(roots) THEN roots[i] ELSE added[i - Len(roots)]
    BY <2>1, ConcatProperties, Zenon
  <2> QED
    BY <1>3, <2>2 DEF P
<1>7. \A i \in 1 .. r + n : s[i] = L - r + i
  BY <1>1, <1>4, <1>6
<1> HIDE DEF s, added, n, L, r
<1>8. CASE r + n <= ROOT_HISTORY
  <2>1. roots' = s
    BY <1>5, <1>6, <1>8 DEF KeepLast
  <2>2. /\ roots' \in Seq(1 .. MAX_LEAVES) /\ Len(roots') = r + n
        /\ \A i \in 1 .. r + n : roots'[i] = L - r + i
    BY <1>6, <1>7, <2>1
  <2>3. /\ r + n <= L + n
        /\ r + n = ROOT_HISTORY \/ r + n = L + n
        /\ (L + n) - (r + n) = L - r
    BY <1>1, <1>4, <1>8
  <2>4. ASSUME NEW i \in 1 .. Len(roots')
        PROVE  roots'[i] = Len(leaves') - Len(roots') + i
    <3>1. i \in 1 .. r + n
      BY <2>2
    <3>2. Len(leaves') - Len(roots') + i = L - r + i
      BY <1>1, <1>2, <2>2, <3>1
    <3> QED
      BY <2>2, <3>1, <3>2
  <2> QED
    BY <1>1, <1>2, <1>8, <2>2, <2>3, <2>4 DEF TreeOK, RootShape
<1>9. CASE r + n > ROOT_HISTORY
  <2> DEFINE m == r + n - ROOT_HISTORY + 1
  <2>1. m \in Int /\ m >= 1 /\ m <= r + n
    BY <1>1, <1>9
  <2>2. roots' = SubSeq(s, m, r + n)
    BY <1>1, <1>5, <1>6, <1>9 DEF KeepLast
  <2>3. \A i \in m .. r + n : s[i] \in 1 .. MAX_LEAVES
    BY <1>1, <1>4, <1>7, <2>1
  <2>4. /\ roots' \in Seq(1 .. MAX_LEAVES)
        /\ Len(roots') = r + n - m + 1
        /\ \A i \in 1 .. r + n - m + 1 : roots'[i] = s[m + i - 1]
    <3> HIDE DEF m
    <3> QED
      BY <1>1, <2>1, <2>2, <2>3, SubSeqProperties
  <2>5. Len(roots') = ROOT_HISTORY
    BY <1>1, <2>4
  <2>6. ASSUME NEW i \in 1 .. ROOT_HISTORY
        PROVE  roots'[i] = L + n - ROOT_HISTORY + i
    <3>1. i \in 1 .. r + n - m + 1 /\ m + i - 1 \in 1 .. r + n
      BY <1>1, <1>9
    <3>2. roots'[i] = s[m + i - 1]
      BY <2>4, <3>1
    <3>3. s[m + i - 1] = L - r + (m + i - 1)
      BY <1>7, <3>1
    <3>4. L - r + (m + i - 1) = L + n - ROOT_HISTORY + i
      BY <1>1
    <3> QED
      BY <3>2, <3>3, <3>4
  <2>7. ROOT_HISTORY <= L + n
    BY <1>1, <1>4, <1>9
  <2>8. \A i \in 1 .. Len(roots') :
           roots'[i] = Len(leaves') - Len(roots') + i
    BY <1>1, <1>2, <2>5, <2>6
  <2> QED
    BY <1>1, <1>2, <2>4, <2>5, <2>7, <2>8 DEF TreeOK, RootShape
<1> QED
  BY <1>1, <1>2, <1>8, <1>9

\* The window of acceptable roots follows from the shape of the history.
LEMMA WindowOfShape == TreeOK => RootWindow
<1> SUFFICES ASSUME TreeOK, NEW k \in 1 .. Len(leaves)
             PROVE  is_known_root(k) <=> Len(leaves) - k < ROOT_HISTORY
  BY DEF RootWindow
<1> DEFINE L == Len(leaves)
           r == Len(roots)
<1>1. /\ L \in Nat /\ r \in Nat /\ DOMAIN roots = 1 .. r
      /\ ROOT_HISTORY \in Nat \ {0}
      /\ r <= ROOT_HISTORY /\ r <= L /\ (r = ROOT_HISTORY \/ r = L)
      /\ \A i \in 1 .. r : roots[i] = L - r + i
  BY LenProperties, TreeAssumption DEF TreeOK, RootShape
<1>2. is_known_root(k) <=> \E i \in 1 .. r : roots[i] = k
  BY <1>1 DEF is_known_root, Range
<1> HIDE DEF L, r
<1>3. ASSUME NEW i \in 1 .. r, roots[i] = k
      PROVE  L - k < ROOT_HISTORY
  BY <1>1, <1>3
<1>4. ASSUME L - k < ROOT_HISTORY
      PROVE  \E i \in 1 .. r : roots[i] = k
  <2>1. k \in 1 .. L
    BY DEF L
  <2>2. k - (L - r) \in 1 .. r
    BY <1>1, <1>4, <2>1
  <2>3. roots[k - (L - r)] = L - r + (k - (L - r))
    BY <1>1, <2>2
  <2>4. L - r + (k - (L - r)) = k
    BY <1>1, <2>1
  <2> QED
    BY <2>2, <2>3, <2>4
<1> QED
  BY <1>2, <1>3, <1>4 DEF L

-----------------------------------------------------------------------------
(* How the calls that move value inside the pool change what it owes       *)

\* An unspent note is consumed for two notes of no more value (transfer).
LEMMA TransferClaims ==
    ASSUME NEW S \in SUBSET Notes, IsFiniteSet(S), NEW a,
           NEW in1 \in Notes, NEW in2 \in Notes, in1 # in2,
           NEW out1 \in Notes, NEW out2 \in Notes,
           in1.amount # 0 => in1 \in S,
           in2.amount # 0 => in2 \in S,
           in2.amount # 0 => in2.asset = in1.asset,
           out1.amount # 0 => out1.asset = in1.asset,
           out2.amount # 0 => out2.asset = in1.asset,
           in1.amount + in2.amount = out1.amount + out2.amount,
           NEW T \in SUBSET (((S \ {in1}) \ {in2}) \cup {out1}) \cup {out2}
    PROVE  NoteClaims(T, a) <= NoteClaims(S, a)
<1> DEFINE S1 == S \ {in1}
           S2 == S1 \ {in2}
           S3 == S2 \cup {out1}
           S4 == S3 \cup {out2}
<1>1. /\ IsFiniteSet(S1) /\ IsFiniteSet(S2) /\ IsFiniteSet(S3)
      /\ IsFiniteSet(S4)
      /\ S1 \in SUBSET Notes /\ S2 \in SUBSET Notes /\ S3 \in SUBSET Notes
      /\ S4 \in SUBSET Notes
  BY FS_RemoveElement, FS_AddElement
<1>2. NoteClaims(S1, a) <= NoteClaims(S, a) - NoteWorth(in1, a)
  BY NoteClaimsSpend
<1>3. in2.amount # 0 => in2 \in S1
  OBVIOUS
<1>4. T \in SUBSET S4
  OBVIOUS
<1> HIDE DEF S1, S2, S3, S4
<1>5. NoteClaims(S2, a) <= NoteClaims(S1, a) - NoteWorth(in2, a)
  BY <1>1, <1>3, NoteClaimsSpend DEF S2
<1>6. NoteClaims(S3, a) <= NoteClaims(S2, a) + NoteWorth(out1, a)
  BY <1>1, NoteClaimsAdd DEF S3
<1>7. NoteClaims(S4, a) <= NoteClaims(S3, a) + NoteWorth(out2, a)
  BY <1>1, NoteClaimsAdd DEF S4
<1>8. NoteClaims(T, a) <= NoteClaims(S4, a)
  BY <1>1, <1>4, NoteClaimsSubset
<1>9. NoteWorth(in1, a) + NoteWorth(in2, a)
        = NoteWorth(out1, a) + NoteWorth(out2, a)
  <2>1. /\ in1.amount \in Nat /\ in2.amount \in Nat
        /\ out1.amount \in Nat /\ out2.amount \in Nat
    BY AmountOfNote
  <2> QED
    BY <2>1 DEF NoteWorth
<1>10. /\ NoteWorth(in1, a) \in Nat /\ NoteWorth(in2, a) \in Nat
       /\ NoteWorth(out1, a) \in Nat /\ NoteWorth(out2, a) \in Nat
  BY NoteWorthNat
<1>11. NoteClaims(S, a) \in Nat
  BY NoteClaimsNat
<1>12. NoteClaims(S1, a) \in Nat /\ NoteClaims(S2, a) \in Nat
  BY <1>1, NoteClaimsNat
<1>13. NoteClaims(S3, a) \in Nat /\ NoteClaims(S4, a) \in Nat
  BY <1>1, NoteClaimsNat
<1>14. NoteClaims(T, a) \in Nat
  <2>1. T \in SUBSET Notes /\ IsFiniteSet(T)
    BY <1>1, <1>4, FS_Subset
  <2> QED
    BY <2>1, NoteClaimsNat
<1> QED
  BY <1>2, <1>5, <1>6, <1>7, <1>8, <1>9, <1>10, <1>11, <1>12, <1>13, <1>14

\* What order o of a match hands over, gets back and keeps locked, of asset x.
PaidWorth(o, fill, quote, x) ==
    IF LockedAsset(o) = x THEN (IF o.side = BUY THEN quote ELSE fill) ELSE 0
RefundWorth(o, fill, quote, x) ==
    IF o.quote = x THEN RefundAmount(o, fill, quote) ELSE 0
RestWorth(o, fill, x) ==
    IF LockedAsset(o) = x
    THEN (IF o.side = BUY THEN mul_div_price(ResidualAmount(o, fill), o.price)
          ELSE ResidualAmount(o, fill))
    ELSE 0

\* Both orders of a match see the same fill and the same quote amount.
LEMMA FillSymmetric ==
    ASSUME NEW a, NEW b, OrderValues(a), OrderValues(b), Compatible(a, b)
    PROVE  /\ Compatible(b, a)
           /\ Fill(b, a) = Fill(a, b)
           /\ QuoteFilled(b, a) = QuoteFilled(a, b)
<1>1. /\ a.amount \in Amounts /\ b.amount \in Amounts
      /\ a.price \in Nat /\ b.price \in Nat
  BY WidthAssumption DEF OrderValues, Amounts
<1>2. /\ trunc64(a.amount) = a.amount /\ trunc64(b.amount) = b.amount
  BY <1>1, Trunc64Identity
<1>3. Fill(b, a) = Fill(a, b)
  BY <1>1, <1>2, WidthAssumption DEF Fill, min64, Amounts
<1>4. ExecPrice(b, a) = ExecPrice(a, b)
  BY <1>1 DEF ExecPrice, midpoint
<1>5. Compatible(b, a)
  BY DEF Compatible, OrderValues
<1> QED
  BY <1>3, <1>4, <1>5 DEF QuoteFilled

LEMMA SettleOne ==
    ASSUME NEW a \in Orders, NEW b \in Orders, Compatible(a, b), NEW x
    PROVE  LET fill == Fill(a, b)
               quote == QuoteFilled(a, b)
           IN  /\ PaidWorth(a, fill, quote, x) \in Nat
               /\ RefundWorth(a, fill, quote, x) \in Nat
               /\ RestWorth(a, fill, x) \in Nat
               /\ PaidWorth(a, fill, quote, x) + RefundWorth(a, fill, quote, x)
                    + RestWorth(a, fill, x) <= OrderWorth(a, x)
<1> DEFINE fill == Fill(a, b)
           quote == QuoteFilled(a, b)
           paid == IF a.side = BUY THEN quote ELSE fill
           rest == ResidualAmount(a, fill)
           lock == IF a.side = BUY THEN mul_div_price(rest, a.price) ELSE rest
           refund == RefundAmount(a, fill, quote)
<1>1. OrderValues(a) /\ OrderValues(b)
  BY OrdersValues
<1>2. /\ rest \in Nat /\ lock \in Nat /\ refund \in Nat
      /\ paid + refund + lock <= LockedAmount(a)
  BY <1>1, SettlementCovered
<1>3. fill \in Nat /\ quote \in Nat
  BY <1>1, FillBounds, QuoteWithinLimits
<1>4. paid \in Nat /\ LockedAmount(a) \in Nat
  BY <1>3, LockNat
<1>5. a.side # BUY => refund = 0
  BY DEF RefundAmount
<1>6. a.side = BUY => LockedAsset(a) = a.quote
  BY DEF LockedAsset
<1> HIDE DEF paid, lock, refund
<1>7. /\ PaidWorth(a, fill, quote, x) = IF LockedAsset(a) = x THEN paid ELSE 0
      /\ RestWorth(a, fill, x) = IF LockedAsset(a) = x THEN lock ELSE 0
      /\ RefundWorth(a, fill, quote, x) = IF a.quote = x THEN refund ELSE 0
      /\ OrderWorth(a, x) = IF LockedAsset(a) = x THEN LockedAmount(a) ELSE 0
  BY DEF PaidWorth, RestWorth, RefundWorth, OrderWorth, paid, lock, refund
<1>8. refund # 0 => a.quote = LockedAsset(a)
  BY <1>5, <1>6
<1> QED
  BY <1>2, <1>4, <1>7, <1>8

LEMMA ResidualOrders ==
    ASSUME NEW o \in Orders, NEW fill \in Nat, fill <= o.amount,
           NEW nonce \in Nonces
    PROVE  /\ Residual(o, fill, nonce) \in SUBSET Orders
           /\ \A r \in Residual(o, fill, nonce) : \A x :
                 OrderWorth(r, x) = RestWorth(o, fill, x)
           /\ \E r : Residual(o, fill, nonce) \subseteq {r}
<1> DEFINE rest == ResidualAmount(o, fill)
<1>1. o.amount \in Amounts
  BY DEF Orders
<1>2. rest \in Amounts
  BY <1>1, WidthAssumption DEF ResidualAmount, Amounts
<1> HIDE DEF rest
<1> DEFINE r == [o EXCEPT !.amount = rest, !.nonce = nonce]
<1>3. /\ r \in Orders /\ r.amount = rest /\ r.side = o.side
      /\ r.price = o.price /\ r.base = o.base /\ r.quote = o.quote
  BY <1>2 DEF Orders
<1>4. Residual(o, fill, nonce) \subseteq {r}
  BY DEF Residual, rest
<1> HIDE DEF r
<1>5. \A x : OrderWorth(r, x) = RestWorth(o, fill, x)
  BY <1>3 DEF OrderWorth, RestWorth, LockedAsset, LockedAmount, rest
<1> QED
  BY <1>3, <1>4, <1>5

LEMMA ResidualClaims ==
    ASSUME NEW S \in SUBSET Orders, IsFiniteSet(S), NEW o \in Orders,
           NEW fill \in Nat, fill <= o.amount, NEW nonce \in Nonces, NEW x,
           RestWorth(o, fill, x) \in Nat
    PROVE  /\ S \cup Residual(o, fill, nonce) \in SUBSET Orders
           /\ IsFiniteSet(S \cup Residual(o, fill, nonce))
           /\ OrderClaims(S \cup Residual(o, fill, nonce), x)
                <= OrderClaims(S, x) + RestWorth(o, fill, x)
<1>1. /\ Residual(o, fill, nonce) \in SUBSET Orders
      /\ \A r \in Residual(o, fill, nonce) :
            OrderWorth(r, x) = RestWorth(o, fill, x)
      /\ \E r : Residual(o, fill, nonce) \subseteq {r}
  BY ResidualOrders
<1>2. CASE Residual(o, fill, nonce) = {}
  <2>1. S \cup Residual(o, fill, nonce) = S
    BY <1>2
  <2>2. OrderClaims(S, x) \in Nat
    BY OrderClaimsNat
  <2> QED
    BY <2>1, <2>2
<1>3. CASE Residual(o, fill, nonce) # {}
  <2>1. PICK r \in Orders : /\ Residual(o, fill, nonce) = {r}
                            /\ OrderWorth(r, x) = RestWorth(o, fill, x)
    BY <1>1, <1>3
  <2>2. OrderClaims(S \cup {r}, x) <= OrderClaims(S, x) + OrderWorth(r, x)
    BY OrderClaimsAdd
  <2>3. IsFiniteSet(S \cup {r}) /\ S \cup {r} \in SUBSET Orders
    BY FS_AddElement
  <2> QED
    BY <2>1, <2>2, <2>3
<1> QED
  BY <1>2, <1>3

LEMMA OptionalNoteClaims ==
    ASSUME NEW S \in SUBSET Notes, IsFiniteSet(S), NEW n \in Notes, NEW x
    PROVE  /\ S \cup Range(IfNonZero(n)) \in SUBSET Notes
           /\ IsFiniteSet(S \cup Range(IfNonZero(n)))
           /\ NoteClaims(S \cup Range(IfNonZero(n)), x)
                <= NoteClaims(S, x) + NoteWorth(n, x)
<1>1. CASE n.amount = 0
  <2>1. Range(IfNonZero(n)) = {}
    BY <1>1 DEF IfNonZero, Range
  <2>2. S \cup Range(IfNonZero(n)) = S
    BY <2>1
  <2>3. NoteClaims(S, x) \in Nat /\ NoteWorth(n, x) \in Nat
    BY NoteClaimsNat, NoteWorthNat
  <2> QED
    BY <2>2, <2>3
<1>2. CASE n.amount # 0
  <2>1. Range(IfNonZero(n)) = {n}
    BY <1>2 DEF IfNonZero, Range
  <2>2. NoteClaims(S \cup {n}, x) <= NoteClaims(S, x) + NoteWorth(n, x)
    BY NoteClaimsAdd
  <2>3. IsFiniteSet(S \cup {n}) /\ S \cup {n} \in SUBSET Notes
    BY FS_AddElement
  <2> QED
    BY <2>1, <2>2, <2>3
<1> QED
  BY <1>1, <1>2

LEMMA MatchedOrders ==
    ASSUME NEW O \in SUBSET Orders, IsFiniteSet(O),
           NEW a \in O, NEW b \in O, a # b, NEW x,
           NEW fill \in Nat, fill <= a.amount, fill <= b.amount,
           NEW nonce \in Nonces,
           RestWorth(a, fill, x) \in Nat, RestWorth(b, fill, x) \in Nat
    PROVE  LET P == (O \ {a, b}) \cup Residual(a, fill, nonce)
                                 \cup Residual(b, fill, nonce)
           IN  /\ P \in SUBSET Orders /\ IsFiniteSet(P)
               /\ OrderClaims(P, x)
                    <= OrderClaims(O, x) - OrderWorth(a, x) - OrderWorth(b, x)
                       + RestWorth(a, fill, x) + RestWorth(b, fill, x)
<1> DEFINE O1 == O \ {a}
           O2 == O1 \ {b}
           O3 == O2 \cup Residual(a, fill, nonce)
           O4 == O3 \cup Residual(b, fill, nonce)
<1>1. /\ IsFiniteSet(O1) /\ IsFiniteSet(O2)
      /\ O1 \in SUBSET Orders /\ O2 \in SUBSET Orders /\ b \in O1
  BY FS_RemoveElement
<1>2. (O \ {a, b}) \cup Residual(a, fill, nonce) \cup Residual(b, fill, nonce)
        = O4
  OBVIOUS
<1>3. OrderClaims(O1, x) = OrderClaims(O, x) - OrderWorth(a, x)
  BY OrderClaimsRemove
<1> HIDE DEF O1, O2, O3, O4
<1>4. OrderClaims(O2, x) = OrderClaims(O1, x) - OrderWorth(b, x)
  BY <1>1, OrderClaimsRemove DEF O2
<1>5. /\ O3 \in SUBSET Orders /\ IsFiniteSet(O3)
      /\ OrderClaims(O3, x) <= OrderClaims(O2, x) + RestWorth(a, fill, x)
  BY <1>1, ResidualClaims DEF O3
<1>6. /\ O4 \in SUBSET Orders /\ IsFiniteSet(O4)
      /\ OrderClaims(O4, x) <= OrderClaims(O3, x) + RestWorth(b, fill, x)
  BY <1>5, ResidualClaims DEF O4
<1>7. OrderWorth(a, x) \in Nat /\ OrderWorth(b, x) \in Nat
  BY OrderWorthNat
<1>8. OrderClaims(O, x) \in Nat /\ OrderClaims(O1, x) \in Nat
  BY <1>1, OrderClaimsNat
<1>9. OrderClaims(O2, x) \in Nat /\ OrderClaims(O3, x) \in Nat
  BY <1>1, <1>5, OrderClaimsNat
<1>10. OrderClaims(O4, x) \in Nat
  BY <1>6, OrderClaimsNat
<1>11. OrderClaims(O4, x)
         <= OrderClaims(O, x) - OrderWorth(a, x) - OrderWorth(b, x)
            + RestWorth(a, fill, x) + RestWorth(b, fill, x)
  BY <1>3, <1>4, <1>5, <1>6, <1>7, <1>8, <1>9, <1>10
<1> QED
  BY <1>2, <1>6, <1>11

LEMMA FourNotes ==
    ASSUME NEW S \in SUBSET Notes, IsFiniteSet(S), NEW x,
           NEW n1 \in Notes, NEW n2 \in Notes,
           NEW n3 \in Notes, NEW n4 \in Notes,
           NEW T \in SUBSET ((((S \cup {n1}) \cup {n2})
                                \cup Range(IfNonZero(n3)))
                                \cup Range(IfNonZero(n4)))
    PROVE  NoteClaims(T, x)
             <= NoteClaims(S, x) + NoteWorth(n1, x) + NoteWorth(n2, x)
                + NoteWorth(n3, x) + NoteWorth(n4, x)
<1> DEFINE S1 == S \cup {n1}
           S2 == S1 \cup {n2}
           S3 == S2 \cup Range(IfNonZero(n3))
           S4 == S3 \cup Range(IfNonZero(n4))
<1>1. /\ IsFiniteSet(S1) /\ IsFiniteSet(S2)
      /\ S1 \in SUBSET Notes /\ S2 \in SUBSET Notes
  BY FS_AddElement
<1>2. T \in SUBSET S4
  OBVIOUS
<1>3. NoteClaims(S1, x) <= NoteClaims(S, x) + NoteWorth(n1, x)
  BY NoteClaimsAdd
<1> HIDE DEF S1, S2, S3, S4
<1>4. NoteClaims(S2, x) <= NoteClaims(S1, x) + NoteWorth(n2, x)
  BY <1>1, NoteClaimsAdd DEF S2
<1>5. /\ S3 \in SUBSET Notes /\ IsFiniteSet(S3)
      /\ NoteClaims(S3, x) <= NoteClaims(S2, x) + NoteWorth(n3, x)
  BY <1>1, OptionalNoteClaims DEF S3
<1>6. /\ S4 \in SUBSET Notes /\ IsFiniteSet(S4)
      /\ NoteClaims(S4, x) <= NoteClaims(S3, x) + NoteWorth(n4, x)
  BY <1>5, OptionalNoteClaims DEF S4
<1>7. NoteClaims(T, x) <= NoteClaims(S4, x)
  BY <1>2, <1>6, NoteClaimsSubset
<1>8. T \in SUBSET Notes /\ IsFiniteSet(T)
  BY <1>2, <1>6, FS_Subset
<1>9. NoteWorth(n1, x) \in Nat /\ NoteWorth(n2, x) \in Nat
      /\ NoteWorth(n3, x) \in Nat /\ NoteWorth(n4, x) \in Nat
  BY NoteWorthNat
<1>10. NoteClaims(S, x) \in Nat /\ NoteClaims(S1, x) \in Nat
  BY <1>1, NoteClaimsNat
<1>11. NoteClaims(S2, x) \in Nat /\ NoteClaims(S3, x) \in Nat
  BY <1>1, <1>5, NoteClaimsNat
<1>12. NoteClaims(S4, x) \in Nat /\ NoteClaims(T, x) \in Nat
  BY <1>6, <1>8, NoteClaimsNat
<1> QED
  BY <1>3, <1>4, <1>5, <1>6, <1>7, <1>9, <1>10, <1>11, <1>12

-----------------------------------------------------------------------------
(* The inductive invariant                                                 *)

\* Solvency of one step needs the tree's shape, finitely many orders, locks
\* that refund notes can carry and spent notes that were leaves.
IInv == /\ TypeOK /\ TreeOK /\ IsFiniteSet(orders)
        /\ SpentWereLeaves /\ OrdersRefundable /\ LeavesSpendable

LEMMA InitIInv == Init => IInv
<1> SUFFICES ASSUME Init PROVE IInv
  OBVIOUS
<1>1. leaves = <<>> /\ roots = <<>> /\ spent = {} /\ orders = {}
      /\ custody = [a \in Assets |-> 0] /\ minted = [a \in Assets |-> 0]
      /\ admin = Unset /\ bridge = Unset
  BY DEF Init, EmptyTree
<1>2. leaves \in Seq(Notes) /\ Len(leaves) = 0 /\ Range(leaves) = {}
  BY <1>1 DEF Range
<1>3. roots \in Seq(1 .. MAX_LEAVES) /\ Len(roots) = 0
  BY <1>1
<1>4. IsFiniteSet(orders)
  BY <1>1, FS_EmptySet
<1>5. TreeOK
  BY <1>2, <1>3, TreeAssumption DEF TreeOK, RootShape
<1>6. TypeOK
  BY <1>1, <1>2, <1>3, TreeAssumption DEF TypeOK
<1>7. SpentWereLeaves /\ OrdersRefundable /\ LeavesSpendable
  BY <1>1, <1>2 DEF SpentWereLeaves, OrdersRefundable, LeavesSpendable
<1> QED
  BY <1>4, <1>5, <1>6, <1>7 DEF IInv

\* What any call does to the invariant, given the notes it inserts.
LEMMA InsertIInv ==
    ASSUME IInv, NEW new \in Seq(Notes), insert(new),
           \A n \in Range(new) : assert_64(n.amount)
    PROVE  /\ TreeOK' /\ LeavesSpendable'
           /\ Range(leaves') = Range(leaves) \cup Range(new)
           /\ leaves' \in Seq(Notes) /\ Len(leaves') <= MAX_LEAVES
           /\ roots' \in Seq(1 .. MAX_LEAVES)
<1>1. TreeOK' /\ Range(leaves') = Range(leaves) \cup Range(new)
  BY InsertTree DEF IInv
<1>2. LeavesSpendable'
  BY <1>1 DEF IInv, LeavesSpendable
<1> QED
  BY <1>1, <1>2 DEF TreeOK, RootShape

LEMMA ClaimsTyped ==
    ASSUME NEW s \in Seq(Notes), NEW X,
           NEW O \in SUBSET Orders, IsFiniteSet(O)
    PROVE  /\ Range(s) \ X \in SUBSET Notes
           /\ IsFiniteSet(Range(s) \ X)
           /\ \A a : NoteClaims(Range(s) \ X, a) + OrderClaims(O, a) \in Nat
<1>1. IsFiniteSet(Range(s)) /\ Range(s) \subseteq Notes
  BY LeavesFinite
<1>2. Range(s) \ X \in SUBSET Notes /\ IsFiniteSet(Range(s) \ X)
  BY <1>1, FS_Difference
<1>3. ASSUME NEW a
      PROVE  NoteClaims(Range(s) \ X, a) + OrderClaims(O, a) \in Nat
  <2>1. NoteClaims(Range(s) \ X, a) \in Nat
    BY <1>2, NoteClaimsNat
  <2>2. OrderClaims(O, a) \in Nat
    BY OrderClaimsNat
  <2> QED
    BY <2>1, <2>2
<1> QED
  BY <1>2, <1>3

\* A call that moves no value across the edge is a Settle step of the ledger
\* if no asset is owed more after it.
LEMMA SettleStep ==
    ASSUME IInv, IInv', UNCHANGED edgeVars,
           \A a \in Assets :
              NoteClaims(Range(leaves') \ spent', a) + OrderClaims(orders', a)
                <= NoteClaims(Range(leaves) \ spent, a)
                   + OrderClaims(orders, a)
    PROVE  Ledger!Next
<1>1. Reserve' = Reserve
  BY DEF Reserve, edgeVars
<1>2. \A a : NoteClaims(Range(leaves') \ spent', a) + OrderClaims(orders', a)
               \in Nat
  BY ClaimsTyped DEF IInv, TypeOK
<1>3. Claims' \in [Assets -> Nat]
  BY <1>2 DEF Claims
<1>4. \A a \in Assets : Claims'[a] <= Claims[a]
  BY DEF Claims
<1>5. Ledger!Settle
  BY <1>1, <1>3, <1>4 DEF Ledger!Settle
<1> QED
  BY <1>5 DEF Ledger!Next

\* A call that adds one note for value that crosses the edge.
LEMMA EnterStep ==
    ASSUME IInv, IInv', NEW note \in Notes,
           Range(leaves') = Range(leaves) \cup {note},
           spent' = spent, orders' = orders,
           \A a \in Assets : Reserve'[a] = Reserve[a] + NoteWorth(note, a)
    PROVE  Ledger!Next
<1>1. /\ Range(leaves) \ spent \in SUBSET Notes
      /\ IsFiniteSet(Range(leaves) \ spent)
      /\ \A a : NoteClaims(Range(leaves) \ spent, a) + OrderClaims(orders, a)
                  \in Nat
  BY ClaimsTyped DEF IInv, TypeOK
<1>2. \A a : NoteClaims(Range(leaves') \ spent', a) + OrderClaims(orders', a)
               \in Nat
  BY ClaimsTyped DEF IInv, TypeOK
<1>3. Claims' \in [Assets -> Nat] /\ Claims \in [Assets -> Nat]
  BY <1>1, <1>2 DEF Claims
<1>4. Reserve \in [Assets -> Nat] /\ Reserve' \in [Assets -> Nat]
  BY DEF IInv, TypeOK, Reserve
<1>5. ASSUME NEW a \in Assets
      PROVE  Claims'[a] <= Claims[a] + NoteWorth(note, a)
  <2> DEFINE S == Range(leaves) \ spent
             T == Range(leaves') \ spent'
  <2>1. T \in SUBSET (S \cup {note}) /\ IsFiniteSet(S \cup {note})
        /\ S \cup {note} \in SUBSET Notes
    BY <1>1, FS_AddElement
  <2>2. T \in SUBSET Notes /\ IsFiniteSet(T)
    BY <2>1, FS_Subset
  <2> HIDE DEF S, T
  <2>3. NoteClaims(S \cup {note}, a) <= NoteClaims(S, a) + NoteWorth(note, a)
    BY <1>1, NoteClaimsAdd DEF S
  <2>4. NoteClaims(T, a) <= NoteClaims(S \cup {note}, a)
    BY <2>1, NoteClaimsSubset
  <2>5. NoteClaims(S \cup {note}, a) \in Nat /\ NoteClaims(T, a) \in Nat
    BY <2>1, <2>2, NoteClaimsNat
  <2>6. NoteClaims(S, a) \in Nat
    BY <1>1, NoteClaimsNat DEF S
  <2>7. OrderClaims(orders, a) \in Nat /\ NoteWorth(note, a) \in Nat
    BY OrderClaimsNat, NoteWorthNat DEF IInv, TypeOK
  <2>8. Claims'[a] = NoteClaims(T, a) + OrderClaims(orders, a)
    BY DEF Claims, T
  <2>9. Claims[a] = NoteClaims(S, a) + OrderClaims(orders, a)
    BY DEF Claims, S
  <2> QED
    BY <2>3, <2>4, <2>5, <2>6, <2>7, <2>8, <2>9
<1>6. note.amount \in Nat /\ note.asset \in Assets
  BY DEF Notes
<1>7. CASE note.amount = 0
  <2>1. \A a \in Assets : NoteWorth(note, a) = 0
    BY <1>7 DEF NoteWorth
  <2>2. \A a \in Assets : Reserve'[a] = Reserve[a] /\ Claims'[a] <= Claims[a]
    BY <1>3, <1>4, <1>5, <2>1
  <2>3. Reserve' = Reserve
    BY <1>4, <2>2
  <2> QED
    BY <1>3, <2>2, <2>3 DEF Ledger!Settle, Ledger!Next
<1>8. CASE note.amount # 0
  <2>1. \A b \in Assets \ {note.asset} : NoteWorth(note, b) = 0
    BY DEF NoteWorth
  <2>2. NoteWorth(note, note.asset) = note.amount
    BY DEF NoteWorth
  <2>3. \A b \in Assets \ {note.asset} :
           Reserve'[b] = Reserve[b] /\ Claims'[b] <= Claims[b]
    BY <1>3, <1>4, <1>5, <2>1
  <2>4. /\ Reserve'[note.asset] = Reserve[note.asset] + note.amount
        /\ Claims'[note.asset] <= Claims[note.asset] + note.amount
    BY <1>5, <1>6, <2>2
  <2>5. /\ Reserve'[note.asset] \in Nat /\ Reserve[note.asset] \in Nat
        /\ Claims'[note.asset] \in Nat /\ Claims[note.asset] \in Nat
    BY <1>3, <1>4, <1>6
  <2>6. /\ Reserve'[note.asset] > Reserve[note.asset]
        /\ Claims'[note.asset] - Claims[note.asset]
             <= Reserve'[note.asset] - Reserve[note.asset]
    BY <1>6, <1>8, <2>4, <2>5
  <2>7. Ledger!Enter(note.asset)
    BY <1>3, <1>4, <2>3, <2>6 DEF Ledger!Enter
  <2> QED
    BY <1>6, <2>7 DEF Ledger!Next
<1> QED
  BY <1>7, <1>8

LEMMA OneNote ==
    ASSUME NEW n \in Notes
    PROVE  <<n>> \in Seq(Notes) /\ Range(<<n>>) = {n}
BY DEF Range

LEMMA TwoNotes ==
    ASSUME NEW n \in Notes, NEW m \in Notes
    PROVE  <<n, m>> \in Seq(Notes) /\ Range(<<n, m>>) = {n, m}
<1>1. DOMAIN <<n, m>> = {1, 2}
  OBVIOUS
<1> QED
  BY <1>1 DEF Range

LEMMA OptionalNote ==
    ASSUME NEW n \in Notes
    PROVE  /\ IfNonZero(n) \in Seq(Notes)
           /\ Range(IfNonZero(n)) \subseteq {n}
BY DEF Range, IfNonZero

LEMMA AmountsNat == Amounts \subseteq Nat
BY WidthAssumption DEF Amounts

LEMMA DepositStep ==
    ASSUME IInv, NEW note \in NotesOf(Deposits), deposit(note)
    PROVE  IInv' /\ Ledger!Next
<1>1. note \in Notes /\ note.asset \in Assets /\ note.amount \in Nat
      /\ assert_64(note.amount)
  BY AmountsNat, InputsAssumption DEF NotesOf, Notes, assert_64
<1>2. <<note>> \in Seq(Notes) /\ Range(<<note>>) = {note}
  BY <1>1, OneNote
<1>3. /\ TreeOK' /\ LeavesSpendable'
      /\ Range(leaves') = Range(leaves) \cup {note}
      /\ leaves' \in Seq(Notes) /\ Len(leaves') <= MAX_LEAVES
      /\ roots' \in Seq(1 .. MAX_LEAVES)
  BY <1>1, <1>2, InsertIInv DEF deposit
<1>4. /\ spent' = spent /\ orders' = orders /\ minted' = minted
      /\ admin' = admin /\ bridge' = bridge
      /\ custody' = [custody EXCEPT ![note.asset] = @ + note.amount]
  BY DEF deposit, adminVars
<1>5. custody' \in [Assets -> Nat]
  BY <1>1, <1>4 DEF IInv, TypeOK
<1>6. TypeOK'
  BY <1>3, <1>4, <1>5 DEF IInv, TypeOK
<1>7. SpentWereLeaves' /\ OrdersRefundable' /\ IsFiniteSet(orders')
  BY <1>3, <1>4 DEF IInv, SpentWereLeaves, OrdersRefundable
<1>8. IInv'
  BY <1>3, <1>6, <1>7 DEF IInv
<1>9. \A a \in Assets : Reserve'[a] = Reserve[a] + NoteWorth(note, a)
  BY <1>1, <1>4, <1>5 DEF IInv, TypeOK, Reserve, NoteWorth
<1> QED
  BY <1>1, <1>3, <1>4, <1>8, <1>9, EnterStep

LEMMA BridgeMintStep ==
    ASSUME IInv, NEW note \in NotesOf(Deposits), bridge_mint(note)
    PROVE  IInv' /\ Ledger!Next
<1>1. note \in Notes /\ note.asset \in Assets /\ note.amount \in Nat
      /\ assert_64(note.amount)
  BY AmountsNat, InputsAssumption DEF NotesOf, Notes, assert_64
<1>2. <<note>> \in Seq(Notes) /\ Range(<<note>>) = {note}
  BY <1>1, OneNote
<1>3. /\ TreeOK' /\ LeavesSpendable'
      /\ Range(leaves') = Range(leaves) \cup {note}
      /\ leaves' \in Seq(Notes) /\ Len(leaves') <= MAX_LEAVES
      /\ roots' \in Seq(1 .. MAX_LEAVES)
  BY <1>1, <1>2, InsertIInv DEF bridge_mint
<1>4. /\ spent' = spent /\ orders' = orders /\ custody' = custody
      /\ admin' = admin /\ bridge' = bridge
      /\ minted' = [minted EXCEPT ![note.asset] = @ + note.amount]
  BY DEF bridge_mint, adminVars
<1>5. minted' \in [Assets -> Nat]
  BY <1>1, <1>4 DEF IInv, TypeOK
<1>6. TypeOK'
  BY <1>3, <1>4, <1>5 DEF IInv, TypeOK
<1>7. SpentWereLeaves' /\ OrdersRefundable' /\ IsFiniteSet(orders')
  BY <1>3, <1>4 DEF IInv, SpentWereLeaves, OrdersRefundable
<1>8. IInv'
  BY <1>3, <1>6, <1>7 DEF IInv
<1>9. ASSUME NEW a \in Assets
      PROVE  Reserve'[a] = Reserve[a] + NoteWorth(note, a)
  <2>1. custody[a] \in Nat /\ minted[a] \in Nat
    BY DEF IInv, TypeOK
  <2>2. minted'[a] = minted[a] + NoteWorth(note, a)
    BY <1>1, <1>4, <2>1 DEF IInv, TypeOK, NoteWorth
  <2>3. Reserve'[a] = custody'[a] + minted'[a]
        /\ Reserve[a] = custody[a] + minted[a]
    BY DEF Reserve
  <2> QED
    BY <1>1, <1>4, <2>1, <2>2, <2>3, NoteWorthNat
<1> QED
  BY <1>1, <1>3, <1>4, <1>8, <1>9, EnterStep

LEMMA SetBridgeStep ==
    ASSUME IInv, NEW caller \in Admins, NEW b \in Bridges,
           set_bridge(caller, b)
    PROVE  IInv' /\ Ledger!Next
<1>1. /\ leaves' = leaves /\ roots' = roots /\ spent' = spent
      /\ orders' = orders /\ custody' = custody /\ minted' = minted
      /\ admin' \in Admins /\ bridge' \in Bridges
  BY DEF set_bridge, treeVars, edgeVars
<1>2. IInv'
  BY <1>1 DEF IInv, TypeOK, TreeOK, RootShape, SpentWereLeaves,
              OrdersRefundable, LeavesSpendable
<1>3. \A a : NoteClaims(Range(leaves) \ spent, a) + OrderClaims(orders, a)
               \in Nat
  BY ClaimsTyped DEF IInv, TypeOK
<1>4. \A a \in Assets :
         NoteClaims(Range(leaves') \ spent', a) + OrderClaims(orders', a)
           <= NoteClaims(Range(leaves) \ spent, a) + OrderClaims(orders, a)
  BY <1>1, <1>3
<1> QED
  BY <1>1, <1>2, <1>4, SettleStep DEF edgeVars

\* A leaf under a known root is a leaf of the tree.
LEMMA MemberIsLeaf ==
    ASSUME IInv, NEW k \in Range(roots), NEW n, Member(n, k)
    PROVE  n \in Range(leaves) /\ n \in Notes
<1>1. /\ leaves \in Seq(Notes) /\ DOMAIN leaves = 1 .. Len(leaves)
      /\ Len(leaves) \in Nat /\ DOMAIN roots = 1 .. Len(roots)
      /\ Len(roots) \in Nat /\ Len(roots) <= Len(leaves)
      /\ \A i \in 1 .. Len(roots) : roots[i] = Len(leaves) - Len(roots) + i
  BY LenProperties DEF IInv, TreeOK, RootShape
<1>2. PICK j \in 1 .. Len(roots) : k = roots[j]
  BY <1>1 DEF Range
<1>3. k \in Nat /\ k <= Len(leaves)
  BY <1>1, <1>2
<1>4. PICK i \in 1 .. k : leaves[i] = n
  BY DEF Member
<1>5. i \in 1 .. Len(leaves)
  BY <1>1, <1>3
<1>6. n \in Range(leaves)
  BY <1>1, <1>4, <1>5 DEF Range
<1> QED
  BY <1>1, <1>6, LeavesFinite

LEMMA WithdrawStep ==
    ASSUME IInv, NEW note, NEW k \in Range(roots), withdraw(note, k)
    PROVE  IInv' /\ Ledger!Next
<1> DEFINE S == Range(leaves) \ spent
           x == note.asset
<1>1. /\ note \in Range(leaves) /\ note \in Notes
      /\ note \notin spent /\ note.amount > 0 /\ custody[x] >= note.amount
      /\ leaves' = leaves /\ roots' = roots /\ orders' = orders
      /\ spent' = spent \cup {note} /\ minted' = minted
      /\ admin' = admin /\ bridge' = bridge
      /\ custody' = [custody EXCEPT ![x] = @ - note.amount]
  BY MemberIsLeaf DEF withdraw, treeVars, adminVars
<1>2. note.amount \in Nat /\ x \in Assets
  BY <1>1 DEF Notes
<1>3. custody \in [Assets -> Nat] /\ custody' \in [Assets -> Nat]
      /\ minted \in [Assets -> Nat]
  BY <1>1, <1>2 DEF IInv, TypeOK
<1>4. IInv'
  BY <1>1, <1>3 DEF IInv, TypeOK, TreeOK, RootShape, SpentWereLeaves,
                    OrdersRefundable, LeavesSpendable
<1>5. /\ S \in SUBSET Notes /\ IsFiniteSet(S) /\ note \in S
      /\ Range(leaves') \ spent' = S \ {note}
      /\ \A a : NoteClaims(S, a) + OrderClaims(orders, a) \in Nat
  BY <1>1, ClaimsTyped DEF IInv, TypeOK
<1>6. \A a : NoteClaims(Range(leaves') \ spent', a) + OrderClaims(orders', a)
               \in Nat
  BY <1>4, ClaimsTyped DEF IInv, TypeOK
<1>7. Claims' \in [Assets -> Nat] /\ Claims \in [Assets -> Nat]
  BY <1>5, <1>6 DEF Claims
<1>8. Reserve \in [Assets -> Nat] /\ Reserve' \in [Assets -> Nat]
  BY <1>1, <1>3 DEF Reserve
<1> HIDE DEF S
<1>9. ASSUME NEW a \in Assets
      PROVE  Claims'[a] <= Claims[a] - NoteWorth(note, a)
  <2>1. NoteClaims(S \ {note}, a) <= NoteClaims(S, a) - NoteWorth(note, a)
    BY <1>1, <1>5, NoteClaimsSpend
  <2>2. /\ Claims'[a] = NoteClaims(S \ {note}, a) + OrderClaims(orders, a)
        /\ Claims[a] = NoteClaims(S, a) + OrderClaims(orders, a)
    BY <1>1, <1>5 DEF Claims, S
  <2>3. OrderClaims(orders, a) \in Nat /\ NoteWorth(note, a) \in Nat
    BY <1>1, OrderClaimsNat, NoteWorthNat DEF IInv, TypeOK
  <2>4. NoteClaims(S, a) \in Nat
    BY <1>5, NoteClaimsNat
  <2>5. IsFiniteSet(S \ {note}) /\ S \ {note} \in SUBSET Notes
    BY <1>5, FS_RemoveElement
  <2>6. NoteClaims(S \ {note}, a) \in Nat
    BY <2>5, NoteClaimsNat
  <2> QED
    BY <2>1, <2>2, <2>3, <2>4, <2>6
<1>10. \A b \in Assets \ {x} : Claims'[b] <= Claims[b]
                               /\ Reserve'[b] = Reserve[b]
  <2> SUFFICES ASSUME NEW b \in Assets \ {x}
               PROVE  Claims'[b] <= Claims[b] /\ Reserve'[b] = Reserve[b]
    OBVIOUS
  <2>1. NoteWorth(note, b) = 0
    BY DEF NoteWorth
  <2>2. Claims'[b] \in Nat /\ Claims[b] \in Nat
    BY <1>7
  <2>3. custody'[b] = custody[b]
    BY <1>1, <1>3
  <2> QED
    BY <1>1, <1>9, <2>1, <2>2, <2>3 DEF Reserve
<1>11. /\ Reserve[x] - Reserve'[x] = note.amount
       /\ Reserve'[x] < Reserve[x]
       /\ Claims[x] - Claims'[x] >= note.amount
  <2>1. NoteWorth(note, x) = note.amount
    BY DEF NoteWorth
  <2>2. Claims'[x] \in Nat /\ Claims[x] \in Nat
    BY <1>2, <1>7
  <2>3. custody'[x] = custody[x] - note.amount /\ custody[x] \in Nat
        /\ minted[x] \in Nat
    BY <1>1, <1>2, <1>3
  <2>4. Reserve[x] = custody[x] + minted[x]
        /\ Reserve'[x] = custody'[x] + minted[x]
    BY <1>1, <1>2 DEF Reserve
  <2> QED
    BY <1>1, <1>2, <1>9, <2>1, <2>2, <2>3, <2>4
<1>12. Ledger!Exit(x)
  BY <1>7, <1>8, <1>10, <1>11 DEF Ledger!Exit
<1> QED
  BY <1>2, <1>4, <1>12 DEF Ledger!Next

\* No wrap: two range-checked amounts add up below the field's size.
LEMMA ConservedExactly ==
    ASSUME NEW x \in Amounts, NEW y \in Amounts, NEW u \in Amounts,
           NEW v \in Amounts, (x + y) % FIELD = (u + v) % FIELD
    PROVE  x + y = u + v
<1>1. U64 \in Nat /\ U64 * U64 \in Nat /\ U64 * U64 >= U64 /\ U64 >= 1
      /\ FIELD \in Nat /\ U64 * U64 + U64 < FIELD
  BY WidthAssumption
<1>2. x + y \in 0 .. FIELD - 1 /\ u + v \in 0 .. FIELD - 1
  BY <1>1 DEF Amounts
<1>3. (x + y) % FIELD = x + y
  BY <1>1, <1>2
<1>4. (u + v) % FIELD = u + v
  BY <1>1, <1>2
<1> QED
  BY <1>3, <1>4

LEMMA TransferStep ==
    ASSUME IInv, NEW in1 \in Notes, NEW in2 \in Notes,
           NEW k \in Range(roots), transfer(in1, in2, k)
    PROVE  IInv' /\ Ledger!Next
<1> DEFINE S == Range(leaves) \ spent
           rest(paid) == (in1.amount + in2.amount - paid) % FIELD
<1>1. /\ leaves \in Seq(Notes) /\ Range(leaves) \subseteq Notes
      /\ S \in SUBSET Notes /\ IsFiniteSet(S)
  BY LeavesFinite, ClaimsTyped DEF IInv, TypeOK
<1>21. PICK paid \in Field :
         \E out1 \in NotesOf({paid}), out2 \in NotesOf({rest(paid)}) :
            Outputs(in1, in2, out1, out2) /\ insert(<<out1, out2>>)
  BY DEF transfer
<1>22. paid \in Nat /\ rest(paid) \in Nat
  <2>1. in1.amount \in Nat /\ in2.amount \in Nat /\ paid \in Nat
        /\ FIELD \in Nat \ {0}
    BY WidthAssumption DEF Notes, Field
  <2>2. in1.amount + in2.amount - paid \in Int
    BY <2>1
  <2> QED
    BY <2>1, <2>2
<1>23. PICK out1 \in NotesOf({paid}), out2 \in NotesOf({rest(paid)}) :
          Outputs(in1, in2, out1, out2) /\ insert(<<out1, out2>>)
  BY <1>21
<1> HIDE DEF rest
<1>2. in1 \in Notes /\ in2 \in Notes /\ out1 \in Notes /\ out2 \in Notes
  BY <1>22, <1>23 DEF NotesOf, Notes
<1>3. /\ in1 # in2 /\ in1 \notin spent /\ in2 \notin spent
      /\ in1.amount # 0 => Member(in1, k)
      /\ in2.amount # 0 => Member(in2, k)
      /\ in2.amount # 0 => in2.asset = in1.asset
      /\ out1.amount # 0 => out1.asset = in1.asset
      /\ out2.amount # 0 => out2.asset = in1.asset
      /\ (in1.amount + in2.amount) % FIELD = (out1.amount + out2.amount) % FIELD
      /\ assert_64(in1.amount) /\ assert_64(in2.amount)
      /\ assert_64(out1.amount) /\ assert_64(out2.amount)
      /\ spent' = spent \cup {in1, in2}
      /\ insert(<<out1, out2>>)
      /\ orders' = orders /\ custody' = custody /\ minted' = minted
      /\ admin' = admin /\ bridge' = bridge
  BY <1>23 DEF transfer, Inputs, Outputs, edgeVars, adminVars
<1>4. <<out1, out2>> \in Seq(Notes) /\ Range(<<out1, out2>>) = {out1, out2}
  BY <1>2, TwoNotes
<1>5. /\ TreeOK' /\ LeavesSpendable'
      /\ Range(leaves') = Range(leaves) \cup {out1, out2}
      /\ leaves' \in Seq(Notes) /\ Len(leaves') <= MAX_LEAVES
      /\ roots' \in Seq(1 .. MAX_LEAVES)
  BY <1>3, <1>4, InsertIInv
<1>6. /\ in1.amount # 0 => in1 \in Range(leaves)
      /\ in2.amount # 0 => in2 \in Range(leaves)
  BY <1>3, MemberIsLeaf
<1>7. TypeOK'
  BY <1>2, <1>3, <1>5 DEF IInv, TypeOK
<1>8. SpentWereLeaves' /\ OrdersRefundable' /\ IsFiniteSet(orders')
  BY <1>3, <1>5, <1>6 DEF IInv, SpentWereLeaves, OrdersRefundable
<1>9. IInv'
  BY <1>5, <1>7, <1>8 DEF IInv
<1>10. /\ in1.amount # 0 => in1 \in S
       /\ in2.amount # 0 => in2 \in S
  BY <1>3, <1>6
<1>11. Range(leaves') \ spent'
         \in SUBSET (((S \ {in1}) \ {in2}) \cup {out1}) \cup {out2}
  BY <1>3, <1>5
<1> DEFINE T == Range(leaves') \ spent'
<1>12. T \in SUBSET Notes /\ IsFiniteSet(T)
  BY <1>9, ClaimsTyped DEF IInv, TypeOK
<1> HIDE DEF S, T
<1>13. ASSUME NEW a \in Assets
       PROVE  NoteClaims(T, a) + OrderClaims(orders', a)
                <= NoteClaims(S, a) + OrderClaims(orders, a)
  <2>1. in1.amount + in2.amount = out1.amount + out2.amount
    BY <1>3, ConservedExactly DEF assert_64
  <2>5. NoteClaims(T, a) <= NoteClaims(S, a)
    BY <1>1, <1>2, <1>3, <1>10, <1>11, <2>1, TransferClaims DEF T
  <2>2. NoteClaims(T, a) \in Nat
    BY <1>12, NoteClaimsNat
  <2>3. NoteClaims(S, a) \in Nat
    BY <1>1, NoteClaimsNat
  <2>4. OrderClaims(orders, a) \in Nat
    BY OrderClaimsNat DEF IInv, TypeOK
  <2> QED
    BY <1>3, <2>2, <2>3, <2>4, <2>5
<1> QED
  BY <1>3, <1>9, <1>13, SettleStep DEF S, T, edgeVars

LEMMA PlaceOrderStep ==
    ASSUME IInv, NEW note, NEW k \in Range(roots),
           NEW order \in PlaceableOrders, NEW change_blinding \in Blindings,
           place_order(note, k, order, change_blinding)
    PROVE  IInv' /\ Ledger!Next
<1> DEFINE S == Range(leaves) \ spent
           change_amount == Change(note, order)
           change == Note(note.asset, change_amount, note.owner,
                          change_blinding)
<1>1. /\ note \in Range(leaves) /\ note \in Notes /\ note \notin spent
      /\ order \in Orders
      /\ LockRelation(note, order)
      /\ spent' = spent \cup {note}
      /\ orders' = orders \cup {order}
      /\ insert(IfNonZero(change))
      /\ custody' = custody /\ minted' = minted
      /\ admin' = admin /\ bridge' = bridge
  BY MemberIsLeaf DEF place_order, edgeVars, adminVars, PlaceableOrders
<1>2. /\ note.amount = LockedAmount(order) + change_amount
      /\ change_amount \in Amounts
      /\ LockedAmount(order) \in Amounts /\ LockedAmount(order) \in Nat
      /\ note.asset = LockedAsset(order)
  BY <1>1, OrdersValues, LockFullyFunded, LockNat DEF LockRelation
<1> HIDE DEF change_amount
<1>3. /\ change_amount \in Nat /\ change \in Notes
      /\ change.amount = change_amount /\ change.asset = note.asset
  BY <1>1, <1>2, AmountsNat DEF Notes, Note
<1>4. /\ S \in SUBSET Notes /\ IsFiniteSet(S) /\ note \in S
  BY <1>1, ClaimsTyped DEF IInv, TypeOK
<1> HIDE DEF change
<1>5. /\ IfNonZero(change) \in Seq(Notes)
      /\ Range(IfNonZero(change)) \subseteq {change}
  BY <1>3, OptionalNote
<1>6. \A n \in Range(IfNonZero(change)) : assert_64(n.amount)
  BY <1>2, <1>3, <1>5 DEF assert_64
<1>7. /\ TreeOK' /\ LeavesSpendable'
      /\ Range(leaves') = Range(leaves) \cup Range(IfNonZero(change))
      /\ leaves' \in Seq(Notes) /\ Len(leaves') <= MAX_LEAVES
      /\ roots' \in Seq(1 .. MAX_LEAVES)
  BY <1>1, <1>5, <1>6, InsertIInv
<1>8. IsFiniteSet(orders') /\ orders' \in SUBSET Orders
  BY <1>1, FS_AddElement DEF IInv, TypeOK
<1>9. TypeOK'
  BY <1>1, <1>7, <1>8 DEF IInv, TypeOK
<1>10. SpentWereLeaves' /\ OrdersRefundable'
  BY <1>1, <1>2, <1>7
     DEF IInv, SpentWereLeaves, OrdersRefundable, assert_64
<1>11. IInv'
  BY <1>7, <1>8, <1>9, <1>10 DEF IInv
<1> DEFINE T == Range(leaves') \ spent'
           S1 == S \ {note}
           S2 == S1 \cup Range(IfNonZero(change))
<1>12. T \in SUBSET S2
  BY <1>1, <1>7
<1>13. T \in SUBSET Notes /\ IsFiniteSet(T)
  BY <1>11, ClaimsTyped DEF IInv, TypeOK
<1>14. S1 \in SUBSET Notes /\ IsFiniteSet(S1)
  BY <1>4, FS_RemoveElement
<1> HIDE DEF S, S1, S2, T
<1>15. S2 \in SUBSET Notes /\ IsFiniteSet(S2)
  BY <1>3, <1>14, OptionalNoteClaims DEF S2
<1>16. ASSUME NEW a \in Assets
       PROVE  NoteClaims(T, a) + OrderClaims(orders', a)
                <= NoteClaims(S, a) + OrderClaims(orders, a)
  <2>1. NoteClaims(S1, a) <= NoteClaims(S, a) - NoteWorth(note, a)
    BY <1>1, <1>4, NoteClaimsSpend DEF S1
  <2>2. NoteClaims(S2, a) <= NoteClaims(S1, a) + NoteWorth(change, a)
    BY <1>3, <1>14, OptionalNoteClaims DEF S2
  <2>3. NoteClaims(T, a) <= NoteClaims(S2, a)
    BY <1>12, <1>15, NoteClaimsSubset
  <2>4. OrderClaims(orders', a) <= OrderClaims(orders, a)
                                   + OrderWorth(order, a)
    BY <1>1, OrderClaimsAdd DEF IInv, TypeOK
  <2>5. NoteWorth(note, a) = NoteWorth(change, a) + OrderWorth(order, a)
    BY <1>2, <1>3 DEF NoteWorth, OrderWorth
  <2>6. NoteClaims(S, a) \in Nat /\ NoteClaims(S1, a) \in Nat
    BY <1>4, <1>14, NoteClaimsNat
  <2>7. NoteClaims(S2, a) \in Nat /\ NoteClaims(T, a) \in Nat
    BY <1>13, <1>15, NoteClaimsNat
  <2>8. OrderClaims(orders, a) \in Nat /\ OrderClaims(orders', a) \in Nat
    BY <1>8, OrderClaimsNat DEF IInv, TypeOK
  <2>9. NoteWorth(change, a) \in Nat /\ OrderWorth(order, a) \in Nat
    BY <1>1, <1>3, NoteWorthNat, OrderWorthNat
  <2> QED
    BY <2>1, <2>2, <2>3, <2>4, <2>5, <2>6, <2>7, <2>8, <2>9
<1> QED
  BY <1>1, <1>11, <1>16, SettleStep DEF S, T, edgeVars

LEMMA CancelOrderStep ==
    ASSUME IInv, NEW order \in orders, NEW blinding \in Blindings,
           cancel_order(order, blinding)
    PROVE  IInv' /\ Ledger!Next
<1> DEFINE S == Range(leaves) \ spent
           refund == Note(LockedAsset(order), LockedAmount(order),
                          order.owner, blinding)
<1>1. /\ order \in Orders /\ orders' = orders \ {order}
      /\ insert(<<refund>>) /\ spent' = spent
      /\ custody' = custody /\ minted' = minted
      /\ admin' = admin /\ bridge' = bridge
  BY DEF cancel_order, edgeVars, adminVars, IInv, TypeOK
<1>2. LockedAmount(order) \in Nat /\ assert_64(LockedAmount(order))
  BY <1>1, LockNat DEF IInv, OrdersRefundable
<1>3. LockedAsset(order) \in Assets /\ order.owner \in Owners
  BY <1>1 DEF Orders, LockedAsset
<1>4. /\ refund \in Notes /\ refund.amount = LockedAmount(order)
      /\ refund.asset = LockedAsset(order)
  BY <1>2, <1>3 DEF Notes, Note
<1> HIDE DEF refund
<1>5. <<refund>> \in Seq(Notes) /\ Range(<<refund>>) = {refund}
  BY <1>4, OneNote
<1>6. /\ TreeOK' /\ LeavesSpendable'
      /\ Range(leaves') = Range(leaves) \cup {refund}
      /\ leaves' \in Seq(Notes) /\ Len(leaves') <= MAX_LEAVES
      /\ roots' \in Seq(1 .. MAX_LEAVES)
  BY <1>1, <1>2, <1>4, <1>5, InsertIInv
<1>7. IsFiniteSet(orders') /\ orders' \in SUBSET Orders
  BY <1>1, FS_RemoveElement DEF IInv, TypeOK
<1>8. TypeOK'
  BY <1>1, <1>6, <1>7 DEF IInv, TypeOK
<1>9. SpentWereLeaves' /\ OrdersRefundable'
  BY <1>1, <1>6 DEF IInv, SpentWereLeaves, OrdersRefundable
<1>10. IInv'
  BY <1>6, <1>7, <1>8, <1>9 DEF IInv
<1> DEFINE T == Range(leaves') \ spent'
           S1 == S \cup {refund}
<1>11. S \in SUBSET Notes /\ IsFiniteSet(S)
  BY ClaimsTyped DEF IInv, TypeOK
<1>12. T \in SUBSET Notes /\ IsFiniteSet(T)
  BY <1>10, ClaimsTyped DEF IInv, TypeOK
<1>13. T \in SUBSET S1
  BY <1>1, <1>6
<1> HIDE DEF S, S1, T
<1>14. S1 \in SUBSET Notes /\ IsFiniteSet(S1)
  BY <1>4, <1>11, FS_AddElement DEF S1
<1>15. ASSUME NEW a \in Assets
       PROVE  NoteClaims(T, a) + OrderClaims(orders', a)
                <= NoteClaims(S, a) + OrderClaims(orders, a)
  <2>1. NoteClaims(S1, a) <= NoteClaims(S, a) + NoteWorth(refund, a)
    BY <1>4, <1>11, NoteClaimsAdd DEF S1
  <2>2. NoteClaims(T, a) <= NoteClaims(S1, a)
    BY <1>13, <1>14, NoteClaimsSubset
  <2>3. OrderClaims(orders', a) = OrderClaims(orders, a)
                                  - OrderWorth(order, a)
    BY <1>1, OrderClaimsRemove DEF IInv, TypeOK
  <2>4. NoteWorth(refund, a) = OrderWorth(order, a)
    BY <1>4 DEF NoteWorth, OrderWorth
  <2>5. NoteClaims(S, a) \in Nat /\ NoteClaims(S1, a) \in Nat
    BY <1>11, <1>14, NoteClaimsNat
  <2>6. NoteClaims(T, a) \in Nat
    BY <1>12, NoteClaimsNat
  <2>7. OrderClaims(orders, a) \in Nat /\ OrderClaims(orders', a) \in Nat
    BY <1>7, OrderClaimsNat DEF IInv, TypeOK
  <2>8. OrderWorth(order, a) \in Nat
    BY <1>1, OrderWorthNat
  <2> QED
    BY <2>1, <2>2, <2>3, <2>4, <2>5, <2>6, <2>7, <2>8
<1> QED
  BY <1>1, <1>10, <1>15, SettleStep DEF S, T, edgeVars

\* A lock only shrinks when an order is filled in part.
LEMMA ResidualRefundable ==
    ASSUME NEW o \in Orders, assert_64(LockedAmount(o)),
           NEW fill \in Nat, fill <= o.amount, NEW nonce \in Nonces,
           NEW r \in Residual(o, fill, nonce)
    PROVE  assert_64(LockedAmount(r))
<1>1. r = [o EXCEPT !.amount = ResidualAmount(o, fill), !.nonce = nonce]
  BY DEF Residual
<1>2. o.amount \in Nat /\ o.price \in Nat
  BY AmountsNat DEF Orders
<1>3. ResidualAmount(o, fill) \in Nat /\ ResidualAmount(o, fill) <= o.amount
  BY <1>2 DEF ResidualAmount
<1>4. /\ r.amount = ResidualAmount(o, fill) /\ r.side = o.side
      /\ r.price = o.price
  BY <1>1 DEF Orders
<1>5. mul_div_price(r.amount, o.price) <= mul_div_price(o.amount, o.price)
  BY <1>2, <1>3, <1>4, MulDivPriceMonotone
<1>6. mul_div_price(r.amount, o.price) \in Nat
  BY <1>2, <1>3, <1>4, MulDivPriceNat
<1>7. LockedAmount(r) <= LockedAmount(o) /\ LockedAmount(r) \in Nat
  BY <1>3, <1>4, <1>5, <1>6 DEF LockedAmount
<1>8. LockedAmount(o) \in 0 .. U64 - 1 /\ U64 \in Nat
  BY WidthAssumption DEF assert_64, Amounts
<1> QED
  BY <1>7, <1>8 DEF assert_64, Amounts

\* The refund of a match fits in 64 bits, though no circuit checks it.
LEMMA RefundFits ==
    ASSUME NEW a \in Orders, NEW b \in Orders, Compatible(a, b),
           assert_64(LockedAmount(a))
    PROVE  LET refund == RefundAmount(a, Fill(a, b), QuoteFilled(a, b))
           IN  refund \in Nat /\ assert_64(refund)
<1> DEFINE fill == Fill(a, b)
           quote == QuoteFilled(a, b)
           paid == IF a.side = BUY THEN quote ELSE fill
           rest == ResidualAmount(a, fill)
           lock == IF a.side = BUY THEN mul_div_price(rest, a.price) ELSE rest
           refund == RefundAmount(a, fill, quote)
<1>1. OrderValues(a) /\ OrderValues(b)
  BY OrdersValues
<1>2. /\ lock \in Nat /\ refund \in Nat
      /\ paid + refund + lock <= LockedAmount(a)
  BY <1>1, SettlementCovered
<1>3. fill \in Nat /\ quote \in Nat
  BY <1>1, FillBounds, QuoteWithinLimits
<1>4. paid \in Nat /\ LockedAmount(a) \in Nat
  BY <1>3, LockNat
<1> HIDE DEF paid, lock, refund
<1>5. refund <= LockedAmount(a)
  BY <1>2, <1>4
<1>6. LockedAmount(a) \in 0 .. U64 - 1 /\ U64 \in Nat
  BY WidthAssumption DEF assert_64, Amounts
<1>7. assert_64(refund)
  BY <1>2, <1>5, <1>6 DEF assert_64, Amounts
<1> QED
  BY <1>2, <1>7 DEF refund

LEMMA MatchOrdersStep ==
    ASSUME IInv, NEW a \in orders, NEW b \in orders,
           NEW blindings \in MatchBlindings, NEW nonce \in Nonces,
           match_orders(a, b, blindings, nonce)
    PROVE  IInv' /\ Ledger!Next
<1> DEFINE S == Range(leaves) \ spent
           buy == IF a.side = BUY THEN a ELSE b
           sell == IF a.side = BUY THEN b ELSE a
           fill == Fill(a, b)
           quote == QuoteFilled(a, b)
           n1 == Note(a.base, fill, buy.owner, blindings.buyer)
           n2 == Note(a.quote, quote, sell.owner, blindings.seller)
           n3 == Note(a.quote, RefundAmount(a, fill, quote), a.owner,
                      blindings.refund)
           n4 == Note(b.quote, RefundAmount(b, fill, quote), b.owner,
                      blindings.refund)
           new == <<n1, n2>> \o IfNonZero(n3) \o IfNonZero(n4)
           P == (orders \ {a, b}) \cup Residual(a, fill, nonce)
                                  \cup Residual(b, fill, nonce)
<1>1. /\ a \in Orders /\ b \in Orders /\ a # b
      /\ OrderValues(a) /\ OrderValues(b)
      /\ Compatible(a, b) /\ MatchFits(a, b)
      /\ orders' = P /\ insert(new) /\ spent' = spent
      /\ custody' = custody /\ minted' = minted
      /\ admin' = admin /\ bridge' = bridge
  BY OrdersValues DEF match_orders, Refund, edgeVars, adminVars, IInv, TypeOK
<1>2. /\ Compatible(b, a) /\ Fill(b, a) = fill /\ QuoteFilled(b, a) = quote
  BY <1>1, FillSymmetric
<1>3. /\ fill \in Nat /\ fill <= a.amount /\ fill <= b.amount
      /\ quote \in Nat /\ assert_64(fill) /\ assert_64(quote)
  BY <1>1, FillBounds, QuoteWithinLimits DEF MatchFits
<1>4. /\ assert_64(LockedAmount(a)) /\ assert_64(LockedAmount(b))
  BY DEF IInv, OrdersRefundable
<1>5. /\ RefundAmount(a, fill, quote) \in Nat
      /\ assert_64(RefundAmount(a, fill, quote))
  BY <1>1, <1>4, RefundFits
<1>6. /\ RefundAmount(b, fill, quote) \in Nat
      /\ assert_64(RefundAmount(b, fill, quote))
  <2>1. /\ RefundAmount(b, Fill(b, a), QuoteFilled(b, a)) \in Nat
        /\ assert_64(RefundAmount(b, Fill(b, a), QuoteFilled(b, a)))
    BY <1>1, <1>2, <1>4, RefundFits
  <2> QED
    BY <1>2, <2>1
<1>7. /\ a.base \in Assets /\ a.quote \in Assets /\ b.quote \in Assets
      /\ buy.owner \in Owners /\ sell.owner \in Owners
      /\ a.owner \in Owners /\ b.owner \in Owners
      /\ blindings.buyer \in Blindings /\ blindings.seller \in Blindings
      /\ blindings.refund \in Blindings
  BY <1>1 DEF Orders, MatchBlindings
<1> HIDE DEF fill, quote, buy, sell
<1>8. /\ n1 \in Notes /\ n1.asset = a.base /\ n1.amount = fill
      /\ n2 \in Notes /\ n2.asset = a.quote /\ n2.amount = quote
  BY <1>3, <1>7 DEF Notes, Note
<1>9. /\ n3 \in Notes /\ n3.asset = a.quote
      /\ n3.amount = RefundAmount(a, fill, quote)
      /\ n4 \in Notes /\ n4.asset = b.quote
      /\ n4.amount = RefundAmount(b, fill, quote)
  BY <1>5, <1>6, <1>7 DEF Notes, Note
<1> HIDE DEF n1, n2, n3, n4
<1>10. /\ new \in Seq(Notes)
       /\ Range(new) = {n1, n2} \cup Range(IfNonZero(n3))
                                \cup Range(IfNonZero(n4))
  <2> DEFINE t12 == <<n1, n2>>
             t3 == IfNonZero(n3)
             t4 == IfNonZero(n4)
  <2>1. t12 \in Seq(Notes) /\ Range(t12) = {n1, n2}
    BY <1>8, TwoNotes
  <2>2. t3 \in Seq(Notes) /\ t4 \in Seq(Notes)
    BY <1>9, OptionalNote
  <2> HIDE DEF t12, t3, t4
  <2>3. t12 \o t3 \in Seq(Notes)
    BY <2>1, <2>2, ConcatProperties
  <2>4. Range(t12 \o t3) = Range(t12) \cup Range(t3)
    BY <2>1, <2>2, RangeConcat
  <2>5. (t12 \o t3) \o t4 \in Seq(Notes)
    BY <2>2, <2>3, ConcatProperties
  <2>6. Range((t12 \o t3) \o t4) = Range(t12 \o t3) \cup Range(t4)
    BY <2>2, <2>3, RangeConcat
  <2> QED
    BY <2>1, <2>4, <2>5, <2>6 DEF t12, t3, t4
<1>11. \A n \in Range(new) : assert_64(n.amount)
  <2>1. Range(IfNonZero(n3)) \subseteq {n3}
        /\ Range(IfNonZero(n4)) \subseteq {n4}
    BY <1>9, OptionalNote
  <2> HIDE DEF new
  <2> QED
    BY <1>3, <1>5, <1>6, <1>8, <1>9, <1>10, <2>1
<1> HIDE DEF new, P
<1>12. /\ TreeOK' /\ LeavesSpendable'
       /\ Range(leaves') = Range(leaves) \cup Range(new)
       /\ leaves' \in Seq(Notes) /\ Len(leaves') <= MAX_LEAVES
       /\ roots' \in Seq(1 .. MAX_LEAVES)
  BY <1>1, <1>10, <1>11, InsertIInv
<1>13. ASSUME NEW x
       PROVE  /\ PaidWorth(a, fill, quote, x) \in Nat
              /\ RefundWorth(a, fill, quote, x) \in Nat
              /\ RestWorth(a, fill, x) \in Nat
              /\ PaidWorth(a, fill, quote, x)
                   + RefundWorth(a, fill, quote, x)
                   + RestWorth(a, fill, x) <= OrderWorth(a, x)
  BY <1>1, SettleOne DEF fill, quote
<1>14. ASSUME NEW x
       PROVE  /\ PaidWorth(b, fill, quote, x) \in Nat
              /\ RefundWorth(b, fill, quote, x) \in Nat
              /\ RestWorth(b, fill, x) \in Nat
              /\ PaidWorth(b, fill, quote, x)
                   + RefundWorth(b, fill, quote, x)
                   + RestWorth(b, fill, x) <= OrderWorth(b, x)
  <2> DEFINE f == Fill(b, a)
             q == QuoteFilled(b, a)
  <2>1. /\ PaidWorth(b, f, q, x) \in Nat
        /\ RefundWorth(b, f, q, x) \in Nat
        /\ RestWorth(b, f, x) \in Nat
        /\ PaidWorth(b, f, q, x) + RefundWorth(b, f, q, x)
             + RestWorth(b, f, x) <= OrderWorth(b, x)
    BY <1>1, <1>2, SettleOne
  <2>2. f = fill /\ q = quote
    BY <1>2
  <2> QED
    BY <2>1, <2>2
<1>15. ASSUME NEW x
       PROVE  /\ P \in SUBSET Orders /\ IsFiniteSet(P)
              /\ OrderClaims(P, x)
                   <= OrderClaims(orders, x) - OrderWorth(a, x)
                      - OrderWorth(b, x)
                      + RestWorth(a, fill, x) + RestWorth(b, fill, x)
  <2>1. orders \in SUBSET Orders /\ IsFiniteSet(orders)
    BY DEF IInv, TypeOK
  <2>2. RestWorth(a, fill, x) \in Nat
    BY <1>13
  <2>3. RestWorth(b, fill, x) \in Nat
    BY <1>14
  <2> QED
    BY <1>1, <1>3, <2>1, <2>2, <2>3, MatchedOrders DEF P
<1>16. P \in SUBSET Orders /\ IsFiniteSet(P)
  BY <1>15
<1>17. TypeOK'
  BY <1>1, <1>12, <1>16 DEF IInv, TypeOK
<1>18. OrdersRefundable'
  <2>1. \A r \in Residual(a, fill, nonce) : assert_64(LockedAmount(r))
    BY <1>1, <1>3, <1>4, ResidualRefundable
  <2>2. \A r \in Residual(b, fill, nonce) : assert_64(LockedAmount(r))
    BY <1>1, <1>3, <1>4, ResidualRefundable
  <2> QED
    BY <1>1, <2>1, <2>2 DEF IInv, OrdersRefundable, P
<1>19. SpentWereLeaves'
  BY <1>1, <1>12 DEF IInv, SpentWereLeaves
<1>20. IInv'
  BY <1>1, <1>12, <1>16, <1>17, <1>18, <1>19 DEF IInv
<1> DEFINE T == Range(leaves') \ spent'
<1>21. S \in SUBSET Notes /\ IsFiniteSet(S)
  BY ClaimsTyped DEF IInv, TypeOK
<1>22. T \in SUBSET Notes /\ IsFiniteSet(T)
  BY <1>20, ClaimsTyped DEF IInv, TypeOK
<1>23. T \in SUBSET ((((S \cup {n1}) \cup {n2})
                        \cup Range(IfNonZero(n3)))
                        \cup Range(IfNonZero(n4)))
  BY <1>1, <1>10, <1>12
<1> HIDE DEF S, T
<1>24. ASSUME NEW x \in Assets
       PROVE  NoteClaims(T, x) + OrderClaims(orders', x)
                <= NoteClaims(S, x) + OrderClaims(orders, x)
  <2>1. NoteClaims(T, x)
          <= NoteClaims(S, x) + NoteWorth(n1, x) + NoteWorth(n2, x)
             + NoteWorth(n3, x) + NoteWorth(n4, x)
    BY <1>8, <1>9, <1>21, <1>23, FourNotes
  <2>2. NoteWorth(n3, x) = RefundWorth(a, fill, quote, x)
        /\ NoteWorth(n4, x) = RefundWorth(b, fill, quote, x)
    BY <1>9 DEF NoteWorth, RefundWorth
  <2>3. NoteWorth(n1, x) + NoteWorth(n2, x)
          = PaidWorth(a, fill, quote, x) + PaidWorth(b, fill, quote, x)
    <3>1. /\ a.base = b.base /\ a.quote = b.quote /\ a.side # b.side
          /\ a.side \in {BUY, SELL} /\ b.side \in {BUY, SELL}
      BY <1>1 DEF Compatible, Orders
    <3>2. /\ NoteWorth(n1, x) = IF a.base = x THEN fill ELSE 0
          /\ NoteWorth(n2, x) = IF a.quote = x THEN quote ELSE 0
      BY <1>8 DEF NoteWorth
    <3>3. CASE a.side = BUY
      <4>1. b.side = SELL /\ b.side # BUY
        BY <3>1, <3>3 DEF BUY, SELL
      <4>2. PaidWorth(a, fill, quote, x) = IF a.quote = x THEN quote ELSE 0
        BY <3>3 DEF PaidWorth, LockedAsset
      <4>3. PaidWorth(b, fill, quote, x) = IF a.base = x THEN fill ELSE 0
        BY <3>1, <4>1 DEF PaidWorth, LockedAsset
      <4> QED
        BY <1>3, <3>2, <4>2, <4>3
    <3>4. CASE a.side # BUY
      <4>1. b.side = BUY
        BY <3>1, <3>4 DEF BUY, SELL
      <4>2. PaidWorth(a, fill, quote, x) = IF a.base = x THEN fill ELSE 0
        BY <3>4 DEF PaidWorth, LockedAsset
      <4>3. PaidWorth(b, fill, quote, x) = IF a.quote = x THEN quote ELSE 0
        BY <3>1, <4>1 DEF PaidWorth, LockedAsset
      <4> QED
        BY <1>3, <3>2, <4>2, <4>3
    <3> QED
      BY <3>3, <3>4
  <2>4. OrderClaims(orders', x)
          <= OrderClaims(orders, x) - OrderWorth(a, x) - OrderWorth(b, x)
             + RestWorth(a, fill, x) + RestWorth(b, fill, x)
    BY <1>1, <1>15
  <2>5. NoteClaims(S, x) \in Nat /\ NoteClaims(T, x) \in Nat
    BY <1>21, <1>22, NoteClaimsNat
  <2>6. OrderClaims(orders, x) \in Nat
    BY OrderClaimsNat DEF IInv, TypeOK
  <2>7. OrderClaims(orders', x) \in Nat
    BY <1>1, <1>16, OrderClaimsNat
  <2>8. NoteWorth(n1, x) \in Nat /\ NoteWorth(n2, x) \in Nat
    BY <1>8, NoteWorthNat
  <2>9. OrderWorth(a, x) \in Nat /\ OrderWorth(b, x) \in Nat
    BY <1>1, OrderWorthNat
  <2>10. PaidWorth(a, fill, quote, x) + RefundWorth(a, fill, quote, x)
           + RestWorth(a, fill, x) <= OrderWorth(a, x)
    BY <1>13
  <2>11. PaidWorth(b, fill, quote, x) + RefundWorth(b, fill, quote, x)
           + RestWorth(b, fill, x) <= OrderWorth(b, x)
    BY <1>14
  <2>12. /\ PaidWorth(a, fill, quote, x) \in Nat
         /\ RefundWorth(a, fill, quote, x) \in Nat
         /\ RestWorth(a, fill, x) \in Nat
    BY <1>13
  <2>13. /\ PaidWorth(b, fill, quote, x) \in Nat
         /\ RefundWorth(b, fill, quote, x) \in Nat
         /\ RestWorth(b, fill, x) \in Nat
    BY <1>14
  <2> QED
    BY <2>1, <2>2, <2>3, <2>4, <2>5, <2>6, <2>7, <2>8, <2>9, <2>10, <2>11,
       <2>12, <2>13
<1> QED
  BY <1>1, <1>20, <1>24, SettleStep DEF S, T, edgeVars

-----------------------------------------------------------------------------
(* Every step                                                              *)

LEMMA StutterStep ==
    ASSUME IInv, UNCHANGED vars
    PROVE  IInv' /\ UNCHANGED <<Reserve, Claims>>
<1>1. /\ leaves' = leaves /\ roots' = roots /\ spent' = spent
      /\ orders' = orders /\ custody' = custody /\ minted' = minted
      /\ admin' = admin /\ bridge' = bridge
  BY DEF vars
<1>2. IInv'
  BY <1>1 DEF IInv, TypeOK, TreeOK, RootShape, SpentWereLeaves,
              OrdersRefundable, LeavesSpendable
<1>3. Reserve' = Reserve
  BY <1>1 DEF Reserve
<1>4. Claims' = Claims
  BY <1>1 DEF Claims
<1> QED
  BY <1>2, <1>3, <1>4

LEMMA ClaimableNotes == IInv => Claimable \subseteq Notes
<1> SUFFICES ASSUME IInv PROVE Claimable \subseteq Notes
  OBVIOUS
<1>1. Range(leaves) \subseteq Notes
  BY LeavesFinite DEF IInv, TypeOK
<1>2. NotesOf(Amounts) \subseteq Notes
  BY AmountsNat DEF NotesOf, Notes
<1> QED
  BY <1>1, <1>2 DEF Claimable

LEMMA NextStep == IInv /\ Next => IInv' /\ Ledger!Next
<1> SUFFICES ASSUME IInv, Next PROVE IInv' /\ Ledger!Next
  OBVIOUS
<1>1. CASE Edge
  <2>1. CASE \E note \in NotesOf(Deposits) : deposit(note)
    BY <2>1, DepositStep
  <2>2. CASE \E note \in NotesOf(Deposits) : bridge_mint(note)
    BY <2>2, BridgeMintStep
  <2>3. CASE \E caller \in Admins, b \in Bridges : set_bridge(caller, b)
    BY <2>3, SetBridgeStep
  <2>4. CASE \E note \in Claimable, k \in Range(roots) : withdraw(note, k)
    BY <2>4, WithdrawStep
  <2> QED
    BY <1>1, <2>1, <2>2, <2>3, <2>4 DEF Edge
<1>2. CASE Pay
  <2>1. PICK in1 \in Claimable, in2 \in Claimable, k \in Range(roots) :
          transfer(in1, in2, k)
    BY <1>2 DEF Pay
  <2>2. in1 \in Notes /\ in2 \in Notes
    BY ClaimableNotes
  <2> QED
    BY <2>1, <2>2, TransferStep
<1>3. CASE Swap
  <2>1. CASE \E note \in Claimable, k \in Range(roots),
                o \in PlaceableOrders, change_blinding \in Blindings :
                place_order(note, k, o, change_blinding)
    BY <2>1, PlaceOrderStep
  <2>2. CASE \E a, b \in orders, blindings \in MatchBlindings,
                nonce \in Nonces : match_orders(a, b, blindings, nonce)
    BY <2>2, MatchOrdersStep
  <2>3. CASE \E o \in orders, blinding \in Blindings :
                cancel_order(o, blinding)
    BY <2>3, CancelOrderStep
  <2> QED
    BY <1>3, <2>1, <2>2, <2>3 DEF Swap
<1> QED
  BY <1>1, <1>2, <1>3 DEF Next

LEMMA StepIInv == IInv /\ [Next]_vars => IInv'
BY NextStep, StutterStep

LEMMA InitLedger == Init => Ledger!Init
<1> SUFFICES ASSUME Init PROVE Ledger!Init
  OBVIOUS
<1>1. /\ leaves = <<>> /\ spent = {} /\ orders = {}
      /\ custody = [a \in Assets |-> 0] /\ minted = [a \in Assets |-> 0]
  BY DEF Init, EmptyTree
<1>2. Reserve = [a \in Assets |-> 0]
  BY <1>1 DEF Reserve
<1>3. Range(leaves) \ spent = {}
  BY <1>1 DEF Range
<1>4. ASSUME NEW a
      PROVE  NoteClaims({}, a) = 0 /\ OrderClaims({}, a) = 0
  <2>1. {n \in {} : n.asset = a} = {} /\ {o \in {} : LockedAsset(o) = a} = {}
    OBVIOUS
  <2>2. NoteClaims({}, a) = Total({}, AmountOf)
    BY <2>1 DEF NoteClaims
  <2>3. OrderClaims({}, a) = Total({}, LockOf)
    BY <2>1 DEF OrderClaims
  <2>4. Total({}, AmountOf) = 0 /\ Total({}, LockOf) = 0
    BY TotalEmpty
  <2> QED
    BY <2>2, <2>3, <2>4
<1>5. \A a \in Assets : NoteClaims(Range(leaves) \ spent, a)
                            + OrderClaims(orders, a) = 0
  <2> SUFFICES ASSUME NEW a \in Assets
               PROVE  NoteClaims(Range(leaves) \ spent, a)
                        + OrderClaims(orders, a) = 0
    OBVIOUS
  <2>1. NoteClaims(Range(leaves) \ spent, a) = 0
    BY <1>3, <1>4
  <2>2. OrderClaims(orders, a) = 0
    BY <1>1, <1>4
  <2> QED
    BY <2>1, <2>2
<1>6. Claims = [a \in Assets |-> 0]
  BY <1>5 DEF Claims
<1> QED
  BY <1>2, <1>6 DEF Ledger!Init

LEMMA IInvAlways == Spec => []IInv
BY InitIInv, StepIInv, PTL DEF Spec

-----------------------------------------------------------------------------
(* The theorems                                                            *)

\* Every value stored by the pool has its type and the tree never outgrows
\* its capacity, whichever calls are made.
THEOREM PoolTyped == Spec => []TypeOK
<1>1. IInv => TypeOK
  BY DEF IInv
<1> QED
  BY <1>1, IInvAlways, PTL

\* A nullifier with value always belongs to a note of the tree: no proof the
\* pool accepts spends a note that was never inserted.
THEOREM SpentWereLeavesAlways == Spec => []SpentWereLeaves
<1>1. IInv => SpentWereLeaves
  BY DEF IInv
<1> QED
  BY <1>1, IInvAlways, PTL

\* The lock of an active order always passes cancel_order's range check:
\* place_order and every chain of partial fills keep it within 64 bits.
THEOREM OrdersRefundableAlways == Spec => []OrdersRefundable
<1>1. IInv => OrdersRefundable
  BY DEF IInv
<1> QED
  BY <1>1, IInvAlways, PTL

\* Every note a call inserts, refunds among them, can pass the range check
\* of the circuits that spend it.
THEOREM LeavesSpendableAlways == Spec => []LeavesSpendable
<1>1. IInv => LeavesSpendable
  BY DEF IInv
<1> QED
  BY <1>1, IInvAlways, PTL

\* The ring of accepted roots holds exactly the roots of the last
\* ROOT_HISTORY leaves, for every capacity and every window.
THEOREM RootWindowAlways == Spec => []RootWindow
<1>1. IInv => RootWindow
  BY WindowOfShape DEF IInv
<1> QED
  BY <1>1, IInvAlways, PTL

\* The pool, with its tree, nullifiers, orders and circuits, implements the
\* ledger: value moves only at the edges and is never created inside.
THEOREM PoolImplementsLedger == Spec => ImplementsLedger
<1>1. IInv /\ [Next]_vars => [Ledger!Next]_(Ledger!ledgerVars)
  BY NextStep, StutterStep DEF Ledger!ledgerVars
<1> QED
  BY <1>1, InitLedger, IInvAlways, PTL DEF Spec, ImplementsLedger, Ledger!Spec

LEMMA ClaimsReserveTyped ==
    IInv => Claims \in [Assets -> Nat] /\ Reserve \in [Assets -> Nat]
<1> SUFFICES ASSUME IInv
             PROVE  Claims \in [Assets -> Nat] /\ Reserve \in [Assets -> Nat]
  OBVIOUS
<1>1. \A a : NoteClaims(Range(leaves) \ spent, a) + OrderClaims(orders, a)
               \in Nat
  BY ClaimsTyped DEF IInv, TypeOK
<1>2. Claims \in [Assets -> Nat]
  BY <1>1 DEF Claims
<1>3. \A a \in Assets : custody[a] + minted[a] \in Nat
  BY DEF IInv, TypeOK
<1>4. Reserve \in [Assets -> Nat]
  BY <1>3 DEF Reserve
<1> QED
  BY <1>2, <1>4

LEMMA LedgerSolvent ==
    ASSUME Claims \in [Assets -> Nat], Reserve \in [Assets -> Nat],
           Ledger!Solvent, Ledger!Next
    PROVE  Ledger!Solvent'
<1> DEFINE c == Claims
           r == Reserve
           d == Claims'
           s == Reserve'
<1>1. \A a \in Assets : c[a] <= r[a]
  BY DEF Ledger!Solvent
<1>2. c \in [Assets -> Nat] /\ r \in [Assets -> Nat]
  OBVIOUS
<1>3. CASE \E a \in Assets : Ledger!Enter(a) \/ Ledger!Exit(a)
  <2>1. PICK x \in Assets : Ledger!Enter(x) \/ Ledger!Exit(x)
    BY <1>3
  <2>2. /\ s \in [Assets -> Nat] /\ d \in [Assets -> Nat]
        /\ \A y \in Assets \ {x} : s[y] = r[y] /\ d[y] <= c[y]
        /\ d[x] - c[x] <= s[x] - r[x] \/ c[x] - d[x] >= r[x] - s[x]
    BY <2>1 DEF Ledger!Enter, Ledger!Exit
  <2> HIDE DEF c, r, d, s
  <2>3. ASSUME NEW y \in Assets PROVE d[y] <= s[y]
    <3>1. c[y] \in Nat /\ r[y] \in Nat /\ d[y] \in Nat /\ s[y] \in Nat
      BY <1>2, <2>2
    <3>2. CASE y = x
      BY <1>1, <2>2, <3>1, <3>2
    <3>3. CASE y # x
      BY <1>1, <2>2, <3>1, <3>3
    <3> QED
      BY <3>2, <3>3
  <2> QED
    BY <2>3 DEF Ledger!Solvent, d, s
<1>4. CASE Ledger!Settle
  <2>1. /\ s = r /\ d \in [Assets -> Nat]
        /\ \A y \in Assets : d[y] <= c[y]
    BY <1>4 DEF Ledger!Settle
  <2> HIDE DEF c, r, d, s
  <2>2. ASSUME NEW y \in Assets PROVE d[y] <= s[y]
    <3>1. c[y] \in Nat /\ r[y] \in Nat /\ d[y] \in Nat
      BY <1>2, <2>1
    <3> QED
      BY <1>1, <2>1, <3>1
  <2> QED
    BY <2>2 DEF Ledger!Solvent, d, s
<1> QED
  BY <1>3, <1>4 DEF Ledger!Next

\* What the pool owes inside, asset by asset, is always backed by the tokens
\* it holds and the value that came over the bridge.
THEOREM PoolSolvent == Spec => []Solvency
<1>1. Init => Solvency
  BY InitLedger DEF Ledger!Init, Ledger!Solvent, Solvency
<1>2. IInv /\ Solvency /\ [Next]_vars => Solvency'
  <2> SUFFICES ASSUME IInv, Solvency, [Next]_vars PROVE Solvency'
    OBVIOUS
  <2>1. CASE Next
    <3>1. Ledger!Next
      BY <2>1, NextStep
    <3>2. Claims \in [Assets -> Nat] /\ Reserve \in [Assets -> Nat]
      BY ClaimsReserveTyped
    <3> QED
      BY <3>1, <3>2, LedgerSolvent DEF Solvency
  <2>2. CASE UNCHANGED vars
    BY <2>2, StutterStep DEF Solvency, Ledger!Solvent
  <2> QED
    BY <2>1, <2>2
<1> QED
  BY <1>1, <1>2, IInvAlways, PTL DEF Spec
=============================================================================
