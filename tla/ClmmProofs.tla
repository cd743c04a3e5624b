----------------------------- MODULE ClmmProofs -----------------------------
(* Private operations are serial and public liquidity is owned, for every  *)
(* number of pools, owners, keys and operations.                           *)
EXTENDS Clmm, ArithmeticProofs, SequenceTheorems

-----------------------------------------------------------------------------
(* The inductive invariant: the properties, with what is in the leaves and *)
(* in the history.                                                         *)

Kinds == {"note", "position", "other"}
Leaf == Kinds \X (Assets \cup Nat) \X Nat
Nullifier == Leaf \X SpendingKeys
Operations == {"mint", "burn", "swap", "collect"}
Entry ==
    [op : Operations \cup {"public"}, pool : Nat, sequence : Nat, root : Nat,
     spent : SUBSET Nullifier, grew : Nat]

\* What a circuit lets through: nullifiers, one of them of a leaf under the
\* root, and new leaves.
Provable(root, proved) ==
    \A p \in proved : /\ p.spent \in SUBSET Nullifier
                      /\ p.new \in Seq(Leaf)
                      /\ \E n \in p.spent : n[1] \in Leaves(root)

Shape ==
    /\ leaves \in Seq(Leaf)
    /\ log \in Seq(Entry)
    /\ \A i \in 1 .. Len(log) : log[i].pool \in Known

IInv == TypeOK /\ Shape /\ Serial /\ LiquidityBacked

LEMMA KeysFinite ==
    ASSUME NEW id \in PoolIds
    PROVE  IsFiniteSet(Keys(id)) /\ Keys(id) \in SUBSET PositionKeys
<1>1. IsFiniteSet(Owners) /\ IsFiniteSet(Ticks)
  BY ClmmAssumption
<1>2. IsFiniteSet({id})
  BY FS_Singleton
<1> DEFINE f == [t \in (Owners \X {id}) \X (Ticks \X Ticks)
                   |-> <<t[1][1], t[1][2], t[2][1], t[2][2]>>]
           pairs == (Owners \X {id}) \X (Ticks \X Ticks)
<1>3. IsFiniteSet(Owners \X {id}) /\ IsFiniteSet(Ticks \X Ticks)
  BY <1>1, <1>2, FS_Product
<1>4. IsFiniteSet(pairs)
  BY <1>3, FS_Product
<1>5. f \in Surjection(pairs, Keys(id))
  <2>1. f \in [pairs -> Keys(id)]
    BY DEF Keys
  <2>2. ASSUME NEW k \in Keys(id) PROVE \E t \in pairs : f[t] = k
    <3>1. PICK o \in Owners, l \in Ticks, u \in Ticks : k = <<o, id, l, u>>
      BY DEF Keys
    <3>2. f[<<<<o, id>>, <<l, u>>>>] = k /\ <<<<o, id>>, <<l, u>>>> \in pairs
      BY <3>1
    <3> QED
      BY <3>2
  <2> QED
    BY <2>1, <2>2 DEF Surjection
<1>6. IsFiniteSet(Keys(id))
  BY <1>4, <1>5, FS_Surjection
<1> QED
  BY <1>6 DEF Keys, PositionKeys

-----------------------------------------------------------------------------
(* What a step owes the history                                            *)

\* What was under a root stays under it.
LEMMA LeavesStay ==
    ASSUME NEW root \in Nat, NEW grew \in Nat, Len(leaves) \in Nat,
           root + grew <= Len(leaves),
           \A k \in 1 .. Len(leaves) : leaves'[k] = leaves[k]
    PROVE  {leaves'[k] : k \in 1 .. root} = Leaves(root)
<1>1. \A k \in 1 .. root : leaves'[k] = leaves[k]
  OBVIOUS
<1> QED
  BY <1>1 DEF Leaves

\* A step that touches no pool's sequence and only adds leaves.
LEMMA SerialKept ==
    ASSUME IInv, log' = log, nullifiers' = nullifiers,
           leaves' \in Seq(Leaf), Len(leaves) <= Len(leaves'),
           \A k \in 1 .. Len(leaves) : leaves'[k] = leaves[k],
           \A id \in Known : pools'[id].sequence = pools[id].sequence
    PROVE  Serial'
<1>1. ASSUME NEW i \in 1 .. Len(log)
      PROVE  /\ log[i].sequence < pools'[log[i].pool].sequence
             /\ log[i].root + log[i].grew <= Len(leaves')
             /\ log[i].spent \subseteq nullifiers
             /\ log[i].op # "public" =>
                   \E x \in log[i].spent : x[1] \in Leaves(log[i].root)'
  <2>1. log[i] \in Entry /\ log[i].pool \in Known
    BY DEF IInv, Shape
  <2>2. log[i].root + log[i].grew \in Nat
    BY <2>1 DEF Entry
  <2>3. log[i].root + log[i].grew <= Len(leaves)
    BY DEF IInv, Serial, Root
  <2>4. Len(leaves) \in Nat /\ Len(leaves') \in Nat
    BY LenProperties DEF IInv, Shape
  <2>5. log[i].root + log[i].grew <= Len(leaves')
    BY <2>2, <2>3, <2>4
  <2>6. {leaves'[k] : k \in 1 .. log[i].root} = Leaves(log[i].root)
    <3>1. log[i].root \in Nat /\ log[i].grew \in Nat
      BY <2>1 DEF Entry
    <3> QED
      BY <3>1, <2>3, <2>4, LeavesStay
  <2>7. Leaves(log[i].root)' = Leaves(log[i].root)
    BY <2>6 DEF Leaves
  <2> QED
    BY <2>1, <2>5, <2>7 DEF IInv, Serial
<1>2. \A j \in 1 .. Len(log) : \A i \in 1 .. j - 1 :
         /\ log[i].pool = log[j].pool => log[i].sequence < log[j].sequence
         /\ log[j].op # "public" => log[i].root + log[i].grew <= log[j].root
         /\ log[i].spent \cap log[j].spent = {}
  BY DEF IInv, Serial
<1> QED
  BY <1>1, <1>2 DEF Serial, Root

\* A number below another stays below it when that grows by one, or not.
LEMMA StillBelow ==
    ASSUME NEW a \in Nat, NEW b \in Nat, NEW c \in {b, b + 1}, a < b
    PROVE  a < c
OBVIOUS

\* A step that uses up the state a pool is in, and only that one.
LEMMA SerialExtended ==
    ASSUME IInv, NEW e \in Entry, e.pool \in Known, log' = Append(log, e),
           nullifiers' = nullifiers \cup e.spent, e.spent \cap nullifiers = {},
           leaves' \in Seq(Leaf), Len(leaves) <= Len(leaves'),
           \A k \in 1 .. Len(leaves) : leaves'[k] = leaves[k],
           e.op # "public" => \E x \in e.spent : x[1] \in Leaves(e.root),
           e.root + e.grew <= Len(leaves'),
           e.op # "public" => e.root = Len(leaves),
           e.sequence = pools[e.pool].sequence,
           pools'[e.pool].sequence = pools[e.pool].sequence + 1,
           \A id \in Known : id # e.pool =>
                                pools'[id].sequence = pools[id].sequence
    PROVE  Serial'
<1> DEFINE n == Len(log)
<1>1. n \in Nat /\ log \in Seq(Entry)
  BY LenProperties DEF IInv, Shape
<1>2. /\ Len(log') = n + 1 /\ log'[n + 1] = e
      /\ \A i \in 1 .. n : log'[i] = log[i]
  BY <1>1, AppendProperties
<1>3. \A i \in 1 .. n : log[i] \in Entry /\ log[i].pool \in Known
  BY <1>1 DEF IInv, Shape
<1>4. /\ \A id \in Known : pools[id].sequence \in Nat
      /\ Len(leaves) \in Nat /\ Len(leaves') \in Nat
  <2>1. leaves \in Seq(Leaf)
    BY DEF IInv, Shape
  <2>2. \A id \in Known : pools[id] \in PoolState
    BY DEF IInv, TypeOK, Known
  <2> QED
    BY <2>1, <2>2, LenProperties DEF PoolState
<1>5. /\ \A i \in 1 .. n : /\ log[i].sequence < pools[log[i].pool].sequence
                           /\ log[i].root + log[i].grew <= Len(leaves)
                           /\ log[i].spent \subseteq nullifiers
                           /\ log[i].op # "public" =>
                                 \E x \in log[i].spent : x[1] \in Leaves(log[i].root)
      /\ \A j \in 1 .. n : \A i \in 1 .. j - 1 :
            /\ log[i].pool = log[j].pool => log[i].sequence < log[j].sequence
            /\ log[j].op # "public" => log[i].root + log[i].grew <= log[j].root
            /\ log[i].spent \cap log[j].spent = {}
  BY DEF IInv, Serial, Root
<1> HIDE DEF n
<1>0. n \in Nat
  BY <1>1
<1>s. \A k \in 1 .. n + 1 : k = n + 1 \/ k \in 1 .. n
  BY <1>0
<1>b. ASSUME NEW id \in Known, NEW m \in Nat, m < pools[id].sequence
      PROVE  m < pools'[id].sequence
  <2>1. CASE id = e.pool
    <3>1. pools[id].sequence \in Nat /\ pools'[id].sequence = pools[id].sequence + 1
      BY <2>1, <1>4
    <3> QED
      BY <3>1, <1>b, StillBelow
  <2>2. CASE id # e.pool
    BY <2>2, <1>b
  <2> QED
    BY <2>1, <2>2
<1>6. ASSUME NEW i \in 1 .. n + 1
      PROVE  /\ log'[i].sequence < pools'[log'[i].pool].sequence
             /\ log'[i].root + log'[i].grew <= Len(leaves')
             /\ log'[i].spent \subseteq nullifiers'
             /\ log'[i].op # "public" =>
                   \E x \in log'[i].spent :
                       x[1] \in {leaves'[k] : k \in 1 .. log'[i].root}
  <2>1. CASE i = n + 1
    <3>1. e.op # "public" => {leaves'[k] : k \in 1 .. e.root} = Leaves(e.root)
      <4>1. e.op # "public" => e.root \in Nat /\ e.root + 0 <= Len(leaves)
        BY <1>4
      <4> QED
        BY <4>1, <1>4, LeavesStay
    <3>2. e.op # "public" =>
             \E x \in e.spent : x[1] \in {leaves'[k] : k \in 1 .. e.root}
      BY <3>1
    <3> QED
      BY <2>1, <3>2, <1>2, <1>4 DEF Entry
  <2>2. CASE i \in 1 .. n
    <3>1. log[i].sequence \in Nat /\ log[i].root \in Nat /\ log[i].grew \in Nat
      BY <2>2, <1>3 DEF Entry
    <3>2. log[i].pool \in Known
      BY <2>2, <1>3
    <3>3. log[i].sequence < pools[log[i].pool].sequence
      BY <2>2, <1>5
    <3>4. log[i].sequence < pools'[log[i].pool].sequence
      BY <3>1, <3>2, <3>3, <1>b
    <3>5. log[i].root + log[i].grew <= Len(leaves')
      BY <2>2, <3>1, <1>4, <1>5
    <3>6. log[i].spent \subseteq nullifiers'
      BY <2>2, <1>5
    <3>7. {leaves'[k] : k \in 1 .. log[i].root} = Leaves(log[i].root)
      BY <2>2, <3>1, <1>4, <1>5, LeavesStay
    <3>8. log[i].op # "public" =>
             \E x \in log[i].spent :
                 x[1] \in {leaves'[k] : k \in 1 .. log[i].root}
      BY <2>2, <3>7, <1>5
    <3> QED
      BY <2>2, <3>4, <3>5, <3>6, <3>8, <1>2
  <2>3. i = n + 1 \/ i \in 1 .. n
    BY <1>1
  <2> QED
    BY <2>1, <2>2, <2>3
<1>7. ASSUME NEW j \in 1 .. n + 1, NEW i \in 1 .. j - 1
      PROVE  /\ log'[i].pool = log'[j].pool => log'[i].sequence < log'[j].sequence
             /\ log'[j].op # "public" =>
                   log'[i].root + log'[i].grew <= log'[j].root
             /\ log'[i].spent \cap log'[j].spent = {}
  <2>1. i \in 1 .. n
    BY <1>1
  <2>2. CASE j = n + 1
    <3>1. log'[i] = log[i] /\ log'[j] = e
      BY <2>1, <2>2, <1>2
    <3>2. log[i].pool = e.pool => log[i].sequence < e.sequence
      BY <2>1, <1>5
    <3>3. e.op # "public" => log[i].root + log[i].grew <= e.root
      BY <2>1, <1>5
    <3>4. log[i].spent \cap e.spent = {}
      BY <2>1, <1>5
    <3> QED
      BY <3>1, <3>2, <3>3, <3>4
  <2>3. CASE j \in 1 .. n
    BY <2>1, <2>3, <1>2, <1>5
  <2>4. j = n + 1 \/ j \in 1 .. n
    BY <1>s
  <2> QED
    BY <2>2, <2>3, <2>4
<1> QED
  BY <1>2, <1>6, <1>7 DEF Serial, Root, Leaves

-----------------------------------------------------------------------------
(* Public liquidity                                                        *)

\* A position and its pool grow, or shrink, by the same amount, each within
\* 128 bits.
LEMMA Saturating ==
    ASSUME NEW a \in 0 .. MAX_U128, NEW b \in 0 .. MAX_U128
    PROVE  /\ saturating_add(a, b) \in 0 .. MAX_U128
           /\ saturating_add(a, b) <= a + b
           /\ saturating_add(a, b) = a + b \/ saturating_add(a, b) = MAX_U128
           /\ saturating_sub(a, b) \in 0 .. MAX_U128
           /\ saturating_sub(a, b) = IF b > a THEN 0 ELSE a - b
BY ClmmAssumption DEF saturating_add, saturating_sub

LEMMA KeyOfPool ==
    ASSUME NEW o \in Owners, NEW id \in PoolIds, NEW l \in Ticks, NEW u \in Ticks
    PROVE  /\ <<o, id, l, u>> \in Keys(id) /\ <<o, id, l, u>> \in PositionKeys
           /\ \A other \in PoolIds \ {id} : <<o, id, l, u>> \notin Keys(other)
BY DEF Keys, PositionKeys

\* A position is part of its pool's total.
LEMMA PoolMember ==
    ASSUME positions \in [PositionKeys -> 0 .. MAX_U128],
           NEW id \in PoolIds, NEW key \in Keys(id)
    PROVE  positions[key] <= Total(Keys(id), positions)
<1>1. IsFiniteSet(Keys(id)) /\ Keys(id) \in SUBSET PositionKeys
  BY KeysFinite
<1>2. \A x \in Keys(id) : positions[x] \in Nat
  BY <1>1, ClmmAssumption
<1> QED
  BY <1>1, <1>2, TotalUpdate

\* When one position changes, the total of its pool changes by as much and
\* that of every other pool stays.
LEMMA PoolTotals ==
    ASSUME positions \in [PositionKeys -> 0 .. MAX_U128],
           NEW o \in Owners, NEW id \in PoolIds, NEW l \in Ticks, NEW u \in Ticks,
           NEW held \in 0 .. MAX_U128,
           positions' = [positions EXCEPT ![<<o, id, l, u>>] = held]
    PROVE  /\ Total(Keys(id), positions) \in Nat
           /\ Total(Keys(id), positions') \in Nat
           /\ Total(Keys(id), positions) >= positions[<<o, id, l, u>>]
           /\ Total(Keys(id), positions')
                 = Total(Keys(id), positions) - positions[<<o, id, l, u>>] + held
           /\ \A other \in PoolIds \ {id} :
                 Total(Keys(other), positions') = Total(Keys(other), positions)
<1> DEFINE key == <<o, id, l, u>>
<1>0. positions' = [positions EXCEPT ![key] = held]
  OBVIOUS
<1>1. key \in Keys(id) /\ key \in PositionKeys
  BY KeyOfPool
<1>t. \A other \in PoolIds \ {id} : key \notin Keys(other)
  BY KeyOfPool
<1> HIDE DEF key
<1>2. IsFiniteSet(Keys(id)) /\ Keys(id) \in SUBSET PositionKeys
  BY KeysFinite
<1>3. /\ \A x \in Keys(id) : positions[x] \in Nat
      /\ \A x \in Keys(id) : positions'[x] \in Nat
      /\ \A x \in Keys(id) \ {key} : positions'[x] = positions[x]
      /\ positions'[key] = held
  BY <1>0, <1>1, <1>2, ClmmAssumption
<1>4. ASSUME NEW other \in PoolIds \ {id}
      PROVE  Total(Keys(other), positions') = Total(Keys(other), positions)
  <2>1. key \notin Keys(other) /\ Keys(other) \in SUBSET PositionKeys
    BY <1>t, KeysFinite
  <2>2. \A x \in Keys(other) : positions'[x] = positions[x]
    BY <1>0, <2>1
  <2>3. Units(Keys(other), positions') = Units(Keys(other), positions)
    BY <2>2 DEF Units
  <2> QED
    BY <2>3 DEF Total
<1>5. /\ Total(Keys(id), positions) \in Nat
      /\ Total(Keys(id), positions') \in Nat
      /\ Total(Keys(id), positions) >= positions[key]
      /\ Total(Keys(id), positions')
            = Total(Keys(id), positions) - positions[key] + positions'[key]
  <2> DEFINE S == Keys(id)
             f == positions
             g == positions'
  <2>1. /\ IsFiniteSet(S) /\ key \in S
        /\ \A x \in S : f[x] \in Nat
        /\ \A x \in S : g[x] \in Nat
        /\ \A x \in S \ {key} : g[x] = f[x]
    BY <1>1, <1>2, <1>3
  <2> HIDE DEF S, f, g
  <2>2. /\ Total(S, f) \in Nat /\ Total(S, g) \in Nat
        /\ Total(S, f) >= f[key]
        /\ Total(S, g) = Total(S, f) - f[key] + g[key]
    BY <2>1, TotalUpdate, SMTT(60)
  <2> QED
    BY <2>2, Zenon DEF S, f, g
<1> QED
  BY <1>3, <1>4, <1>5 DEF key

-----------------------------------------------------------------------------
(* The steps                                                               *)

LEMMA KnownPools ==
    ASSUME IInv
    PROVE  /\ Len(pools) \in Nat /\ Len(leaves) \in Nat /\ Len(log) \in Nat
           /\ \A id \in Known :
                 /\ id \in PoolIds /\ pools[id] \in PoolState
                 /\ pools[id].liquidity \in 0 .. MAX_U128
                 /\ pools[id].sequence \in Nat
                 /\ Total(Keys(id), positions) \in Nat
<1>1. /\ pools \in Seq(PoolState) /\ leaves \in Seq(Leaf) /\ log \in Seq(Entry)
      /\ Len(pools) <= MaxPools /\ MaxPools \in Nat
  BY ClmmAssumption DEF IInv, TypeOK, Shape
<1>2. Len(pools) \in Nat /\ Len(leaves) \in Nat /\ Len(log) \in Nat
  BY <1>1, LenProperties
<1>3. ASSUME NEW id \in Known
      PROVE  id \in PoolIds /\ pools[id] \in PoolState
  BY <1>1, <1>2 DEF Known, PoolIds
<1>4. ASSUME NEW id \in PoolIds
      PROVE  Total(Keys(id), positions) \in Nat
  <2>1. IsFiniteSet(Keys(id)) /\ Keys(id) \in SUBSET PositionKeys
    BY KeysFinite
  <2>2. positions \in [PositionKeys -> 0 .. MAX_U128]
    BY DEF IInv, TypeOK
  <2>3. \A k \in Keys(id) : positions[k] \in Nat
    BY <2>1, <2>2, ClmmAssumption
  <2> QED
    BY <2>1, <2>3, TotalNat
<1> QED
  BY <1>2, <1>3, <1>4 DEF PoolState

\* Leaves are added and nothing else that the invariant speaks of changes.
LEMMA AppendStep ==
    ASSUME IInv, NEW new \in Seq(Leaf), append(new),
           custody' \in [Assets -> Nat],
           UNCHANGED <<pools, positions, nullifiers, log>>
    PROVE  IInv'
<1>1. leaves \in Seq(Leaf)
  BY DEF IInv, Shape
<1>2. /\ leaves' \in Seq(Leaf) /\ Len(leaves') = Len(leaves) + Len(new)
      /\ \A k \in 1 .. Len(leaves) : leaves'[k] = leaves[k]
  BY <1>1, ConcatProperties DEF append
<1>3. Len(new) \in Nat /\ Len(leaves) \in Nat
  BY <1>1, LenProperties
<1>4. TypeOK'
  BY <1>2 DEF IInv, TypeOK, append, Known
<1>5. Shape'
  BY <1>2 DEF IInv, Shape, Known
<1>6. Serial'
  BY <1>2, <1>3, SerialKept
<1>7. LiquidityBacked'
  BY DEF IInv, LiquidityBacked, Known
<1> QED
  BY <1>4, <1>5, <1>6, <1>7 DEF IInv

LEMMA CreateStep ==
    ASSUME IInv, NEW a \in Assets, NEW b \in Assets, NEW s \in Spacings,
           create_pool(a, b, s)
    PROVE  IInv'
<1> DEFINE n == Len(pools)
           new == [pool_id |-> n + 1, asset_0 |-> a, asset_1 |-> b,
                   tick_spacing |-> s, liquidity |-> 0, sequence |-> 0]
<1>1. /\ n \in Nat /\ n < MaxPools /\ MaxPools \in Nat /\ MAX_U128 \in Nat
      /\ s \in Nat /\ s # 0 /\ a # b
  BY KnownPools, ClmmAssumption DEF create_pool
<1>2. new \in PoolState
  BY <1>1 DEF PoolState, PoolIds
<1>3. pools \in Seq(PoolState) /\ pools' = Append(pools, new)
  BY DEF IInv, TypeOK, create_pool
<1>4. UNCHANGED <<leaves, inserter, positions, custody, nullifiers, log>>
  BY DEF create_pool, treeVars
<1> HIDE DEF new
<1>5. /\ pools' \in Seq(PoolState) /\ Len(pools') = n + 1
      /\ pools'[n + 1] = new /\ \A i \in 1 .. n : pools'[i] = pools[i]
  BY <1>2, <1>3, AppendProperties
<1> HIDE DEF n
<1>6. \A id \in 1 .. n + 1 : id = n + 1 \/ id \in 1 .. n
  BY <1>1
<1>7. TypeOK'
  <2>1. n + 1 <= MaxPools
    BY <1>1
  <2>2. ASSUME NEW id \in 1 .. n + 1
        PROVE  /\ pools'[id].pool_id = id
               /\ pools'[id].asset_0 # pools'[id].asset_1
               /\ pools'[id].tick_spacing # 0
    <3>1. CASE id = n + 1
      BY <3>1, <1>1, <1>5 DEF new
    <3>2. CASE id \in 1 .. n
      BY <3>2, <1>5 DEF IInv, TypeOK, Known, n
    <3> QED
      BY <3>1, <3>2, <1>6
  <2> QED
    BY <1>4, <1>5, <2>1, <2>2 DEF IInv, TypeOK, Known
<1>8. Shape'
  BY <1>1, <1>4, <1>5 DEF IInv, Shape, Known, n
<1>9. Serial'
  <2>1. \A id \in Known : pools'[id].sequence = pools[id].sequence
    BY <1>5 DEF Known, n
  <2>2. leaves' \in Seq(Leaf) /\ Len(leaves) <= Len(leaves')
    BY <1>4, KnownPools DEF IInv, Shape
  <2> QED
    BY <1>4, <2>1, <2>2, SerialKept
<1>10. LiquidityBacked'
  <2>1. ASSUME NEW id \in 1 .. n + 1
        PROVE  pools'[id].liquidity <= Total(Keys(id), positions)
    <3>1. CASE id = n + 1
      <4>1. id \in PoolIds
        BY <3>1, <1>1 DEF PoolIds
      <4>2. IsFiniteSet(Keys(id)) /\ Keys(id) \in SUBSET PositionKeys
        BY <4>1, KeysFinite
      <4>3. positions \in [PositionKeys -> 0 .. MAX_U128]
        BY DEF IInv, TypeOK
      <4>4. \A k \in Keys(id) : positions[k] \in Nat
        BY <4>2, <4>3, <1>1
      <4>5. Total(Keys(id), positions) \in Nat
        BY <4>2, <4>4, TotalNat
      <4> QED
        BY <3>1, <4>5, <1>5 DEF new
    <3>2. CASE id \in 1 .. n
      BY <3>2, <1>5 DEF IInv, LiquidityBacked, Known, n
    <3> QED
      BY <3>1, <3>2, <1>6
  <2> QED
    BY <1>4, <1>5, <2>1 DEF LiquidityBacked, Known
<1> QED
  BY <1>7, <1>8, <1>9, <1>10 DEF IInv

\* A public operation: the position and the pool take their new liquidity.
LEMMA RebalanceStep ==
    ASSUME IInv,
           NEW o \in Owners, NEW id \in Known, NEW l \in Ticks, NEW u \in Ticks,
           NEW held \in 0 .. MAX_U128, NEW total \in 0 .. MAX_U128,
           Rebalance(<<o, id, l, u>>, id, held, total),
           total <= Total(Keys(id), positions) - positions[<<o, id, l, u>>] + held,
           custody' \in [Assets -> Nat]
    PROVE  IInv'
<1> DEFINE key == <<o, id, l, u>>
           pool == [pools[id] EXCEPT !.liquidity = total,
                                     !.sequence = pools[id].sequence + 1]
           e == [op |-> "public", pool |-> id, sequence |-> pools[id].sequence,
                 root |-> 0, spent |-> {}, grew |-> 0]
<1>1. /\ Len(pools) \in Nat /\ id \in PoolIds /\ pools[id] \in PoolState
      /\ pools[id].sequence \in Nat /\ Len(leaves) \in Nat
  BY KnownPools
<1>2. /\ positions' = [positions EXCEPT ![key] = held]
      /\ pools' = [pools EXCEPT ![id] = pool]
      /\ log' = Append(log, e)
      /\ UNCHANGED <<leaves, inserter, nullifiers>>
  <2>1. Len(<<>>) = 0
    OBVIOUS
  <2>2. log' = Append(log, e)
    BY <2>1 DEF Rebalance, Logged
  <2>3. pools' = [pools EXCEPT ![id].liquidity = total,
                               ![id].sequence = @ + 1]
    BY DEF Rebalance
  <2>4. id \in 1 .. Len(pools) /\ pools \in Seq(PoolState)
    BY DEF Known, IInv, TypeOK
  <2>5. pools' = [pools EXCEPT ![id] = pool]
    BY <2>3, <2>4, <1>1 DEF PoolState
  <2> QED
    BY <2>2, <2>5 DEF Rebalance, treeVars
<1>3. /\ pool \in PoolState /\ pool.liquidity = total
      /\ pool.sequence = pools[id].sequence + 1
      /\ pool.pool_id = pools[id].pool_id
      /\ pool.asset_0 = pools[id].asset_0 /\ pool.asset_1 = pools[id].asset_1
      /\ pool.tick_spacing = pools[id].tick_spacing
  <2> DEFINE p == pools[id]
             q == p.sequence + 1
  <2>1. p \in PoolState /\ q \in Nat
    BY <1>1
  <2>2. pool = [p EXCEPT !.liquidity = total, !.sequence = q]
    OBVIOUS
  <2> HIDE DEF p, q, pool
  <2>3. /\ pool \in PoolState /\ pool.liquidity = total
        /\ pool.sequence = q /\ pool.pool_id = p.pool_id
        /\ pool.asset_0 = p.asset_0 /\ pool.asset_1 = p.asset_1
        /\ pool.tick_spacing = p.tick_spacing
    BY <2>1, <2>2 DEF PoolState
  <2> QED
    BY <2>3 DEF p, q
<1>4. e \in Entry
  BY <1>1 DEF Entry, Known
<1>5. pools \in Seq(PoolState) /\ id \in 1 .. Len(pools)
  BY DEF IInv, TypeOK, Known
<1> HIDE DEF pool
<1>6. /\ pools' \in Seq(PoolState) /\ Len(pools') = Len(pools)
      /\ pools'[id] = pool
      /\ \A i \in 1 .. Len(pools) : i # id => pools'[i] = pools[i]
  BY <1>2, <1>3, <1>5, ExceptSeq
<1>7. /\ positions \in [PositionKeys -> 0 .. MAX_U128]
      /\ positions' \in [PositionKeys -> 0 .. MAX_U128]
  BY <1>2 DEF IInv, TypeOK
<1>8. TypeOK'
  BY <1>2, <1>3, <1>6, <1>7 DEF IInv, TypeOK, Known
<1>9. Shape'
  <2>1. log \in Seq(Entry) /\ Len(log) \in Nat
    BY KnownPools DEF IInv, Shape
  <2>2. /\ log' \in Seq(Entry) /\ Len(log') = Len(log) + 1
        /\ log'[Len(log) + 1] = e
        /\ \A i \in 1 .. Len(log) : log'[i] = log[i]
    BY <1>2, <1>4, <2>1, AppendProperties
  <2>3. \A i \in 1 .. Len(log) + 1 : i = Len(log) + 1 \/ i \in 1 .. Len(log)
    BY <2>1
  <2>4. \A i \in 1 .. Len(log') : log'[i].pool \in Known
    <3>1. e.pool \in Known
      OBVIOUS
    <3>2. \A i \in 1 .. Len(log) : log[i].pool \in Known
      BY DEF IInv, Shape
    <3> HIDE DEF e
    <3> QED
      BY <2>2, <2>3, <3>1, <3>2
  <2>5. leaves' = leaves /\ Known' = Known
    BY <1>2, <1>6 DEF Known
  <2> QED
    BY <2>2, <2>4, <2>5 DEF IInv, Shape
<1>10. Serial'
  <2>1. e.pool = id /\ e.sequence = pools[id].sequence /\ e.spent = {}
        /\ e.op = "public" /\ e.root = 0 /\ e.grew = 0
    OBVIOUS
  <2>2. leaves' \in Seq(Leaf) /\ leaves' = leaves
    BY <1>2 DEF IInv, Shape
  <2>3. \A i \in Known : i # e.pool => pools'[i].sequence = pools[i].sequence
    BY <1>6, <2>1 DEF Known
  <2>4. pools'[e.pool].sequence = pools[e.pool].sequence + 1
    BY <1>3, <1>6, <2>1
  <2>5. /\ nullifiers' = nullifiers \cup e.spent /\ e.spent \cap nullifiers = {}
        /\ Len(leaves) <= Len(leaves') /\ e.root + e.grew <= Len(leaves')
    BY <1>1, <1>2, <2>1, <2>2
  <2> HIDE DEF e
  <2> QED
    BY <1>2, <1>4, <2>1, <2>2, <2>3, <2>4, <2>5, SerialExtended
<1>11. LiquidityBacked'
  <2>1. /\ Total(Keys(id), positions')
              = Total(Keys(id), positions) - positions[key] + held
        /\ \A other \in PoolIds \ {id} :
              Total(Keys(other), positions') = Total(Keys(other), positions)
    <3>1. positions' = [positions EXCEPT ![<<o, id, l, u>>] = held]
      BY <1>2
    <3>2. id \in PoolIds /\ positions \in [PositionKeys -> 0 .. MAX_U128]
      BY <1>1, <1>7
    <3> QED
      BY <3>1, <3>2, PoolTotals, Zenon
  <2>2. ASSUME NEW i \in Known
        PROVE  pools'[i].liquidity <= Total(Keys(i), positions')
    <3>1. CASE i = id
      <4>1. pools'[i].liquidity = total
        BY <3>1, <1>3, <1>6
      <4>2. total <= Total(Keys(i), positions')
        BY <3>1, <2>1
      <4> QED
        BY <4>1, <4>2
    <3>2. CASE i # id
      BY <3>2, <2>1, <1>6, KnownPools DEF IInv, LiquidityBacked, Known
    <3> QED
      BY <3>1, <3>2
  <2> QED
    BY <2>2, <1>6 DEF LiquidityBacked, Known
<1> QED
  BY <1>8, <1>9, <1>10, <1>11 DEF IInv

\* Tokens come in, or go out where the contract holds as many.
LEMMA PaidType ==
    ASSUME IInv, NEW id \in Known, NEW x \in Int, NEW y \in Int,
           custody' = Paid(id, x, y), \A a \in Assets : custody'[a] >= 0
    PROVE  custody' \in [Assets -> Nat]
<1>1. custody \in [Assets -> Nat]
  BY DEF IInv, TypeOK
<1>2. ASSUME NEW a \in Assets PROVE custody'[a] \in Nat
  <2> DEFINE in0 == IF a = pools[id].asset_0 THEN x ELSE 0
             in1 == IF a = pools[id].asset_1 THEN y ELSE 0
  <2>1. in0 \in Int /\ in1 \in Int
    OBVIOUS
  <2>2. custody'[a] = custody[a] + in0 + in1
    BY DEF Paid
  <2> HIDE DEF in0, in1
  <2>3. custody[a] \in Nat /\ custody'[a] >= 0
    BY <1>1
  <2> QED
    BY <2>1, <2>2, <2>3
<1>3. custody' = [a \in Assets |-> custody'[a]]
  BY DEF Paid
<1> QED
  BY <1>2, <1>3

LEMMA MintPublicStep ==
    ASSUME IInv, NEW o \in Owners, NEW id \in Known, NEW l \in Ticks,
           NEW u \in Ticks, NEW n \in Liquidity, NEW x \in Payments,
           NEW y \in Payments, mint_public(o, id, l, u, n, x, y)
    PROVE  IInv'
<1> DEFINE key == <<o, id, l, u>>
           old == positions[key]
           held == saturating_add(old, n)
           all == pools[id].liquidity
           total == saturating_add(all, n)
           T == Total(Keys(id), positions)
<1>1. /\ n \in 0 .. MAX_U128 /\ n \in Nat /\ MAX_U128 \in Nat
      /\ x \in Nat /\ y \in Nat
  BY ClmmAssumption
<1>2. id \in PoolIds /\ all \in 0 .. MAX_U128 /\ T \in Nat
  BY KnownPools
<1>3. key \in Keys(id) /\ key \in PositionKeys
  BY <1>2, KeyOfPool
<1>4. positions \in [PositionKeys -> 0 .. MAX_U128]
  BY DEF IInv, TypeOK
<1>5. old \in 0 .. MAX_U128 /\ old \in Nat /\ all \in Nat
  BY <1>1, <1>2, <1>3, <1>4
<1>6. Rebalance(key, id, held, total)
  BY DEF mint_public, Held
<1>7. old <= T
  <2>1. positions[<<o, id, l, u>>] <= Total(Keys(id), positions)
    BY <1>2, <1>3, <1>4, <1>1, PoolMember
  <2> QED
    BY <2>1
<1>8. all <= T
  BY DEF IInv, LiquidityBacked
<1> HIDE DEF old, all, T
<1>9. /\ held \in 0 .. MAX_U128
      /\ held = old + n \/ held = MAX_U128
  BY <1>1, <1>5, Saturating
<1>10. /\ total \in 0 .. MAX_U128 /\ total <= all + n
  BY <1>1, <1>2, Saturating
<1> HIDE DEF held, total
<1>11. total <= T - old + held
  BY <1>1, <1>2, <1>5, <1>7, <1>8, <1>9, <1>10
<1>12. custody' \in [Assets -> Nat]
  <2>1. /\ custody' = Paid(id, x, y)
        /\ custody \in [Assets -> Nat]
    BY DEF mint_public, IInv, TypeOK
  <2>2. \A a \in Assets : custody'[a] >= 0
    <3> TAKE a \in Assets
    <3> DEFINE in0 == IF a = pools[id].asset_0 THEN x ELSE 0
               in1 == IF a = pools[id].asset_1 THEN y ELSE 0
    <3>1. in0 \in Nat /\ in1 \in Nat
      BY <1>1
    <3>2. custody'[a] = custody[a] + in0 + in1 /\ custody[a] \in Nat
      BY <2>1 DEF Paid
    <3> HIDE DEF in0, in1
    <3> QED
      BY <3>1, <3>2
  <2>3. x \in Int /\ y \in Int
    BY <1>1
  <2> QED
    BY <2>1, <2>2, <2>3, PaidType, Zenon
<1> QED
  BY <1>6, <1>9, <1>10, <1>11, <1>12, RebalanceStep, Zenon DEF old, T

LEMMA BurnPublicStep ==
    ASSUME IInv, NEW o \in Owners, NEW id \in Known, NEW l \in Ticks,
           NEW u \in Ticks, NEW n \in Liquidity, NEW x \in Payments,
           NEW y \in Payments, burn_public(o, id, l, u, n, x, y)
    PROVE  IInv'
<1> DEFINE key == <<o, id, l, u>>
           old == positions[key]
           held == saturating_sub(old, n)
           all == pools[id].liquidity
           total == saturating_sub(all, n)
           T == Total(Keys(id), positions)
<1>1. /\ n \in 0 .. MAX_U128 /\ n \in Nat /\ MAX_U128 \in Nat
      /\ -x \in Int /\ -y \in Int
  BY ClmmAssumption
<1>2. id \in PoolIds /\ all \in 0 .. MAX_U128 /\ T \in Nat
  BY KnownPools
<1>3. key \in Keys(id) /\ key \in PositionKeys
  BY <1>2, KeyOfPool
<1>4. positions \in [PositionKeys -> 0 .. MAX_U128]
  BY DEF IInv, TypeOK
<1>5. /\ old \in 0 .. MAX_U128 /\ old \in Nat /\ all \in Nat
  BY <1>1, <1>2, <1>3, <1>4
<1>6. Rebalance(key, id, held, total) /\ n <= old
  BY DEF burn_public
<1>7. old <= T
  <2>1. positions[<<o, id, l, u>>] <= Total(Keys(id), positions)
    BY <1>2, <1>3, <1>4, <1>1, PoolMember
  <2> QED
    BY <2>1
<1>8. all <= T
  BY DEF IInv, LiquidityBacked
<1> HIDE DEF old, all, T
<1>9. /\ held \in 0 .. MAX_U128
      /\ held = IF n > old THEN 0 ELSE old - n
  BY <1>1, <1>5, Saturating
<1>10. /\ total \in 0 .. MAX_U128
       /\ total = IF n > all THEN 0 ELSE all - n
  BY <1>1, <1>2, Saturating
<1> HIDE DEF held, total
<1>11. total <= T - old + held
  <2>1. held = old - n
    BY <1>1, <1>5, <1>6, <1>9
  <2>2. total = 0 \/ total = all - n
    BY <1>10
  <2> QED
    BY <1>1, <1>2, <1>5, <1>6, <1>7, <1>8, <2>1, <2>2
<1>12. custody' \in [Assets -> Nat]
  <2>1. custody' = Paid(id, -x, -y) /\ \A a \in Assets : custody'[a] >= 0
    BY DEF burn_public
  <2> QED
    BY <1>1, <2>1, PaidType, Zenon
<1> QED
  BY <1>6, <1>9, <1>10, <1>11, <1>12, RebalanceStep, Zenon DEF old, T

-----------------------------------------------------------------------------
(* Deposits and the tree's other callers                                   *)

LEMMA LeafTypes ==
    ASSUME NEW j \in Nat
    PROVE  /\ \A a \in Assets : Balance(a, j) \in Leaf
           /\ \A id \in Nat : Position(id, j) \in Leaf
           /\ Other(j) \in Leaf
BY DEF Balance, Position, Other, Leaf, Kinds

LEMMA DepositStep ==
    ASSUME IInv, NEW a \in Assets, NEW n \in Payments, deposit_private(a, n)
    PROVE  IInv'
<1>1. Len(leaves) \in Nat /\ n \in Nat /\ custody \in [Assets -> Nat]
  BY KnownPools, ClmmAssumption DEF IInv, TypeOK
<1>2. <<Balance(a, Blinding(0))>> \in Seq(Leaf)
  <2>1. Blinding(0) \in Nat
    BY <1>1 DEF Blinding, Root
  <2> QED
    BY <2>1, LeafTypes
<1>3. append(<<Balance(a, Blinding(0))>>)
  BY DEF deposit_private, authorized_insert
<1>4. custody' \in [Assets -> Nat]
  BY <1>1 DEF deposit_private
<1> QED
  BY <1>2, <1>3, <1>4, AppendStep DEF deposit_private

LEMMA InsertStep ==
    ASSUME IInv,
           \/ insert_any(Other(Root))
           \/ batch_insert_any(<<Other(Root), Other(Root + 1)>>)
    PROVE  IInv'
<1>1. /\ Len(leaves) \in Nat /\ Len(leaves) + 1 \in Nat
      /\ custody \in [Assets -> Nat]
  BY KnownPools DEF IInv, TypeOK
<1>2. Other(Root) \in Leaf /\ Other(Root + 1) \in Leaf
  BY <1>1, LeafTypes DEF Root
<1>3. /\ <<Other(Root)>> \in Seq(Leaf)
      /\ <<Other(Root), Other(Root + 1)>> \in Seq(Leaf)
  BY <1>2
<1>4. OnTree
  BY DEF insert_any, batch_insert_any
<1>5. custody' \in [Assets -> Nat]
  BY <1>1, <1>4 DEF OnTree
<1>6. CASE append(<<Other(Root)>>)
  BY <1>3, <1>4, <1>5, <1>6, AppendStep DEF OnTree
<1>7. CASE append(<<Other(Root), Other(Root + 1)>>)
  BY <1>3, <1>4, <1>5, <1>7, AppendStep DEF OnTree
<1> QED
  BY <1>6, <1>7 DEF insert_any, insert, batch_insert_any, batch_insert

LEMMA InserterStep ==
    ASSUME IInv, NEW c \in Callers, set_inserter(c)
    PROVE  IInv'
<1>1. /\ leaves' = leaves /\ inserter' = c
      /\ UNCHANGED <<pools, positions, custody, nullifiers, log>>
  BY DEF set_inserter, set_authorized_inserter, OnTree
<1>2. leaves \in Seq(Leaf) /\ Len(leaves) \in Nat
  BY KnownPools DEF IInv, Shape
<1>3. Serial'
  BY <1>1, <1>2, SerialKept
<1> QED
  BY <1>1, <1>3 DEF IInv, TypeOK, Shape, LiquidityBacked, Known

-----------------------------------------------------------------------------
(* What the circuits let through                                           *)

LEMMA Wallets ==
    ASSUME IInv, NEW root \in 1 .. Root, NEW state \in PoolState
    PROVE  /\ Leaves(root) \in SUBSET Leaf /\ Leaves(Root) \in SUBSET Leaf
           /\ state.asset_0 \in Assets /\ state.asset_1 \in Assets
           /\ NewPosition(state.pool_id) \in Leaf
           /\ Payouts \in SUBSET Seq(Leaf)
           /\ \A n \in Leaf : n[3] + 2 \in Nat
           /\ \A a \in Assets : \A j \in Nat : Balance(a, j) \in Leaf
<1>1. leaves \in Seq(Leaf) /\ Root \in Nat /\ Len(leaves) = Root
  BY KnownPools DEF IInv, Shape, Root
<1>2. Leaves(root) \in SUBSET Leaf /\ Leaves(Root) \in SUBSET Leaf
  BY <1>1 DEF Leaves
<1>3. Blinding(0) \in Nat /\ Blinding(1) \in Nat /\ Blinding(2) \in Nat
  BY <1>1 DEF Blinding
<1>4. /\ state.asset_0 \in Assets /\ state.asset_1 \in Assets
      /\ state.pool_id \in Nat
  BY DEF PoolState, PoolIds
<1>5. NewPosition(state.pool_id) \in Leaf
  BY <1>3, <1>4, LeafTypes DEF NewPosition
<1>7. ASSUME NEW outputs \in Payouts
      PROVE  outputs \in Seq(Leaf)
  <2>1. PICK a \in Assets, b \in Assets :
           outputs = <<Balance(a, Blinding(0)), Balance(b, Blinding(1))>>
    BY DEF Payouts
  <2>2. Balance(a, Blinding(0)) \in Leaf /\ Balance(b, Blinding(1)) \in Leaf
    BY <1>3, LeafTypes
  <2> QED
    BY <2>1, <2>2
<1>8. \A n \in Leaf : n[3] + 2 \in Nat
  BY DEF Leaf
<1>9. \A a \in Assets : \A j \in Nat : Balance(a, j) \in Leaf
  BY LeafTypes
<1> QED
  BY <1>2, <1>4, <1>5, <1>7, <1>8, <1>9

LEMMA NullifierTypes ==
    ASSUME NEW notes \in SUBSET Leaf
    PROVE  /\ Nullifiers(notes) \in SUBSET Nullifier
           /\ \A n \in Nullifiers(notes) : n[1] \in notes
BY DEF Nullifiers, nullifier, Nullifier

LEMMA MintProvable ==
    ASSUME IInv, NEW root \in 1 .. Root, NEW state \in PoolState
    PROVE  Provable(root, clmm_mint(root, state))
<1> DEFINE new == NewPosition(state.pool_id)
           notes == {n \in Leaves(root) : IsBalanceOf(state.asset_0, n)}
           named == Leaves(Root) \cup {new}
<1>1. new \in Leaf /\ notes \in SUBSET Leaf /\ named \in SUBSET Leaf
  BY Wallets
<1>2. notes \in SUBSET Leaves(root)
  OBVIOUS
<1>3. clmm_mint(root, state) =
         {[spent |-> {input} \cup old, new |-> <<new>>] :
             input \in Nullifiers(notes),
             old \in {{}} \cup {{n} : n \in Nullifiers(named)}}
  BY DEF clmm_mint
<1> HIDE DEF new, notes, named
<1>4. <<new>> \in Seq(Leaf)
  BY <1>1
<1>5. ASSUME NEW input \in Nullifiers(notes),
             NEW old \in {{}} \cup {{n} : n \in Nullifiers(named)}
      PROVE  /\ {input} \cup old \in SUBSET Nullifier
             /\ input \in {input} \cup old /\ input[1] \in Leaves(root)
  BY <1>1, <1>2, NullifierTypes
<1>6. ASSUME NEW p \in clmm_mint(root, state)
      PROVE  /\ p.spent \in SUBSET Nullifier /\ p.new \in Seq(Leaf)
             /\ \E n \in p.spent : n[1] \in Leaves(root)
  <2>1. PICK input \in Nullifiers(notes),
             old \in {{}} \cup {{n} : n \in Nullifiers(named)} :
           p = [spent |-> {input} \cup old, new |-> <<new>>]
    BY <1>3
  <2>2. p.spent = {input} \cup old /\ p.new = <<new>>
    BY <2>1
  <2> QED
    BY <2>2, <1>4, <1>5
<1> QED
  BY <1>6 DEF Provable

LEMMA BurnProvable ==
    ASSUME IInv, NEW root \in 1 .. Root, NEW state \in PoolState
    PROVE  Provable(root, clmm_burn(root, state))
<1>1. Leaves(root) \in SUBSET Leaf /\ Payouts \in SUBSET Seq(Leaf)
  BY Wallets
<1>2. \A old \in Nullifiers(Leaves(root)) :
         {old} \in SUBSET Nullifier /\ old \in {old} /\ old[1] \in Leaves(root)
  BY <1>1, NullifierTypes
<1> QED
  BY <1>1, <1>2 DEF Provable, clmm_burn

LEMMA SwapProvable ==
    ASSUME IInv, NEW root \in 1 .. Root, NEW state \in PoolState
    PROVE  Provable(root, clmm_swap_exact_in(root, state))
<1> DEFINE pair == {state.asset_0, state.asset_1}
           notes == {n \in Leaves(root) : \E a \in pair : IsBalanceOf(a, n)}
<1>1. /\ notes \in SUBSET Leaf /\ notes \in SUBSET Leaves(root)
      /\ pair \in SUBSET Assets
  BY Wallets
<1>2. clmm_swap_exact_in(root, state) =
         {[spent |-> {nullifier(input, key)},
           new |-> <<Balance(output, input[3] + 2)>>] :
             input \in notes, key \in SpendingKeys, output \in pair}
  BY DEF clmm_swap_exact_in
<1> HIDE DEF pair, notes
<1>3. ASSUME NEW input \in notes, NEW key \in SpendingKeys, NEW output \in pair
      PROVE  /\ {nullifier(input, key)} \in SUBSET Nullifier
             /\ nullifier(input, key)[1] \in Leaves(root)
             /\ <<Balance(output, input[3] + 2)>> \in Seq(Leaf)
  <2>1. input[3] + 2 \in Nat /\ output \in Assets
    BY <1>1, Wallets
  <2>2. Balance(output, input[3] + 2) \in Leaf
    BY <2>1, Wallets
  <2>3. <<Balance(output, input[3] + 2)>> \in Seq(Leaf)
    BY <2>2
  <2> QED
    BY <2>3, <1>1 DEF nullifier, Nullifier
<1>4. ASSUME NEW p \in clmm_swap_exact_in(root, state)
      PROVE  /\ p.spent \in SUBSET Nullifier /\ p.new \in Seq(Leaf)
             /\ \E n \in p.spent : n[1] \in Leaves(root)
  <2>1. PICK input \in notes, key \in SpendingKeys, output \in pair :
           p = [spent |-> {nullifier(input, key)},
                new |-> <<Balance(output, input[3] + 2)>>]
    BY <1>2
  <2>2. /\ p.spent = {nullifier(input, key)}
        /\ p.new = <<Balance(output, input[3] + 2)>>
    BY <2>1
  <2> QED
    BY <2>2, <1>3
<1> QED
  BY <1>4 DEF Provable

LEMMA CollectProvable ==
    ASSUME IInv, NEW root \in 1 .. Root, NEW state \in PoolState
    PROVE  Provable(root, clmm_collect(root, state))
<1> DEFINE new == {NewPosition(state.pool_id)}
                     \cup {n \in Leaves(root) : IsPositionIn(state.pool_id, n)}
           Joined(position, outputs) == <<position>> \o outputs
<1>1. /\ Leaves(root) \in SUBSET Leaf /\ new \in SUBSET Leaf
      /\ Payouts \in SUBSET Seq(Leaf)
  BY Wallets
<1>2. clmm_collect(root, state) =
         {[spent |-> {old}, new |-> Joined(position, outputs)] :
             old \in Nullifiers(Leaves(root)), position \in new, outputs \in Payouts}
  BY DEF clmm_collect
<1> HIDE DEF new
<1>3. \A old \in Nullifiers(Leaves(root)) :
         {old} \in SUBSET Nullifier /\ old \in {old} /\ old[1] \in Leaves(root)
  BY <1>1, NullifierTypes
<1>4. ASSUME NEW position \in new, NEW outputs \in Payouts
      PROVE  Joined(position, outputs) \in Seq(Leaf)
  <2>1. position \in Leaf /\ outputs \in Seq(Leaf)
    BY <1>1
  <2>2. <<position>> \in Seq(Leaf)
    BY <2>1
  <2> QED
    BY <2>1, <2>2, ConcatProperties
<1> HIDE DEF Joined
<1>5. ASSUME NEW p \in clmm_collect(root, state)
      PROVE  /\ p.spent \in SUBSET Nullifier /\ p.new \in Seq(Leaf)
             /\ \E n \in p.spent : n[1] \in Leaves(root)
  <2>1. PICK old \in Nullifiers(Leaves(root)), position \in new, outputs \in Payouts :
           p = [spent |-> {old}, new |-> Joined(position, outputs)]
    BY <1>2
  <2>2. p.spent = {old} /\ p.new = Joined(position, outputs)
    BY <2>1
  <2> QED
    BY <2>2, <1>3, <1>4
<1> QED
  BY <1>5 DEF Provable

-----------------------------------------------------------------------------
(* Private operations                                                      *)

LEMMA OperateStep ==
    ASSUME IInv, NEW op \in Operations, NEW id \in Known, NEW root, NEW state,
           NEW proved, Provable(root, proved), Operate(op, id, root, state, proved)
    PROVE  IInv'
<1>p. PICK p \in proved :
         /\ p.spent \cap nullifiers = {}
         /\ nullifiers' = nullifiers \cup p.spent
         /\ authorized_insert(CLMM, p.new)
         /\ Logged(op, id, state, root, p.spent, p.new)
  BY DEF Operate
<1> DEFINE new == p.new
           old == pools[id]
           pool == [old EXCEPT !.sequence = old.sequence + 1]
           e == [op |-> op, pool |-> id, sequence |-> state.sequence,
                 root |-> root, spent |-> p.spent, grew |-> Len(new)]
<1>1. /\ p.spent \in SUBSET Nullifier /\ new \in Seq(Leaf)
      /\ \E x \in p.spent : x[1] \in Leaves(root)
      /\ op # "public"
  BY DEF Provable, Operations
<1>2. /\ id \in Known /\ state = old /\ root = Len(leaves)
      /\ p.spent \cap nullifiers = {}
      /\ nullifiers' = nullifiers \cup p.spent
      /\ append(new)
      /\ log' = Append(log, e)
      /\ UNCHANGED <<positions, custody>>
  BY <1>p DEF Operate, Logged, require_pool_state, require_current_merkle_root,
         Root, authorized_insert
<1>3. /\ Len(pools) \in Nat /\ id \in PoolIds /\ old \in PoolState
      /\ old.sequence \in Nat /\ Len(leaves) \in Nat
      /\ leaves \in Seq(Leaf) /\ Len(new) \in Nat
  BY <1>1, <1>2, KnownPools, LenProperties DEF IInv, Shape
<1>4. pools \in Seq(PoolState) /\ id \in 1 .. Len(pools)
  BY <1>2 DEF IInv, TypeOK, Known
<1>5. /\ pool \in PoolState /\ pool.liquidity = old.liquidity
      /\ pool.sequence = old.sequence + 1 /\ pool.pool_id = old.pool_id
      /\ pool.asset_0 = old.asset_0 /\ pool.asset_1 = old.asset_1
      /\ pool.tick_spacing = old.tick_spacing
  <2> DEFINE q == old.sequence + 1
  <2>1. old \in PoolState /\ q \in Nat
    BY <1>3
  <2>2. pool = [old EXCEPT !.sequence = q]
    OBVIOUS
  <2> HIDE DEF old, q, pool
  <2>3. /\ pool \in PoolState /\ pool.liquidity = old.liquidity
        /\ pool.sequence = q /\ pool.pool_id = old.pool_id
        /\ pool.asset_0 = old.asset_0 /\ pool.asset_1 = old.asset_1
        /\ pool.tick_spacing = old.tick_spacing
    BY <2>1, <2>2 DEF PoolState
  <2> QED
    BY <2>3 DEF q
<1>6. pools' = [pools EXCEPT ![id] = pool]
  <2>1. pools' = [pools EXCEPT ![id].sequence = @ + 1]
    BY DEF Operate
  <2> QED
    BY <2>1, <1>4
<1>7. /\ e \in Entry /\ e.op = op /\ e.pool = id /\ e.root = Len(leaves)
      /\ e.sequence = old.sequence /\ e.spent = p.spent /\ e.grew = Len(new)
  BY <1>1, <1>2, <1>3 DEF Entry, Known
<1> HIDE DEF new, old, pool, e
<1>8. /\ pools' \in Seq(PoolState) /\ Len(pools') = Len(pools)
      /\ pools'[id] = pool
      /\ \A i \in 1 .. Len(pools) : i # id => pools'[i] = pools[i]
  BY <1>4, <1>5, <1>6, ExceptSeq
<1>9. /\ leaves' \in Seq(Leaf) /\ Len(leaves') = Len(leaves) + Len(new)
      /\ \A k \in 1 .. Len(leaves) : leaves'[k] = leaves[k]
      /\ Len(leaves') <= CAPACITY /\ inserter' = inserter
  BY <1>1, <1>2, <1>3, ConcatProperties DEF append
<1>10. TypeOK'
  <2>1. pools[id].pool_id = id /\ pools[id].asset_0 # pools[id].asset_1
        /\ pools[id].tick_spacing # 0
    BY <1>2 DEF IInv, TypeOK
  <2>2. \A i \in 1 .. Len(pools) : /\ pools'[i].pool_id = i
                                   /\ pools'[i].asset_0 # pools'[i].asset_1
                                   /\ pools'[i].tick_spacing # 0
    BY <2>1, <1>5, <1>8 DEF IInv, TypeOK, Known, old
  <2> QED
    BY <2>2, <1>2, <1>8, <1>9 DEF IInv, TypeOK, Known
<1>11. Shape'
  <2>1. log \in Seq(Entry) /\ Len(log) \in Nat
    BY KnownPools DEF IInv, Shape
  <2>2. /\ log' \in Seq(Entry) /\ Len(log') = Len(log) + 1
        /\ log'[Len(log) + 1] = e
        /\ \A i \in 1 .. Len(log) : log'[i] = log[i]
    BY <1>2, <1>7, <2>1, AppendProperties
  <2>3. \A i \in 1 .. Len(log) + 1 : i = Len(log) + 1 \/ i \in 1 .. Len(log)
    BY <2>1
  <2>4. \A i \in 1 .. Len(log') : log'[i].pool \in Known
    BY <1>2, <1>7, <2>2, <2>3 DEF IInv, Shape
  <2> QED
    BY <1>2, <1>8, <1>9, <2>2, <2>4 DEF IInv, Shape, Known
<1>12. Serial'
  <2>1. \A i \in Known : i # e.pool => pools'[i].sequence = pools[i].sequence
    BY <1>7, <1>8 DEF Known
  <2>2. pools'[e.pool].sequence = pools[e.pool].sequence + 1
    BY <1>5, <1>7, <1>8 DEF old
  <2>3. e.sequence = pools[e.pool].sequence
    BY <1>7 DEF old
  <2>4. /\ nullifiers' = nullifiers \cup e.spent /\ e.spent \cap nullifiers = {}
        /\ Len(leaves) <= Len(leaves') /\ e.root + e.grew <= Len(leaves')
    BY <1>2, <1>3, <1>7, <1>9
  <2>5. \E x \in e.spent : x[1] \in Leaves(e.root)
    BY <1>1, <1>2, <1>7
  <2> QED
    BY <1>2, <1>7, <1>9, <2>1, <2>2, <2>3, <2>4, <2>5, SerialExtended
<1>13. LiquidityBacked'
  <2>1. \A i \in Known : pools'[i].liquidity = pools[i].liquidity
    BY <1>5, <1>8 DEF Known, old
  <2> QED
    BY <2>1, <1>2, <1>8 DEF IInv, LiquidityBacked, Known
<1> QED
  BY <1>10, <1>11, <1>12, <1>13 DEF IInv

LEMMA PrivateStep ==
    ASSUME IInv, Private
    PROVE  IInv'
<1>1. PICK id \in Known, root \in 1 .. Root, state \in States :
         \/ mint(id, root, state) \/ burn(id, root, state)
         \/ swap(id, root, state) \/ collect(id, root, state)
  BY DEF Private
<1>2. state = pools[id]
  BY <1>1 DEF mint, burn, swap, collect, Operate, require_pool_state
<1>3. state \in PoolState
  BY <1>2, KnownPools
<1>4. /\ "mint" \in Operations /\ "burn" \in Operations
      /\ "swap" \in Operations /\ "collect" \in Operations
  BY DEF Operations
<1>5. CASE mint(id, root, state)
  BY <1>3, <1>4, <1>5, MintProvable, OperateStep DEF mint
<1>6. CASE burn(id, root, state)
  BY <1>3, <1>4, <1>6, BurnProvable, OperateStep DEF burn
<1>7. CASE swap(id, root, state)
  BY <1>3, <1>4, <1>7, SwapProvable, OperateStep DEF swap
<1>8. CASE collect(id, root, state)
  BY <1>3, <1>4, <1>8, CollectProvable, OperateStep DEF collect
<1> QED
  BY <1>1, <1>5, <1>6, <1>7, <1>8

-----------------------------------------------------------------------------
(* The invariant and the theorems                                          *)

LEMMA InitIInv == ASSUME Init PROVE IInv
<1>1. /\ MAX_U128 \in Nat /\ CAPACITY \in Nat /\ MaxPools \in Nat
  BY ClmmAssumption, CapacityAssumption
<1>2. /\ <<>> \in Seq(Leaf) /\ <<>> \in Seq(Entry) /\ <<>> \in Seq(PoolState)
      /\ Len(<<>>) = 0
  BY EmptySeq
<1>4. TypeOK
  BY <1>1, <1>2 DEF Init, TreeInit, TypeOK, Known
<1>5. Shape
  BY <1>2 DEF Init, TreeInit, Shape
<1>6. Serial
  BY <1>2 DEF Init, Serial
<1>7. LiquidityBacked
  BY <1>2 DEF Init, LiquidityBacked, Known
<1> QED
  BY <1>4, <1>5, <1>6, <1>7 DEF IInv

LEMMA NextIInv == ASSUME IInv, [Next]_vars PROVE IInv'
<1>1. ASSUME Public PROVE IInv'
  BY <1>1, CreateStep, MintPublicStep, BurnPublicStep, DepositStep DEF Public
<1>2. ASSUME Private PROVE IInv'
  BY <1>2, PrivateStep
<1>3. ASSUME Tree PROVE IInv'
  BY <1>3, InsertStep, InserterStep DEF Tree
<1>4. CASE UNCHANGED vars
  <2>1. Serial'
    BY <1>4, KnownPools, SerialKept DEF vars, IInv, Shape
  <2> QED
    BY <1>4, <2>1 DEF vars, IInv, TypeOK, Shape, LiquidityBacked, Known
<1> QED
  BY <1>1, <1>2, <1>3, <1>4 DEF Next

LEMMA Invariance == Spec => []IInv
<1>1. Init => IInv
  BY InitIInv
<1>2. IInv /\ [Next]_vars => IInv'
  BY NextIInv
<1> QED
  BY <1>1, <1>2, PTL DEF Spec

\* Pools keep their ids, assets and spacing, liquidity stays in 128 bits and
\* the contract never pays out tokens it does not hold.
THEOREM TypeCorrect == Spec => []TypeOK
<1>1. IInv => TypeOK
  BY DEF IInv
<1> QED
  BY <1>1, Invariance, PTL

\* Whatever is proved and whenever it is submitted, over however many pools that
\* share the tree, the operations that succeed are serial: a stale pool state or
\* root never gets through, each uses up a nullifier of a leaf that was there
\* before it, and none uses a nullifier again.
THEOREM PrivateOperationsSerial == Spec => []Serial
<1>1. IInv => Serial
  BY DEF IInv
<1> QED
  BY <1>1, Invariance, PTL

\* What a pool advertises as liquidity is held by positions in it, for any
\* number of owners, ticks and public operations.
THEOREM LiquidityOwned == Spec => []LiquidityBacked
<1>1. IInv => LiquidityBacked
  BY DEF IInv
<1> QED
  BY <1>1, Invariance, PTL
=============================================================================
