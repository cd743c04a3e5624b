----------------------------- MODULE BridgeProofs -----------------------------
(* Only final roots are trusted and every mint is backed, for every number *)
(* of blocks, locks, tokens and handlers, and for either client.           *)
EXTENDS Bridge, ArithmeticProofs, SequenceTheorems

-----------------------------------------------------------------------------
(* Records and their words                                                 *)

\* What unpacking gives back: the division with remainder by 2^160.
LEMMA Unpacked ==
    ASSUME NEW t \in 0 .. TOKEN_SPACE - 1, NEW a \in 0 .. UINT96
    PROVE  /\ Pack(t, a) \in Words
           /\ TokenOf(Pack(t, a)) = t
           /\ AmountOf(Pack(t, a)) = a
<1> DEFINE x == a * TOKEN_SPACE + t
           q == x \div TOKEN_SPACE
<1>1. UINT96 \in Nat /\ TOKEN_SPACE \in Nat /\ TOKEN_SPACE > 0 /\ a \in Nat /\ t \in Nat
  BY BridgeAssumption
<1>2. a % (UINT96 + 1) = a
  BY <1>1
<1>3. Pack(t, a) = x
  BY <1>2 DEF Pack
<1>4. x \in Nat
  BY <1>1
<1>5. q \in Nat /\ TOKEN_SPACE * q <= x /\ x < TOKEN_SPACE * q + TOKEN_SPACE
  BY <1>1, <1>4
<1>6. x % TOKEN_SPACE = x - TOKEN_SPACE * q
  BY <1>1, <1>4
<1>7. TOKEN_SPACE * q < TOKEN_SPACE * (a + 1) /\ TOKEN_SPACE * a < TOKEN_SPACE * (q + 1)
  BY <1>1, <1>5
<1> HIDE DEF q
<1>8. q < a + 1 /\ a < q + 1
  BY <1>1, <1>5, <1>7
<1>9. q = a
  BY <1>1, <1>5, <1>8
<1>10. x <= (UINT96 + 1) * TOKEN_SPACE
  <2>1. a * TOKEN_SPACE <= UINT96 * TOKEN_SPACE
    BY <1>1
  <2>2. (UINT96 + 1) * TOKEN_SPACE = UINT96 * TOKEN_SPACE + TOKEN_SPACE
    BY <1>1
  <2> QED
    BY <1>1, <2>1, <2>2
<1>11. (UINT96 + 1) * TOKEN_SPACE \in Nat
  BY <1>1
<1> QED
  BY <1>1, <1>3, <1>4, <1>6, <1>9, <1>10, <1>11 DEF q, Words, TokenOf, AmountOf

\* A record is a word that lock has packed.
Recorded(word) == \E t \in Tokens, a \in 1 .. UINT96 : word = Pack(t, a)

LEMMA RecordParts ==
    ASSUME NEW word, Recorded(word)
    PROVE  /\ word \in Words /\ word # NoLock
           /\ TokenOf(word) \in Tokens /\ TokenOf(word) \in Nat
           /\ AmountOf(word) \in 1 .. UINT96
           /\ word = Pack(TokenOf(word), AmountOf(word))
<1>1. PICK t \in Tokens, a \in 1 .. UINT96 : word = Pack(t, a)
  BY DEF Recorded
<1>2. t \in 0 .. TOKEN_SPACE - 1 /\ a \in 0 .. UINT96 /\ TOKEN_SPACE \in Nat \ {0}
  BY BridgeAssumption
<1>3. TokenOf(word) = t /\ AmountOf(word) = a /\ word \in Words
  BY <1>1, <1>2, Unpacked
<1>4. AmountOf(NoLock) = 0
  BY <1>2 DEF AmountOf, NoLock
<1> QED
  BY <1>1, <1>2, <1>3, <1>4

LEMMA NoRecord == AmountOf(NoLock) = 0 /\ NoLock \in Words
<1>1. TOKEN_SPACE \in Nat /\ TOKEN_SPACE > 0 /\ UINT96 \in Nat
  BY BridgeAssumption
<1>2. (UINT96 + 1) * TOKEN_SPACE \in Nat
  BY <1>1
<1> QED
  BY <1>1, <1>2 DEF AmountOf, NoLock, Words

-----------------------------------------------------------------------------
(* The states of the lock contract                                         *)

\* What is paid out was locked, and the escrow is what was not paid out.
WellLocked(s) ==
    /\ s \in States
    /\ \A c \in Commitments : s.locks[c] # NoLock => Recorded(s.locks[c])
    /\ \A c \in s.spentOnL2 : s.locks[c] # NoLock
    /\ \A t \in Tokens : s.escrow[t] = Total(Held(s, t), Values(s))

\* A record is never taken back or replaced.
Keeps(s, later) ==
    \A c \in Commitments : s.locks[c] # NoLock => later.locks[c] = s.locks[c]

LEMMA TotalSame ==
    ASSUME NEW S, NEW f, NEW g, \A x \in S : f[x] = g[x]
    PROVE  Total(S, f) = Total(S, g)
<1>1. Units(S, f) = Units(S, g)
  BY DEF Units
<1> QED
  BY <1>1 DEF Total

LEMMA HeldFinite ==
    ASSUME NEW s, WellLocked(s), NEW t \in Tokens
    PROVE  /\ IsFiniteSet(Held(s, t)) /\ Held(s, t) \subseteq Commitments
           /\ \A c \in Held(s, t) : Values(s)[c] \in Nat
<1>1. Held(s, t) \subseteq Commitments
  BY DEF Held
<1>2. IsFiniteSet(Held(s, t))
  BY <1>1, FS_Subset, BridgeAssumption
<1>3. ASSUME NEW c \in Held(s, t) PROVE Values(s)[c] \in Nat
  <2>1. Recorded(s.locks[c])
    BY DEF Held, WellLocked
  <2>2. AmountOf(s.locks[c]) \in Nat
    BY <2>1, RecordParts, BridgeAssumption
  <2> QED
    BY <1>1, <2>2 DEF Values
<1> QED
  BY <1>1, <1>2, <1>3

LEMMA GenesisWellLocked == WellLocked(Genesis)
<1>1. Genesis \in States
  BY NoRecord DEF Genesis, States
<1>2. \A t \in Tokens : Held(Genesis, t) = {}
  BY DEF Held, Genesis
<1>3. \A t \in Tokens : Genesis.escrow[t] = 0
  BY DEF Genesis
<1>4. \A t \in Tokens : Total(Held(Genesis, t), Values(Genesis)) = 0
  BY <1>2, TotalEmpty
<1> QED
  BY <1>1, <1>3, <1>4 DEF WellLocked, Genesis

LEMMA LockWellLocked ==
    ASSUME NEW s, WellLocked(s), NEW c \in Commitments, NEW token \in Tokens,
           NEW amount \in LockAmounts, Lockable(s, c, amount)
    PROVE  /\ WellLocked(AfterLock(s, c, token, amount))
           /\ Keeps(s, AfterLock(s, c, token, amount))
           /\ AfterLock(s, c, token, amount).spentOnL2 = s.spentOnL2
<1> DEFINE r == AfterLock(s, c, token, amount)
           word == Pack(token, amount)
<1>1. s \in States /\ s.locks \in [Commitments -> Words] /\ s.escrow \in [Tokens -> Nat]
      /\ s.spentOnL2 \subseteq Commitments
  BY DEF WellLocked, States
<1>2. amount \in 1 .. UINT96 /\ amount \in Nat
  BY BridgeAssumption DEF Lockable
<1>3. Recorded(word)
  BY <1>2 DEF Recorded
<1>4. word \in Words /\ word # NoLock /\ TokenOf(word) = token /\ AmountOf(word) = amount
  <2>1. token \in 0 .. TOKEN_SPACE - 1 /\ amount \in 0 .. UINT96
    BY <1>2, BridgeAssumption
  <2> QED
    BY <1>3, <2>1, RecordParts, Unpacked
<1>5. s.locks[c] = NoLock /\ c \notin s.spentOnL2
  <2>1. AmountOf(s.locks[c]) = 0
    BY DEF Lockable
  <2>2. s.locks[c] # NoLock => AmountOf(s.locks[c]) \in 1 .. UINT96
    BY RecordParts DEF WellLocked
  <2> QED
    BY <2>1, <2>2 DEF WellLocked
<1>6. /\ r.locks = [s.locks EXCEPT ![c] = word]
      /\ r.escrow = [s.escrow EXCEPT ![token] = s.escrow[token] + amount]
      /\ r.spentOnL2 = s.spentOnL2
      /\ r \in States
  <2>1. s.escrow[token] + amount \in Nat
    BY <1>1, <1>2
  <2> QED
    BY <1>1, <1>4, <2>1 DEF AfterLock, States
<1> HIDE DEF r, word
<1>7. \A d \in Commitments : r.locks[d] = IF d = c THEN word ELSE s.locks[d]
  BY <1>1, <1>6
<1>8. \A d \in Commitments : r.locks[d] # NoLock => Recorded(r.locks[d])
  BY <1>3, <1>7 DEF WellLocked
<1>9. \A d \in r.spentOnL2 : r.locks[d] # NoLock
  BY <1>1, <1>4, <1>6, <1>7 DEF WellLocked
<1>10. /\ Values(r)[c] = amount
       /\ \A d \in Commitments \ {c} : Values(r)[d] = Values(s)[d]
  BY <1>4, <1>7 DEF Values
<1>11. ASSUME NEW t \in Tokens
       PROVE  r.escrow[t] = Total(Held(r, t), Values(r))
  <2>1. c \notin Held(s, t)
    BY <1>5 DEF Held
  <2>2. /\ IsFiniteSet(Held(s, t)) /\ Held(s, t) \subseteq Commitments
        /\ \A d \in Held(s, t) : Values(s)[d] \in Nat
    BY HeldFinite
  <2>3. \A d \in Held(s, t) : Values(r)[d] = Values(s)[d]
    BY <1>10, <2>1, <2>2
  <2>4. s.escrow[t] = Total(Held(s, t), Values(r))
    BY <2>3, TotalSame DEF WellLocked
  <2>5. CASE t = token
    <3>1. Held(r, t) = Held(s, t) \cup {c}
      BY <1>4, <1>5, <1>6, <1>7, <2>5 DEF Held
    <3>2. Total(Held(s, t) \cup {c}, Values(r)) = Total(Held(s, t), Values(r)) + Values(r)[c]
      BY <1>2, <1>10, <2>1, <2>2, <2>3, TotalInsert
    <3>3. r.escrow[t] = s.escrow[t] + amount
      BY <1>1, <1>6, <2>5
    <3> QED
      BY <1>10, <2>4, <3>1, <3>2, <3>3
  <2>6. CASE t # token
    <3>1. Held(r, t) = Held(s, t)
      BY <1>4, <1>5, <1>6, <1>7, <2>6 DEF Held
    <3>2. r.escrow[t] = s.escrow[t]
      BY <1>1, <1>6, <2>6
    <3> QED
      BY <2>4, <3>1, <3>2
  <2> QED
    BY <2>5, <2>6
<1>12. WellLocked(r)
  BY <1>6, <1>8, <1>9, <1>11 DEF WellLocked
<1>13. Keeps(s, r)
  BY <1>5, <1>7 DEF Keeps
<1> QED
  BY <1>6, <1>12, <1>13 DEF r

LEMMA UnlockWellLocked ==
    ASSUME NEW s, WellLocked(s), NEW c \in Commitments, Unlockable(s, c)
    PROVE  /\ WellLocked(AfterUnlock(s, c))
           /\ Keeps(s, AfterUnlock(s, c))
           /\ AfterUnlock(s, c).spentOnL2 = s.spentOnL2 \cup {c}
<1> DEFINE r == AfterUnlock(s, c)
           token == TokenOf(s.locks[c])
           amount == AmountOf(s.locks[c])
<1>1. s \in States /\ s.locks \in [Commitments -> Words] /\ s.escrow \in [Tokens -> Nat]
      /\ s.spentOnL2 \subseteq Commitments
  BY DEF WellLocked, States
<1>2. s.locks[c] # NoLock /\ c \notin s.spentOnL2
  BY NoRecord DEF Unlockable
<1>3. token \in Tokens /\ amount \in Nat
  <2>1. Recorded(s.locks[c])
    BY <1>2 DEF WellLocked
  <2> QED
    BY <2>1, RecordParts, BridgeAssumption
<1>4. c \in Held(s, token) /\ Values(s)[c] = amount
  BY <1>2 DEF Held, Values
<1>5. /\ Total(Held(s, token) \ {c}, Values(s)) = s.escrow[token] - amount
      /\ s.escrow[token] - amount \in Nat
  <2>1. IsFiniteSet(Held(s, token)) /\ \A d \in Held(s, token) : Values(s)[d] \in Nat
    BY <1>3, HeldFinite
  <2>2. Total(Held(s, token) \ {c}, Values(s)) = Total(Held(s, token), Values(s)) - amount
    BY <1>4, <2>1, TotalRemove
  <2>3. IsFiniteSet(Held(s, token) \ {c})
    BY <2>1, FS_Subset
  <2>4. Total(Held(s, token) \ {c}, Values(s)) \in Nat
    BY <2>1, <2>3, TotalNat
  <2> QED
    BY <1>3, <2>2, <2>4 DEF WellLocked
<1>6. /\ r.locks = s.locks
      /\ r.escrow = [s.escrow EXCEPT ![token] = s.escrow[token] - amount]
      /\ r.spentOnL2 = s.spentOnL2 \cup {c}
      /\ r \in States
  BY <1>1, <1>5 DEF AfterUnlock, States
<1> HIDE DEF r, token, amount
<1>7. Values(r) = Values(s)
  BY <1>6 DEF Values
<1>8. ASSUME NEW t \in Tokens
      PROVE  r.escrow[t] = Total(Held(r, t), Values(r))
  <2>1. CASE t = token
    <3>1. Held(r, t) = Held(s, t) \ {c}
      BY <1>6 DEF Held
    <3> QED
      BY <1>1, <1>5, <1>6, <1>7, <2>1, <3>1
  <2>2. CASE t # token
    <3>1. Held(r, t) = Held(s, t)
      BY <1>6, <2>2 DEF Held, token
    <3> QED
      BY <1>1, <1>6, <1>7, <2>2, <3>1 DEF WellLocked
  <2> QED
    BY <2>1, <2>2
<1>9. WellLocked(r)
  BY <1>2, <1>6, <1>8 DEF WellLocked
<1>10. Keeps(s, r)
  BY <1>6 DEF Keeps
<1> QED
  BY <1>6, <1>9, <1>10 DEF r

-----------------------------------------------------------------------------
(* The inductive invariant, part by part                                   *)

\* Ethereum: only what was bridged out is paid out, in no state of the chain
\* a record is gone that an earlier one has.
ChainOK ==
    /\ l1 \in Seq(States) /\ head <= MaxBlock /\ finalized \in 0 .. head
    /\ \A b \in 0 .. head : WellLocked(L1(b)) /\ L1(b).spentOnL2 \subseteq nullifiers
    /\ \A b \in 0 .. head : \A a \in 0 .. b : Keeps(L1(a), L1(b))

\* The clients: their variables are typed, and RootsFinal.
RootsOK ==
    /\ root \in [Blocks -> States \cup {NoRoot}]
    /\ headBlock \in 0 .. MaxBlock /\ headRoot \in States \cup {NoRoot}
    /\ committeePeriod \in {Unset, SeedPeriod}
    /\ currentState \in ConsensusStates /\ beaconRoot \subseteq Blocks
    /\ client \in {"light", "signal"}
    /\ headBlock <= finalized
    /\ RootsFinal

\* The bridge: what is minted has a record at the final block.
NotesOK ==
    /\ bridged \subseteq Commitments /\ nullifiers \subseteq bridged
    /\ minted \in Seq(Deposits)
    /\ \A i, j \in DOMAIN minted : minted[i].c = minted[j].c => i = j
    /\ \A i \in DOMAIN minted :
         /\ minted[i].c \in bridged /\ minted[i].amount > 0
         /\ L1(finalized).locks[minted[i].c] = Pack(minted[i].token, minted[i].amount)
         /\ L1(finalized).locks[minted[i].c] # NoLock

\* A handler reads a block that was mined.
HandlersOK ==
    /\ handlers \subseteq [pc : {"locked", "head", "proof", "sent"}, c : Commitments,
                           token : Nat, amount : Nat, block : 0 .. MaxBlock,
                           state : States]
    /\ \A h \in handlers : h.block <= head

IInv == ChainOK /\ RootsOK /\ NotesOK /\ HandlersOK

LEMMA InvariantSuffices == IInv => TypeOK /\ RootsFinal /\ MintBacked
<1> SUFFICES ASSUME IInv PROVE TypeOK /\ RootsFinal /\ MintBacked
  OBVIOUS
<1>1. TypeOK
  BY DEF IInv, ChainOK, RootsOK, NotesOK, HandlersOK, TypeOK
<1>2. RootsFinal
  BY DEF IInv, RootsOK
<1>3. head \in 0 .. head /\ finalized \in 0 .. head
  BY DEF IInv, ChainOK, head
<1>4. WellLocked(L1(head)) /\ L1(head).spentOnL2 \subseteq nullifiers
  BY <1>3 DEF IInv, ChainOK
<1>5. MintBacked
  BY <1>4 DEF IInv, NotesOK, MintBacked, WellLocked
<1> QED
  BY <1>1, <1>2, <1>5

LEMMA StartsWell == Init => IInv
<1> SUFFICES ASSUME Init PROVE IInv
  OBVIOUS
<1>1. l1 = <<>> /\ finalized = 0 /\ head = 0 /\ MaxBlock \in Nat
  BY BlocksAssumption DEF Init, head
<1>2. ChainOK
  <2>1. L1(0) = Genesis /\ WellLocked(Genesis) /\ Genesis.spentOnL2 = {}
    BY GenesisWellLocked DEF L1, Genesis
  <2>2. Keeps(Genesis, Genesis)
    BY DEF Keeps
  <2>3. l1 \in Seq(States)
    BY <1>1
  <2>4. 0 .. head = {0} /\ 0 .. 0 = {0}
    BY <1>1
  <2> QED
    BY <1>1, <2>1, <2>2, <2>3, <2>4 DEF ChainOK
<1>3. RootsOK
  BY <1>1 DEF Init, RootsInit, CommitteeInit, SignalInit, RootsOK, RootsFinal, Blocks,
              ConsensusStates
<1>4. NotesOK
  BY DEF Init, NotesOK
<1>5. HandlersOK
  BY DEF Init, HandlersOK
<1> QED
  BY <1>2, <1>3, <1>4, <1>5 DEF IInv

-----------------------------------------------------------------------------
(* Ethereum acts                                                           *)

LEMMA States_Known ==
    ASSUME ChainOK, NEW b \in 0 .. head
    PROVE  L1(b) \in States /\ WellLocked(L1(b)) /\ head \in Nat
BY DEF ChainOK, WellLocked, head

\* What the bridge and its client know stays true as long as final blocks do.
LEMMA FinalStays ==
    ASSUME ChainOK, RootsOK, NotesOK,
           UNCHANGED <<clientVars, client, contractVars>>,
           finalized' \in Nat, finalized <= finalized',
           \A b \in 0 .. finalized : L1(b)' = L1(b),
           Keeps(L1(finalized), L1(finalized)')
    PROVE  RootsOK' /\ NotesOK'
<1>1. /\ root' = root /\ headBlock' = headBlock /\ headRoot' = headRoot
      /\ committeePeriod' = committeePeriod /\ client' = client
      /\ currentState' = currentState /\ beaconRoot' = beaconRoot
      /\ bridged' = bridged /\ minted' = minted /\ nullifiers' = nullifiers
  BY DEF clientVars, rootVars, signalVars, contractVars
<1>2. finalized \in Nat /\ MaxBlock \in Nat
  BY BlocksAssumption DEF ChainOK, head
<1>3. RootsFinal'
  <2>1. ASSUME NEW b \in Blocks, root[b] # NoRoot
        PROVE  b <= finalized' /\ root[b] = L1(b)' /\ b <= headBlock
    <3>1. b <= finalized /\ root[b] = L1(b) /\ b <= headBlock
      BY <2>1 DEF RootsOK, RootsFinal
    <3>2. b \in 0 .. finalized
      BY <1>2, <3>1 DEF Blocks
    <3> QED
      BY <1>2, <3>1, <3>2 DEF Blocks
  <2>2. currentState.finalized <= finalized /\ currentState.finalized \in Nat
    BY <1>2 DEF RootsOK, RootsFinal, ConsensusStates
  <2>3. currentState.finalized <= finalized'
    BY <1>2, <2>2
  <2> QED
    BY <1>1, <2>1, <2>3 DEF RootsOK, RootsFinal
<1>4. RootsOK'
  <2>1. headBlock <= finalized'
    BY <1>2 DEF RootsOK
  <2> QED
    BY <1>1, <1>3, <2>1 DEF RootsOK
<1>5. NotesOK'
  <2>1. ASSUME NEW i \in DOMAIN minted
        PROVE  /\ L1(finalized)'.locks[minted[i].c] = Pack(minted[i].token, minted[i].amount)
               /\ L1(finalized)'.locks[minted[i].c] # NoLock
    <3>1. minted[i] \in Deposits
      BY DEF NotesOK
    <3>2. minted[i].c \in Commitments /\ minted[i].token \in Nat /\ minted[i].amount \in Nat
      BY <3>1 DEF Deposits
    <3>3. /\ L1(finalized).locks[minted[i].c] = Pack(minted[i].token, minted[i].amount)
          /\ L1(finalized).locks[minted[i].c] # NoLock
      BY DEF NotesOK
    <3> QED
      BY <3>2, <3>3 DEF Keeps
  <2> QED
    BY <1>1, <2>1 DEF NotesOK
<1> QED
  BY <1>4, <1>5

LEMMA MineKeeps ==
    ASSUME IInv, NEW state, mine(state), WellLocked(state),
           Keeps(L1(head), state), state.spentOnL2 \subseteq nullifiers,
           handlers' \subseteq handlers \cup
             {[pc |-> "locked", c |-> c, token |-> token, amount |-> amount,
               block |-> head + 1, state |-> Genesis] :
                 c \in Commitments, token \in Tokens, amount \in LockAmounts}
    PROVE  IInv'
<1>1. ChainOK /\ RootsOK /\ NotesOK /\ HandlersOK
  BY DEF IInv
<1>2. /\ l1' = Append(l1, state) /\ head < MaxBlock /\ finalized' = finalized
      /\ nullifiers' = nullifiers /\ UNCHANGED <<clientVars, client, contractVars>>
  BY DEF mine, contractVars
<1>3. /\ l1 \in Seq(States) /\ head \in Nat /\ finalized \in 0 .. head /\ MaxBlock \in Nat
      /\ state \in States
  BY <1>1, BlocksAssumption DEF ChainOK, head, WellLocked
<1>4. l1' \in Seq(States) /\ head' = head + 1 /\ l1'[head + 1] = state
      /\ \A i \in 1 .. head : l1'[i] = l1[i]
  BY <1>2, <1>3 DEF head
<1>5. \A b \in 0 .. head : L1(b)' = L1(b)
  BY <1>3, <1>4 DEF L1
<1>6. \A b \in 0 .. head' : b = head + 1 => L1(b)' = state
  BY <1>3, <1>4 DEF L1
<1>7. \A b \in 0 .. head' : b \in 0 .. head \/ b = head + 1
  BY <1>3, <1>4
<1>8. \A b \in 0 .. head' : WellLocked(L1(b)') /\ L1(b)'.spentOnL2 \subseteq nullifiers'
  <2>1. ASSUME NEW b \in 0 .. head'
        PROVE  WellLocked(L1(b)') /\ L1(b)'.spentOnL2 \subseteq nullifiers'
    <3>1. CASE b \in 0 .. head
      <4>1. L1(b)' = L1(b)
        BY <1>5, <3>1
      <4> QED
        BY <1>1, <1>2, <3>1, <4>1 DEF ChainOK
    <3>2. CASE b = head + 1
      <4>1. L1(b)' = state
        BY <1>6, <3>2
      <4> QED
        BY <1>2, <4>1
    <3> QED
      BY <1>7, <3>1, <3>2
  <2> QED
    BY <2>1
<1>9. \A b \in 0 .. head' : \A a \in 0 .. b : Keeps(L1(a)', L1(b)')
  <2>1. ASSUME NEW b \in 0 .. head', NEW a \in 0 .. b
        PROVE  Keeps(L1(a)', L1(b)')
    <3>1. CASE b \in 0 .. head
      <4>1. a \in 0 .. head
        BY <1>3, <3>1
      <4>2. L1(b)' = L1(b) /\ L1(a)' = L1(a)
        BY <1>5, <3>1, <4>1
      <4> QED
        BY <1>1, <3>1, <4>2 DEF ChainOK
    <3>2. CASE b = head + 1 /\ a = head + 1
      BY <3>2 DEF Keeps
    <3>3. CASE b = head + 1 /\ a # head + 1
      <4>1. a \in 0 .. head /\ head \in 0 .. head
        BY <1>3, <3>3
      <4>2. Keeps(L1(a), L1(head))
        BY <1>1, <4>1 DEF ChainOK
      <4>3. Keeps(L1(a), state)
        BY <4>2 DEF Keeps
      <4>4. L1(a)' = L1(a)
        BY <1>5, <4>1
      <4>5. L1(b)' = state
        BY <1>6, <3>3
      <4> QED
        BY <4>3, <4>4, <4>5
    <3> QED
      BY <1>7, <3>1, <3>2, <3>3
  <2> QED
    BY <2>1
<1>10. ChainOK'
  <2>1. head' <= MaxBlock /\ finalized' \in 0 .. head'
    BY <1>2, <1>3, <1>4
  <2> QED
    BY <1>4, <1>8, <1>9, <2>1 DEF ChainOK
<1>11. RootsOK' /\ NotesOK'
  <2>1. \A b \in 0 .. finalized : L1(b)' = L1(b)
    BY <1>3, <1>5
  <2>2. L1(finalized)' = L1(finalized)
    BY <1>2, <1>3, <1>5 DEF L1
  <2>3. Keeps(L1(finalized), L1(finalized)')
    BY <2>2 DEF Keeps
  <2> QED
    BY <1>1, <1>2, <1>3, <2>1, <2>3, FinalStays
<1>12. HandlersOK'
  <2>1. Genesis \in States /\ head + 1 \in 0 .. MaxBlock /\ Tokens \subseteq Nat
        /\ LockAmounts \subseteq Nat
    BY <1>2, <1>3, GenesisWellLocked, BridgeAssumption DEF WellLocked
  <2>2. \A h \in handlers' : h \in handlers \/ h.block = head + 1
    OBVIOUS
  <2>3. \A h \in handlers' : h.block <= head'
    <3> SUFFICES ASSUME NEW h \in handlers' PROVE h.block <= head'
      OBVIOUS
    <3>1. CASE h \in handlers
      <4>1. h.block \in Nat /\ h.block <= head
        BY <1>1, <1>3, <3>1 DEF HandlersOK
      <4> QED
        BY <1>3, <1>4, <4>1
    <3>2. CASE h.block = head + 1
      BY <1>3, <1>4, <3>2
    <3> QED
      BY <2>2, <3>1, <3>2
  <2> QED
    BY <1>1, <2>1, <2>3 DEF HandlersOK
<1> QED
  BY <1>10, <1>11, <1>12 DEF IInv

LEMMA EmptyKeeps == IInv /\ empty => IInv'
<1> SUFFICES ASSUME IInv, empty PROVE IInv'
  OBVIOUS
<1>1. head \in 0 .. head
  BY DEF IInv, ChainOK, head
<1>2. WellLocked(L1(head)) /\ L1(head).spentOnL2 \subseteq nullifiers
  BY <1>1 DEF IInv, ChainOK
<1>3. Keeps(L1(head), L1(head))
  BY DEF Keeps
<1> QED
  BY <1>2, <1>3, MineKeeps DEF empty

LEMMA LockKeeps ==
    ASSUME IInv, NEW c \in Commitments, NEW token \in Tokens, NEW amount \in LockAmounts,
           lock(c, token, amount)
    PROVE  IInv'
<1>1. head \in 0 .. head
  BY DEF IInv, ChainOK, head
<1>2. WellLocked(L1(head)) /\ L1(head).spentOnL2 \subseteq nullifiers
  BY <1>1 DEF IInv, ChainOK
<1> DEFINE state == AfterLock(L1(head), c, token, amount)
<1>3. Lockable(L1(head), c, amount) /\ mine(state)
  BY DEF lock
<1>4. /\ WellLocked(state) /\ Keeps(L1(head), state)
      /\ state.spentOnL2 = L1(head).spentOnL2
  BY <1>2, <1>3, LockWellLocked
<1>5. handlers' \subseteq handlers \cup {parseLockedLog(c, token, amount, head + 1)}
  BY DEF lock, watchLocked
<1>6. handlers' \subseteq handlers \cup
        {[pc |-> "locked", c |-> d, token |-> t, amount |-> a,
          block |-> head + 1, state |-> Genesis] :
            d \in Commitments, t \in Tokens, a \in LockAmounts}
  BY <1>5 DEF parseLockedLog
<1> HIDE DEF state
<1> QED
  BY <1>2, <1>3, <1>4, <1>6, MineKeeps

LEMMA UnlockKeeps ==
    ASSUME IInv, NEW c \in Commitments, unlock(c)
    PROVE  IInv'
<1>1. head \in 0 .. head
  BY DEF IInv, ChainOK, head
<1>2. WellLocked(L1(head)) /\ L1(head).spentOnL2 \subseteq nullifiers
  BY <1>1 DEF IInv, ChainOK
<1> DEFINE state == AfterUnlock(L1(head), c)
<1>3. Unlockable(L1(head), c) /\ c \in nullifiers /\ mine(state) /\ handlers' = handlers
  BY DEF unlock
<1>4. /\ WellLocked(state) /\ Keeps(L1(head), state)
      /\ state.spentOnL2 = L1(head).spentOnL2 \cup {c}
  BY <1>2, <1>3, UnlockWellLocked
<1> HIDE DEF state
<1> QED
  BY <1>2, <1>3, <1>4, MineKeeps

LEMMA ReorganiseKeeps ==
    ASSUME IInv, NEW b \in finalized .. head - 1, reorganise(b)
    PROVE  IInv'
<1>1. ChainOK /\ RootsOK /\ NotesOK /\ HandlersOK
  BY DEF IInv
<1>2. /\ l1' = [i \in 1 .. head |-> IF i <= b THEN l1[i] ELSE L1(b)]
      /\ finalized' = finalized /\ nullifiers' = nullifiers /\ handlers' = handlers
      /\ UNCHANGED <<clientVars, client, contractVars>>
  BY DEF reorganise, contractVars
<1>3. /\ l1 \in Seq(States) /\ head \in Nat /\ finalized \in 0 .. head /\ MaxBlock \in Nat
      /\ b \in 0 .. head
  BY <1>1, BlocksAssumption DEF ChainOK, head
<1>4. L1(b) \in States /\ \A i \in 1 .. head : l1[i] \in States
  BY <1>1, <1>3, States_Known DEF head
<1>5. l1' \in Seq(States) /\ head' = head
  <2>1. l1' \in [1 .. head -> States]
    BY <1>2, <1>4
  <2>2. l1' \in Seq(States)
    BY <1>3, <2>1, SeqDef
  <2>3. Len(l1') = head
    BY <1>3, <2>1, <2>2, LenProperties
  <2> QED
    BY <2>2, <2>3 DEF head
\* After the reorganisation every block above b has the state after b.
<1> DEFINE was(i) == IF i <= b THEN i ELSE b
<1>6. \A i \in 0 .. head : was(i) \in 0 .. head /\ L1(i)' = L1(was(i))
  BY <1>2, <1>3 DEF L1
<1>7. \A i \in 0 .. head : \A j \in 0 .. i : was(j) \in 0 .. was(i)
  BY <1>3
<1>8. \A i \in 0 .. finalized : was(i) = i
  BY <1>3
<1> HIDE DEF was
<1>9. ChainOK'
  <2>1. \A i \in 0 .. head : WellLocked(L1(i)') /\ L1(i)'.spentOnL2 \subseteq nullifiers
    BY <1>1, <1>6 DEF ChainOK
  <2>2. ASSUME NEW i \in 0 .. head, NEW j \in 0 .. i
        PROVE  Keeps(L1(j)', L1(i)')
    <3>1. j \in 0 .. head
      BY <1>3
    <3>2. Keeps(L1(was(j)), L1(was(i)))
      BY <1>1, <1>6, <1>7 DEF ChainOK
    <3> QED
      BY <1>6, <3>1, <3>2
  <2> QED
    BY <1>1, <1>2, <1>5, <2>1, <2>2 DEF ChainOK
<1>10. RootsOK' /\ NotesOK'
  <2>1. \A i \in 0 .. finalized : L1(i)' = L1(i)
    BY <1>3, <1>6, <1>8
  <2>2. L1(finalized)' = L1(finalized)
    BY <1>2, <1>3, <2>1 DEF L1
  <2>3. Keeps(L1(finalized), L1(finalized)')
    BY <2>2 DEF Keeps
  <2> QED
    BY <1>1, <1>2, <1>3, <2>1, <2>3, FinalStays
<1>11. HandlersOK'
  BY <1>1, <1>2, <1>5 DEF HandlersOK
<1> QED
  BY <1>9, <1>10, <1>11 DEF IInv

LEMMA FinalizeKeeps ==
    ASSUME IInv, NEW b \in finalized + 1 .. head - 1, finalize(b)
    PROVE  IInv'
<1>1. ChainOK /\ RootsOK /\ NotesOK /\ HandlersOK
  BY DEF IInv
<1>2. /\ l1' = l1 /\ head' = head /\ finalized' = b /\ nullifiers' = nullifiers
      /\ handlers' = handlers
      /\ UNCHANGED <<clientVars, client, contractVars>>
  BY DEF finalize, contractVars, head
<1>3. /\ head \in Nat /\ finalized \in 0 .. b /\ b \in 0 .. head
  BY <1>1 DEF ChainOK, head
<1>4. \A i \in Int : L1(i)' = L1(i)
  BY <1>2 DEF L1
<1>5. ChainOK'
  BY <1>1, <1>2, <1>3, <1>4 DEF ChainOK
<1>6. RootsOK' /\ NotesOK'
  <2>1. L1(finalized)' = L1(b)
    BY <1>2 DEF L1
  <2>2. Keeps(L1(finalized), L1(finalized)')
    BY <1>1, <1>3, <2>1 DEF ChainOK
  <2>3. finalized' \in Nat /\ finalized <= finalized'
    BY <1>2, <1>3
  <2>4. \A i \in 0 .. finalized : L1(i)' = L1(i)
    BY <1>4
  <2> QED
    BY <1>1, <1>2, <2>2, <2>3, <2>4, FinalStays
<1>7. HandlersOK'
  BY <1>1, <1>2 DEF HandlersOK
<1> QED
  BY <1>5, <1>6, <1>7 DEF IInv

-----------------------------------------------------------------------------
(* The clients act                                                         *)

\* Only the state of a final block is ever recorded, so where it goes in the
\* order of the blocks does not matter.
LEMMA RecordKeeps ==
    ASSUME IInv, NEW b \in 1 .. finalized, record_root(b, L1(b)),
           UNCHANGED <<ethereum, client, contractVars, handlers>>,
           committeePeriod' \in {Unset, SeedPeriod}, UNCHANGED signalVars
    PROVE  IInv'
<1>1. ChainOK /\ RootsOK /\ NotesOK /\ HandlersOK
  BY DEF IInv
<1>2. /\ l1' = l1 /\ head' = head /\ finalized' = finalized /\ handlers' = handlers
      /\ bridged' = bridged /\ minted' = minted /\ nullifiers' = nullifiers
      /\ client' = client /\ currentState' = currentState /\ beaconRoot' = beaconRoot
  BY DEF ethereum, contractVars, signalVars, head
<1>3. /\ head \in Nat /\ finalized \in 0 .. head /\ MaxBlock \in Nat /\ head <= MaxBlock
      /\ headBlock \in Nat /\ b \in Blocks /\ b \in 0 .. head
  BY <1>1, BlocksAssumption DEF ChainOK, RootsOK, head, Blocks
<1>4. L1(b) \in States /\ L1(b) # NoRoot
  BY <1>1, <1>3, States_Known, BridgeAssumption
<1>5. /\ root' = [root EXCEPT ![b] = L1(b)]
      /\ headBlock' = IF b >= headBlock THEN b ELSE headBlock
      /\ headRoot' = IF b >= headBlock THEN L1(b) ELSE headRoot
  BY DEF record_root
<1>6. \A i \in Int : L1(i)' = L1(i)
  BY <1>2 DEF L1
<1>7. /\ headBlock' \in 1 .. finalized /\ headBlock <= headBlock' /\ b <= headBlock'
      /\ headBlock' <= MaxBlock
  BY <1>1, <1>3, <1>5 DEF RootsOK
<1>8. /\ root' \in [Blocks -> States \cup {NoRoot}]
      /\ \A i \in Blocks : root'[i] = IF i = b THEN L1(b) ELSE root[i]
      /\ headRoot' \in States \cup {NoRoot}
  BY <1>1, <1>3, <1>4, <1>5 DEF RootsOK
<1>9. ASSUME NEW i \in Blocks, root'[i] # NoRoot
      PROVE  i <= finalized /\ root'[i] = L1(i) /\ i <= headBlock'
  <2>1. CASE i = b
    BY <1>7, <1>8, <2>1
  <2>2. CASE i # b
    <3>1. i <= finalized /\ root[i] = L1(i) /\ i <= headBlock
      BY <1>1, <1>8, <1>9, <2>2 DEF RootsOK, RootsFinal
    <3> QED
      BY <1>3, <1>7, <1>8, <2>2, <3>1 DEF Blocks
  <2> QED
    BY <2>1, <2>2
<1>10. headRoot' = root'[headBlock'] /\ headRoot' # NoRoot
  <2>1. CASE b >= headBlock
    BY <1>3, <1>4, <1>5, <1>8, <2>1
  <2>2. CASE ~ (b >= headBlock)
    <3>1. headBlock > 0 /\ headBlock # b /\ headBlock \in Blocks
      BY <1>1, <1>3, <2>2 DEF RootsOK, Blocks
    <3>2. headRoot = root[headBlock] /\ headRoot # NoRoot
      BY <1>1, <3>1 DEF RootsOK, RootsFinal
    <3> QED
      BY <1>5, <1>8, <2>2, <3>1, <3>2
  <2> QED
    BY <2>1, <2>2
<1>11. RootsFinal'
  <2>1. \A i \in Blocks : root'[i] # NoRoot =>
          i <= finalized' /\ root'[i] = L1(i)' /\ i <= headBlock'
    BY <1>2, <1>3, <1>6, <1>9 DEF Blocks
  <2> QED
    BY <1>1, <1>2, <1>10, <2>1 DEF RootsOK, RootsFinal
<1>12. RootsOK'
  <2>1. headBlock' <= finalized' /\ headBlock' \in 0 .. MaxBlock
    BY <1>2, <1>3, <1>7
  <2> QED
    BY <1>1, <1>2, <1>8, <1>11, <2>1 DEF RootsOK
<1>13. ChainOK' /\ NotesOK' /\ HandlersOK'
  <2>1. L1(finalized)' = L1(finalized)
    BY <1>2 DEF L1
  <2> QED
    BY <1>1, <1>2, <1>3, <1>6, <2>1 DEF ChainOK, NotesOK, HandlersOK
<1> QED
  BY <1>12, <1>13 DEF IInv

\* Two thirds of the committee sign final headers only.
LEMMA UpdateKeeps ==
    ASSUME IInv, NEW u, client_update(u),
           u \in Updates \/ (finalized > 0 /\ u = fetchFinalityUpdate)
    PROVE  IInv'
<1>1. PICK f \in Int, a, s, n \in Int :
        /\ u = [finalized_slot |-> f, attested_slot |-> a, signature_slot |-> s,
                signers |-> n, state |-> L1(f)]
        /\ f \in 1 .. finalized \/ n = 1
  <2>1. finalized \in Int /\ COMMITTEE_SIZE \in Int /\ head \in Int
    BY CommitteeAssumption DEF IInv, ChainOK, head
  <2>2. CASE u \in Updates
    <3>1. PICK f \in 1 .. head, a \in {head - 2, head - 1}, s \in 1 .. head :
            \/ f \in 1 .. finalized
               /\ u = assembleLightClientUpdate(f, a, s, COMMITTEE_SIZE)
            \/ u = assembleLightClientUpdate(f, a, s, 1)
      <4>1. finalized <= head
        BY DEF IInv, ChainOK
      <4>2. 1 .. finalized \subseteq 1 .. head
        BY <2>1, <4>1
      <4> QED
        BY <2>2, <4>2 DEF Updates
    <3> QED
      BY <2>1, <3>1 DEF assembleLightClientUpdate
  <2>3. CASE finalized > 0 /\ u = fetchFinalityUpdate
    <3>1. finalized \in 1 .. finalized /\ head - 1 \in Int
      BY <2>1, <2>3
    <3>2. u = [finalized_slot |-> finalized, attested_slot |-> head - 1,
               signature_slot |-> head, signers |-> COMMITTEE_SIZE, state |-> L1(finalized)]
      BY <2>3, Zenon DEF fetchFinalityUpdate, assembleLightClientUpdate
    <3> QED
      BY <2>1, <3>1, <3>2, Zenon
  <2> QED
    BY <2>2, <2>3
<1>2. /\ u.finalized_slot = f /\ u.state = L1(f) /\ u.signers = n
  BY <1>1
<1>3. /\ TwoThirds(n) /\ Signed(u)
      /\ committeePeriod' = Period(u.signature_slot)
      /\ record_root(f, L1(f))
      /\ UNCHANGED <<ethereum, signalVars, client, contractVars, handlers>>
  BY <1>2 DEF client_update, update_header
<1>4. ~ TwoThirds(1)
  BY CommitteeAssumption DEF TwoThirds
<1>5. f \in 1 .. finalized
  BY <1>1, <1>3, <1>4
<1>6. committeePeriod' \in {Unset, SeedPeriod}
  BY <1>3 DEF Signed
<1>7. UNCHANGED <<ethereum, client, contractVars, handlers>> /\ UNCHANGED signalVars
  BY <1>3
<1> QED
  BY <1>3, <1>5, <1>6, <1>7, RecordKeeps

LEMMA RelayHeaderKeeps == IInv /\ relayHeader => IInv'
<1> SUFFICES ASSUME IInv, relayHeader PROVE IInv'
  OBVIOUS
<1>1. finalized \in Nat /\ finalized > 0
  BY DEF IInv, ChainOK, relayHeader, head
<1>2. CASE client_update(fetchFinalityUpdate)
  BY <1>1, <1>2, UpdateKeeps
<1>3. CASE submitPostRoot(fetchFinalityUpdate)
  <2>1. /\ fetchFinalityUpdate.finalized_slot = finalized
        /\ fetchFinalityUpdate.state = L1(finalized)
    BY DEF fetchFinalityUpdate, assembleLightClientUpdate
  <2>2. record_root(finalized, L1(finalized)) /\ finalized \in 1 .. finalized
    BY <1>1, <1>3, <2>1 DEF submitPostRoot
  <2>3. /\ UNCHANGED <<ethereum, client, contractVars, handlers>>
        /\ committeePeriod' = committeePeriod /\ UNCHANGED signalVars
    BY <1>3 DEF submitPostRoot
  <2>4. committeePeriod' \in {Unset, SeedPeriod}
    BY <2>3 DEF IInv, RootsOK
  <2> QED
    BY <2>2, <2>3, <2>4, RecordKeeps
<1> QED
  BY <1>2, <1>3 DEF relayHeader

LEMMA RelaySignalKeeps ==
    ASSUME IInv, NEW journal \in Journals, relaySignal(journal)
    PROVE  IInv'
<1>1. ChainOK /\ RootsOK /\ NotesOK /\ HandlersOK
  BY DEF IInv
<1>2. /\ l1' = l1 /\ head' = head /\ finalized' = finalized /\ handlers' = handlers
      /\ bridged' = bridged /\ minted' = minted /\ nullifiers' = nullifiers
      /\ client' = client /\ committeePeriod' = committeePeriod
      /\ root' = root /\ headBlock' = headBlock /\ headRoot' = headRoot
  BY DEF relaySignal, receive, rootVars, ethereum, contractVars, head
<1>3. /\ journal.pre = currentState /\ currentState' = journal.post
      /\ journal.post.finalized - journal.pre.finalized \in 0 .. MAX_EPOCH_GAP
      /\ beaconRoot' = beaconRoot \cup {journal.post.finalized}
      /\ journal.post.finalized \in 1 .. finalized
  BY DEF relaySignal, receive, Successor
<1>4. \A i \in Int : L1(i)' = L1(i)
  BY <1>2 DEF L1
<1>5. finalized \in Nat /\ finalized <= MaxBlock /\ MaxBlock \in Nat
  BY <1>1, BlocksAssumption DEF ChainOK, head
<1>6. /\ journal.pre.finalized <= journal.post.finalized
      /\ journal.pre.finalized \in Nat /\ journal.post \in ConsensusStates
      /\ journal.post.finalized \in Nat
  BY <1>3, <1>5 DEF Journals, ConsensusStates
<1>7. /\ beaconRoot' \subseteq 1 .. currentState'.finalized
      /\ beaconRoot' \subseteq Blocks
  <2>1. beaconRoot \subseteq 1 .. journal.pre.finalized
    BY <1>1, <1>3 DEF RootsOK, RootsFinal
  <2>2. 1 .. journal.pre.finalized \subseteq 1 .. journal.post.finalized
    BY <1>6
  <2>3. journal.post.finalized \in 1 .. journal.post.finalized
    BY <1>3, <1>5, <1>6
  <2>4. beaconRoot' \subseteq 1 .. journal.post.finalized
    BY <1>3, <2>1, <2>2, <2>3
  <2>5. 1 .. journal.post.finalized \subseteq Blocks
    BY <1>3, <1>5 DEF Blocks
  <2> QED
    BY <1>3, <2>4, <2>5
<1>8. RootsFinal'
  <2>1. \A b \in Blocks : root'[b] # NoRoot =>
          b <= finalized' /\ root'[b] = L1(b)' /\ b <= headBlock'
    BY <1>1, <1>2, <1>4, <1>5 DEF RootsOK, RootsFinal, Blocks
  <2>2. currentState'.finalized <= finalized'
    BY <1>2, <1>3, <1>5
  <2>3. headBlock' > 0 => headRoot' = root'[headBlock'] /\ headRoot' # NoRoot
    BY <1>1, <1>2 DEF RootsOK, RootsFinal
  <2> QED
    BY <1>7, <2>1, <2>2, <2>3 DEF RootsFinal
<1>9. RootsOK'
  BY <1>1, <1>2, <1>3, <1>6, <1>7, <1>8 DEF RootsOK
<1>10. ChainOK' /\ NotesOK' /\ HandlersOK'
  <2>1. L1(finalized)' = L1(finalized)
    BY <1>2 DEF L1
  <2> QED
    BY <1>1, <1>2, <1>4, <1>5, <2>1 DEF ChainOK, NotesOK, HandlersOK
<1> QED
  BY <1>9, <1>10 DEF IInv

LEMMA ClientProveKeeps ==
    ASSUME IInv, NEW slot \in beaconRoot, client_prove(slot)
    PROVE  IInv'
<1>1. beaconRoot \subseteq 1 .. currentState.finalized /\ currentState.finalized <= finalized
      /\ currentState.finalized \in Nat /\ finalized \in Nat
  <2>1. MaxBlock \in Nat
    BY BlocksAssumption
  <2> QED
    BY <2>1 DEF IInv, RootsOK, RootsFinal, ChainOK, ConsensusStates, head
<1>2. slot \in 1 .. finalized
  BY <1>1
<1>3. /\ record_root(slot, L1(slot))
      /\ UNCHANGED <<ethereum, client, contractVars, handlers>>
      /\ committeePeriod' = committeePeriod /\ UNCHANGED signalVars
  BY DEF client_prove, prove_execution
<1>4. committeePeriod' \in {Unset, SeedPeriod}
  BY <1>3 DEF IInv, RootsOK
<1> QED
  BY <1>2, <1>3, <1>4, RecordKeeps

-----------------------------------------------------------------------------
(* The bridge contract acts                                                *)

\* A trusted root leads to a record that every final block has from then on.
LEMMA BridgeInKeeps ==
    ASSUME IInv, NEW block, NEW state, NEW c \in Commitments, NEW token, NEW amount,
           bridge_in(block, state, c, token, amount), handlers' \subseteq handlers
    PROVE  IInv'
<1>1. ChainOK /\ RootsOK /\ NotesOK /\ HandlersOK
  BY DEF IInv
<1>2. /\ l1' = l1 /\ head' = head /\ finalized' = finalized
      /\ nullifiers' = nullifiers
      /\ UNCHANGED <<clientVars, client>>
  BY DEF bridge_in, ethereum, head
<1> DEFINE note == [c |-> c, token |-> token, amount |-> amount]
<1>3. /\ block \in Blocks /\ root[block] # NoRoot /\ state = root[block]
      /\ state.locks[c] # NoLock /\ TokenOf(state.locks[c]) = token
      /\ AmountOf(state.locks[c]) = amount /\ c \notin bridged
      /\ bridged' = bridged \cup {c} /\ minted' = Append(minted, note)
  BY DEF bridge_in, Mintable, Proved
<1>4. /\ finalized \in 0 .. head /\ head \in Nat /\ block \in 0 .. finalized
      /\ state = L1(block)
  BY <1>1, <1>3 DEF ChainOK, RootsOK, RootsFinal, Blocks, head
<1>5. /\ WellLocked(state) /\ Keeps(state, L1(finalized))
  BY <1>1, <1>4 DEF ChainOK
<1>6. /\ token \in Nat /\ amount \in Nat /\ amount > 0
      /\ state.locks[c] = Pack(token, amount)
  <2>1. Recorded(state.locks[c])
    BY <1>3, <1>5 DEF WellLocked
  <2> QED
    BY <1>3, <2>1, RecordParts, BridgeAssumption
<1>7. /\ L1(finalized).locks[c] = Pack(token, amount)
      /\ L1(finalized).locks[c] # NoLock
  BY <1>3, <1>5, <1>6 DEF Keeps
<1>8. note \in Deposits /\ note.c = c /\ note.token = token /\ note.amount = amount
  BY <1>6 DEF Deposits
<1> HIDE DEF note
<1>9. /\ minted' \in Seq(Deposits)
      /\ DOMAIN minted' = 1 .. Len(minted) + 1 /\ DOMAIN minted = 1 .. Len(minted)
      /\ Len(minted) \in Nat
      /\ minted'[Len(minted) + 1] = note
      /\ \A i \in DOMAIN minted : minted'[i] = minted[i]
  BY <1>1, <1>3, <1>8 DEF NotesOK
<1>10. \A i \in DOMAIN minted' : i \in DOMAIN minted \/ i = Len(minted) + 1
  BY <1>9
<1>11. ASSUME NEW i \in DOMAIN minted'
       PROVE  /\ minted'[i].c \in bridged' /\ minted'[i].amount > 0
              /\ L1(finalized).locks[minted'[i].c]
                   = Pack(minted'[i].token, minted'[i].amount)
              /\ L1(finalized).locks[minted'[i].c] # NoLock
  <2>1. CASE i \in DOMAIN minted
    BY <1>1, <1>3, <1>9, <2>1 DEF NotesOK
  <2>2. CASE i = Len(minted) + 1
    BY <1>3, <1>6, <1>7, <1>8, <1>9, <2>2
  <2> QED
    BY <1>10, <2>1, <2>2
<1>12. ASSUME NEW i \in DOMAIN minted', NEW j \in DOMAIN minted',
              minted'[i].c = minted'[j].c
       PROVE  i = j
  <2>1. \A k \in DOMAIN minted : minted'[k].c \in bridged
    BY <1>1, <1>9 DEF NotesOK
  <2>2. CASE i \in DOMAIN minted /\ j \in DOMAIN minted
    BY <1>1, <1>9, <1>12, <2>2 DEF NotesOK
  <2>3. CASE i = Len(minted) + 1 \/ j = Len(minted) + 1
    BY <1>3, <1>8, <1>9, <1>10, <1>12, <2>1, <2>3
  <2> QED
    BY <1>10, <2>2, <2>3
<1>13. L1(finalized)' = L1(finalized) /\ \A b \in Int : L1(b)' = L1(b)
  BY <1>2 DEF L1
<1>14. NotesOK'
  BY <1>1, <1>2, <1>3, <1>9, <1>11, <1>12, <1>13 DEF NotesOK
<1>15. ChainOK' /\ HandlersOK'
  BY <1>1, <1>2, <1>4, <1>13 DEF ChainOK, HandlersOK
<1>16. RootsOK'
  <2>1. /\ root' = root /\ headBlock' = headBlock /\ headRoot' = headRoot
        /\ committeePeriod' = committeePeriod /\ client' = client
        /\ currentState' = currentState /\ beaconRoot' = beaconRoot
    BY <1>2 DEF clientVars, rootVars, signalVars
  <2>2. \A b \in Blocks : L1(b)' = L1(b)
    BY <1>13 DEF Blocks
  <2> QED
    BY <1>1, <1>2, <2>1, <2>2 DEF RootsOK, RootsFinal
<1> QED
  BY <1>14, <1>15, <1>16 DEF IInv

\* A step that changes only the handlers.
LEMMA OnlyHandlers ==
    ASSUME IInv, rest' = rest, HandlersOK'
    PROVE  IInv'
<1>1. /\ l1' = l1 /\ head' = head /\ finalized' = finalized
      /\ bridged' = bridged /\ minted' = minted /\ nullifiers' = nullifiers
      /\ root' = root /\ headBlock' = headBlock /\ headRoot' = headRoot
      /\ committeePeriod' = committeePeriod /\ client' = client
      /\ currentState' = currentState /\ beaconRoot' = beaconRoot
  BY DEF rest, ethereum, clientVars, contractVars, rootVars, signalVars, head
<1>2. L1(finalized)' = L1(finalized) /\ \A b \in Int : L1(b)' = L1(b)
  BY <1>1 DEF L1
<1>3. head \in Nat /\ Blocks \subseteq Int
  BY DEF head, Blocks, IInv, ChainOK
<1>4. ChainOK' /\ NotesOK'
  BY <1>1, <1>2, <1>3 DEF IInv, ChainOK, NotesOK
<1>5. RootsOK'
  BY <1>1, <1>2, <1>3 DEF IInv, RootsOK, RootsFinal
<1> QED
  BY <1>4, <1>5 DEF IInv

LEMMA StutterKeeps == IInv /\ UNCHANGED vars => IInv'
<1> SUFFICES ASSUME IInv, UNCHANGED vars PROVE IInv'
  OBVIOUS
<1>1. rest' = rest /\ handlers' = handlers /\ head' = head
  BY DEF vars, rest, head, ethereum
<1>2. HandlersOK'
  BY <1>1 DEF IInv, HandlersOK
<1> QED
  BY <1>1, <1>2, OnlyHandlers

LEMMA BridgeOutKeeps ==
    ASSUME IInv, NEW c \in Commitments, bridge_out(c)
    PROVE  IInv'
<1>1. ChainOK /\ RootsOK /\ NotesOK /\ HandlersOK
  BY DEF IInv
<1>2. /\ l1' = l1 /\ head' = head /\ finalized' = finalized
      /\ bridged' = bridged /\ minted' = minted /\ nullifiers' = nullifiers \cup {c}
      /\ root' = root /\ headBlock' = headBlock /\ headRoot' = headRoot
      /\ committeePeriod' = committeePeriod /\ client' = client
      /\ currentState' = currentState /\ beaconRoot' = beaconRoot
      /\ handlers' = handlers /\ c \in bridged
  BY DEF bridge_out, ethereum, clientVars, rootVars, signalVars, head
<1>3. L1(finalized)' = L1(finalized) /\ \A b \in Int : L1(b)' = L1(b)
  BY <1>2 DEF L1
<1>4. head \in Nat /\ Blocks \subseteq Int
  BY <1>1 DEF head, Blocks, ChainOK
<1>5. ChainOK'
  BY <1>1, <1>2, <1>3, <1>4 DEF ChainOK
<1>6. NotesOK' /\ HandlersOK'
  BY <1>1, <1>2, <1>3 DEF NotesOK, HandlersOK
<1>7. RootsOK'
  BY <1>1, <1>2, <1>3, <1>4 DEF RootsOK, RootsFinal
<1> QED
  BY <1>5, <1>6, <1>7 DEF IInv

-----------------------------------------------------------------------------
(* The relayer acts                                                        *)

LEMMA BecomeKeeps ==
    ASSUME IInv, NEW h \in handlers, NEW g, Become(h, g), rest' = rest,
           g \in [pc : {"locked", "head", "proof", "sent"}, c : Commitments,
                  token : Nat, amount : Nat, block : 0 .. MaxBlock, state : States],
           g.block <= head
    PROVE  IInv'
<1>1. handlers' = (handlers \ {h}) \cup {g} /\ head' = head
  BY DEF Become, rest, ethereum, head
<1>2. HandlersOK'
  BY <1>1 DEF IInv, HandlersOK
<1> QED
  BY <1>2, OnlyHandlers

LEMMA HandlerKeeps ==
    ASSUME IInv, NEW h \in handlers,
           \/ onLocked(h) \/ fetchInclusionProof(h) \/ submitBridgeIn(h)
           \/ bridgeInOp(h) \/ handler_fails(h)
    PROVE  IInv'
<1>1. /\ h \in [pc : {"locked", "head", "proof", "sent"}, c : Commitments,
                token : Nat, amount : Nat, block : 0 .. MaxBlock, state : States]
      /\ h.block <= head
  BY DEF IInv, HandlersOK
<1>2. /\ head \in Nat /\ head <= MaxBlock /\ MaxBlock \in Nat /\ h.block \in 0 .. head
      /\ headBlock \in 0 .. MaxBlock /\ headBlock <= head
  BY <1>1, BlocksAssumption DEF IInv, ChainOK, RootsOK, head
<1>3. CASE onLocked(h)
  <2>1. PICK b \in {readHead, h.block} : Become(h, [h EXCEPT !.pc = "head", !.block = b])
    BY <1>3 DEF onLocked
  <2>2. b \in 0 .. MaxBlock /\ b <= head
    BY <1>1, <1>2 DEF readHead
  <2> DEFINE g == [h EXCEPT !.pc = "head", !.block = b]
  <2>3. /\ g \in [pc : {"locked", "head", "proof", "sent"}, c : Commitments,
                  token : Nat, amount : Nat, block : 0 .. MaxBlock, state : States]
        /\ g.block <= head
    BY <1>1, <2>2
  <2>4. rest' = rest
    BY <1>3 DEF onLocked
  <2> QED
    BY <2>1, <2>3, <2>4, BecomeKeeps
<1>4. CASE fetchInclusionProof(h)
  <2> DEFINE g == [h EXCEPT !.pc = "proof", !.state = L1(h.block)]
  <2>1. L1(h.block) \in States
    BY <1>2, States_Known DEF IInv
  <2>2. /\ g \in [pc : {"locked", "head", "proof", "sent"}, c : Commitments,
                  token : Nat, amount : Nat, block : 0 .. MaxBlock, state : States]
        /\ g.block <= head
    BY <1>1, <2>1
  <2>3. Become(h, g) /\ rest' = rest
    BY <1>4 DEF fetchInclusionProof
  <2> QED
    BY <2>2, <2>3, BecomeKeeps
<1>5. CASE submitBridgeIn(h)
  <2> DEFINE g == [h EXCEPT !.pc = "sent"]
  <2>1. /\ g \in [pc : {"locked", "head", "proof", "sent"}, c : Commitments,
                  token : Nat, amount : Nat, block : 0 .. MaxBlock, state : States]
        /\ g.block <= head
    BY <1>1
  <2>2. Become(h, g) /\ rest' = rest
    BY <1>5 DEF submitBridgeIn, submitInvoke
  <2> QED
    BY <2>1, <2>2, BecomeKeeps
<1>6. CASE bridgeInOp(h)
  <2>1. /\ bridge_in(h.block, h.state, h.c, h.token, h.amount)
        /\ handlers' \subseteq handlers
    BY <1>6 DEF bridgeInOp
  <2>2. h.c \in Commitments
    BY <1>1
  <2> QED
    BY <2>1, <2>2, BridgeInKeeps
<1>7. CASE handler_fails(h)
  <2>1. handlers' \subseteq handlers /\ rest' = rest /\ head' = head
    BY <1>7 DEF handler_fails, rest, ethereum, head
  <2>2. HandlersOK'
    BY <2>1 DEF IInv, HandlersOK
  <2> QED
    BY <2>1, <2>2, OnlyHandlers
<1> QED
  BY <1>3, <1>4, <1>5, <1>6, <1>7

\* The feed's events carry no commitment where the relayer looks for one, so
\* the relayer unlocks nothing.
LEMMA FeedKeeps ==
    ASSUME IInv, NEW c \in nullifiers, watchBridgeOut(c)
    PROVE  IInv'
<1>1. parseBridgeOutEvent(OutEvent(c).value) = {}
  BY DEF parseBridgeOutEvent, OutEvent
<1>2. UNCHANGED vars
  BY <1>1 DEF watchBridgeOut
<1> QED
  BY <1>2, StutterKeeps

-----------------------------------------------------------------------------
LEMMA StepKeeps == IInv /\ [Next]_vars => IInv'
<1> SUFFICES ASSUME IInv, [Next]_vars PROVE IInv'
  OBVIOUS
<1>1. CASE Ethereum
  BY <1>1, EmptyKeeps, LockKeeps, UnlockKeeps, ReorganiseKeeps, FinalizeKeeps DEF Ethereum
<1>2. CASE Client
  BY <1>2, UpdateKeeps, RelayHeaderKeeps, RelaySignalKeeps, ClientProveKeeps DEF Client
<1>3. CASE Contract
  <2>1. ASSUME NEW b \in Blocks, NEW c \in Commitments, submit_in(b, c) PROVE IInv'
    BY <2>1, BridgeInKeeps DEF submit_in
  <2>2. ASSUME NEW c \in Commitments, relayIn(c) PROVE IInv'
    BY <2>2, BridgeInKeeps DEF relayIn
  <2> QED
    BY <1>3, <2>1, <2>2, BridgeOutKeeps DEF Contract
<1>4. CASE Relayer
  BY <1>4, HandlerKeeps, FeedKeeps DEF Relayer
<1>5. CASE UNCHANGED vars
  BY <1>5, StutterKeeps
<1> QED
  BY <1>1, <1>2, <1>3, <1>4, <1>5 DEF Next

LEMMA Always == Spec => []IInv
<1> QED
  BY StartsWell, StepKeeps, PTL DEF Spec

\* Every variable keeps its type, and a handler never reads a block that was
\* not mined, whatever reorganisation it sleeps through.
THEOREM BridgeTyped == Spec => []TypeOK
<1> QED
  BY Always, InvariantSuffices, PTL

\* Whichever client the bridge follows, and in whatever order updates, posts,
\* journals and payload proofs arrive, a root it has recorded is that of a
\* block Ethereum will not drop (record_root, update_header, prove_execution).
THEOREM RootsAlwaysFinal == Spec => []RootsFinal
<1> QED
  BY Always, InvariantSuffices, PTL

\* bridge_in mints a note once, for the record that its lock left on the final
\* chain, and the escrow still holds what was not bridged out (lock, unlock).
THEOREM MintsAlwaysBacked == Spec => []MintBacked
<1> QED
  BY Always, InvariantSuffices, PTL
=============================================================================
