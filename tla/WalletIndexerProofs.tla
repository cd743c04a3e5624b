------------------------- MODULE WalletIndexerProofs -------------------------
(* The wallet's tree is the pool's, its store is backed, and what it has read *)
(* it has not missed, for every number of ledgers, transactions, reloads and  *)
(* failing passes.                                                            *)
EXTENDS WalletIndexer, FiniteSetTheorems, SequenceTheorems, TLAPS

-----------------------------------------------------------------------------
(* The inductive invariant, part by part                                   *)

\* What is true of every transaction that was ever built.
Shape(t) ==
    /\ t \in Events /\ t.id \in 1 .. fresh
    /\ \A i \in 1 .. Len(t.notes) :
         /\ t.notes[i].kind # "deposit" => t.notes[i].id = t.id
         /\ t.notes[i].kind = "deposit" => t.type = "deposit" /\ t.notes[i].id < t.id
         /\ t.notes[i].kind = "output" => t.type \in {"transfer", "order_matched"}
         /\ \A j \in 1 .. Len(t.notes) : t.notes[i] = t.notes[j] => i = j
    /\ t.type = "deposit" => Len(t.notes) = 1
    /\ ~ Indexed(t) => Len(t.notes) <= 1
    /\ t.type = "order_matched" => t.closes \subseteq orders
    /\ t.opens \subseteq {t.id}

\* And of those that the wallet built.
Own(t) ==
    /\ t.type # "order_matched"
    /\ t.type = "transfer" => t.burns # {}

\* A deposit is built when the deposits with all smaller salts are stored.
SaltsKnown(t) ==
    \A n \in Elements(t.notes) : n.kind = "deposit" =>
        \A r \in 0 .. n.id - 1 : Dep(r) \in known

SameButBase(t, u) ==
    /\ t.type = u.type /\ t.notes = u.notes /\ t.burns = u.burns
    /\ t.closes = u.closes /\ t.opens = u.opens

Built ==
    /\ \A l \in Ledgers : Shape(chain[l]) /\ SaltsKnown(chain[l])
    /\ \A t \in mempool : Shape(t) /\ SaltsKnown(t) /\ Own(t)
    /\ op # NoOp => /\ Shape(op) /\ SaltsKnown(op) /\ Own(op)
                    /\ op.opens \cap orders = {}
    /\ orders \subseteq 0 .. fresh

\* A transaction is applied once.
Once ==
    /\ \A k, l \in Ledgers : chain[k].id = chain[l].id => k = l
    /\ \A t \in mempool : \A l \in Ledgers : chain[l].id # t.id
    /\ \A t, u \in mempool : t.id = u.id => t = u
    /\ \A t \in mempool : t.id = op.id => t = op
    /\ \A l \in Ledgers : chain[l].id = op.id => SameButBase(chain[l], op)

End(l) == chain[l].base + Len(chain[l].notes)

\* The tree is the leaves of the ledgers, one after the other; a commitment
\* occurs in it once, except that of a deposit.
Laid ==
    /\ \A l \in Ledgers :
         /\ End(l) <= Len(leaves)
         /\ \A i \in 1 .. Len(chain[l].notes) :
              leaves[chain[l].base + i] = chain[l].notes[i]
         /\ chain[l].base = IF l = 1 THEN 0 ELSE End(l - 1)
    /\ \A l \in Ledgers : \A k \in 1 .. l - 1 : End(k) <= chain[l].base
    /\ Len(leaves) = IF chain = <<>> THEN 0 ELSE End(Len(chain))
    /\ \A j \in 1 .. Len(leaves) : \E l \in Ledgers : leaves[j] \in Elements(chain[l].notes)
    /\ \A i, j \in 1 .. Len(leaves) :
         leaves[i] = leaves[j] /\ leaves[i].kind # "deposit" => i = j
    /\ \A l \in Ledgers : \A n \in Elements(chain[l].notes) : n.kind = "deposit" =>
         \A r \in 0 .. n.id - 1 :
           \E k \in 1 .. l - 1 : Dep(r) \in Elements(chain[k].notes)

\* A tree that has the leaves of every ledger below x.
Covers(tree, x) == \A l \in Ledgers : l < x => End(l) <= Len(tree)

Reading == pass.pc = "read"

Positions ==
    /\ TreeIsPrefix
    /\ Covers(disk.leaves, disk.cursor) /\ Covers(live.leaves, live.cursor)
    /\ Reading => Covers(live.leaves, pass.next)
    /\ pass.pc = "cursor" => disk.leaves = live.leaves
    /\ disk.cursor <= live.cursor /\ live.cursor <= Len(chain) + 1
    /\ Reading => live.cursor <= pass.latest + 1
    /\ pass.latest <= Len(chain) /\ pass.next <= Len(chain) + 1
    /\ Reading => pass.next > 0

\* The notes of kind k in the ledgers below x are in S.
Has(x, k, S) ==
    \A l \in Ledgers : l < x =>
        \A n \in Elements(chain[l].notes) : n.kind = k => n \in S

\* The payments below each cursor are stored, or found by the running pass.
Payments ==
    /\ Has(disk.cursor, "output", known)
    /\ Has(live.cursor, "output", known)
    /\ Reading => Has(pass.next, "output", known \cup NotesOf(pass.found))

\* The stored deposits are those of the first salts.
Salts == \E k \in 0 .. fresh : \A n \in Notes :
           n.kind = "deposit" => (n \in known <=> n.id < k)

\* Unless a pass was cut short, the count of salts is behind every deposit that
\* was read, and the deposits before it are stored or found.
Position == IF Reading THEN pass.next ELSE live.cursor
Stored == IF Reading THEN known \cup NotesOf(pass.found) ELSE known
Counted ==
    /\ live.count <= fresh
    /\ errors = 0 =>
         /\ Has(disk.cursor, "deposit", known)
         /\ \A l \in Ledgers : l < Position =>
              \A n \in Elements(chain[l].notes) : n.kind = "deposit" => n.id < live.count
         /\ \A r \in 0 .. live.count - 1 : Dep(r) \in Stored
         /\ live.cursor <= Position

\* What is stored or found is on chain, where its index says.
At(n, i) == i < Len(leaves) /\ leaves[i + 1] = n
Backed ==
    /\ StoreBacked /\ IndexTrue
    /\ \A f \in pass.found : At(f[1], f[2])
    /\ pass.spent \subseteq Burnt

\* No order that a match below x closed is open.
Closed(x) ==
    \A l \in Ledgers : l < x /\ chain[l].type = "order_matched" =>
        chain[l].closes \cap open = {}
Matches ==
    /\ Closed(disk.cursor) /\ Closed(live.cursor)
    /\ Reading => Closed(pass.next)

IInv ==
    /\ TypeOK /\ Built /\ Once /\ Laid /\ Positions
    /\ Payments /\ Salts /\ Counted /\ Backed /\ Matches

-----------------------------------------------------------------------------
LEMMA InvariantSuffices ==
    ASSUME IInv
    PROVE  /\ TypeOK /\ TreeIsPrefix /\ NoGap /\ Recovered /\ StoreBacked
           /\ IndexTrue /\ MatchedNotOpen
<1>1. TypeOK /\ TreeIsPrefix /\ StoreBacked /\ IndexTrue
  BY DEF IInv, Positions, Backed
<1>2. /\ Len(chain) \in Nat /\ disk.cursor \in Nat /\ live.cursor \in Nat /\ pass.next \in Nat
      /\ Len(disk.leaves) \in Nat /\ Len(live.leaves) \in Nat
  BY <1>1 DEF TypeOK, Trees
<1>3. ASSUME NEW x \in Nat, NEW tree, Len(tree) \in Nat, Covers(tree, x), StartAt(x) \in Ledgers
      PROVE  chain[StartAt(x)].base <= Len(tree)
  <2>1. CASE StartAt(x) = 1
    BY <1>2, <1>3, <2>1 DEF IInv, Laid
  <2>2. CASE StartAt(x) # 1
    <3>1. x > 1 /\ StartAt(x) = x /\ x - 1 \in Ledgers /\ x \in Ledgers
      BY <1>2, <1>3, <2>2 DEF StartAt, Ledgers
    <3>2. chain[x].base = End(x - 1) /\ End(x - 1) <= Len(tree)
      BY <1>3, <3>1 DEF IInv, Laid, Covers
    <3> QED
      BY <3>1, <3>2
  <2> QED
    BY <2>1, <2>2
<1>4. NoGap
  <2>1. ASSUME Reading, pass.next \in Ledgers
        PROVE  chain[pass.next].base <= Len(live.leaves)
    <3>1. StartAt(pass.next) = pass.next /\ Covers(live.leaves, pass.next)
      BY <1>2, <2>1 DEF StartAt, IInv, Positions, Ledgers
    <3> QED
      BY <1>2, <1>3, <2>1, <3>1
  <2>2. Covers(disk.leaves, disk.cursor)
    BY DEF IInv, Positions
  <2> QED
    BY <1>2, <1>3, <2>1, <2>2 DEF NoGap, Reading
<1>5. Recovered
  BY DEF Recovered, Read, IInv, Payments, Counted, Has, TypeOK
<1>6. MatchedNotOpen
  BY DEF MatchedNotOpen, Read, IInv, Matches, Closed
<1> QED
  BY <1>1, <1>4, <1>5, <1>6

LEMMA StartsWell == Init => IInv
<1> SUFFICES ASSUME Init PROVE IInv
  OBVIOUS
<1>1. {MaxLedger, MaxTx, MaxReloads, MaxErrors} \subseteq Nat
  BY BoundsAssumption
<1>2. Ledgers = {} /\ Len(leaves) = 0 /\ Len(chain) = 0 /\ 0 \in Ids
  BY <1>1 DEF Init, Ledgers, Ids
<1>3. TypeOK
  BY <1>1, <1>2 DEF Init, TypeOK, Trees, Idle
<1>4. Built /\ Once
  BY <1>2 DEF Init, Built, Once
<1>5. Laid
  BY <1>2 DEF Init, Laid
<1>6. Positions
  BY <1>2 DEF Init, Positions, TreeIsPrefix, IsPrefixOf, Covers, Idle, Reading
<1>7. Payments /\ Matches
  BY <1>2 DEF Init, Payments, Matches, Has, Closed, Idle, Reading
<1>8. Salts
  <2>1. \A n \in Notes : ~ (n.id < 0)
    BY <1>1 DEF Notes, Ids
  <2> QED
    BY <1>1, <2>1 DEF Init, Salts
<1>9. Counted
  BY <1>2 DEF Init, Counted, Has, Position, Stored, Idle, Reading
<1>10. Backed
  BY <1>2 DEF Init, Backed, StoreBacked, IndexTrue, Idle
<1> QED
  BY <1>3, <1>4, <1>5, <1>6, <1>7, <1>8, <1>9, <1>10 DEF IInv

-----------------------------------------------------------------------------
(* The chain acts                                                          *)

\* What ranges where.
LEMMA Typed ==
    ASSUME IInv
    PROVE  /\ Len(chain) \in Nat /\ Len(leaves) \in Nat /\ fresh \in Nat /\ errors \in Nat
           /\ chain \in Seq(Events) /\ leaves \in Seq(Notes)
           /\ \A l \in Ledgers :
                /\ l \in Nat /\ l > 0 /\ l <= Len(chain) /\ chain[l] \in Events
                /\ chain[l].base \in Nat /\ chain[l].notes \in Seq(Notes)
                /\ Len(chain[l].notes) \in Nat
                /\ End(l) \in Nat /\ chain[l].base <= End(l) /\ End(l) <= Len(leaves)
           /\ \A t \in Events : /\ t.notes \in Seq(Notes) /\ Len(t.notes) \in Nat
                                /\ Elements(t.notes) \subseteq Notes
           /\ \A n \in Notes : n.id \in Nat
<1>1. chain \in Seq(Events) /\ leaves \in Seq(Notes) /\ fresh \in Nat /\ errors \in Nat
  BY BoundsAssumption DEF IInv, TypeOK, Trees, Ids
<1>2. Len(chain) \in Nat /\ Len(leaves) \in Nat
  BY <1>1
<1>3. \A t \in Events : /\ t.notes \in Seq(Notes) /\ Len(t.notes) \in Nat /\ t.base \in Nat
                        /\ Elements(t.notes) \subseteq Notes
  BY DEF Events, Elements
<1>4. ASSUME NEW l \in Ledgers
      PROVE  /\ l \in Nat /\ l > 0 /\ l <= Len(chain) /\ chain[l] \in Events
             /\ End(l) <= Len(leaves)
  BY <1>1, <1>2 DEF Ledgers, IInv, Laid
<1>5. \A n \in Notes : n.id \in Nat
  BY BoundsAssumption DEF Notes, Ids
<1> QED
  BY <1>1, <1>2, <1>3, <1>4, <1>5 DEF End

\* Where a known note is.
LEMMA KnownOnChain ==
    ASSUME IInv, NEW n \in known
    PROVE  \E l \in Ledgers : n \in Elements(chain[l].notes)
<1>1. PICK j \in 1 .. Len(leaves) : leaves[j] = n
  BY DEF IInv, Backed, StoreBacked, Elements
<1> QED
  BY <1>1 DEF IInv, Laid

\* A ledger is appended: what is below and what is new.
LEMMA Grown ==
    ASSUME IInv, NEW t \in Events, close(t)
    PROVE  /\ Len(t.notes) \in Nat
           /\ chain' \in Seq(Events) /\ leaves' \in Trees
           /\ Len(chain') = Len(chain) + 1
           /\ Ledgers' = Ledgers \cup {Len(chain) + 1}
           /\ Len(chain) + 1 \notin Ledgers
           /\ \A l \in Ledgers : chain'[l] = chain[l] /\ l \in Nat /\ l <= Len(chain)
           /\ chain'[Len(chain) + 1] = [t EXCEPT !.base = Len(leaves)]
           /\ Len(leaves') = Len(leaves) + Len(t.notes)
           /\ \A j \in 1 .. Len(leaves) : leaves'[j] = leaves[j]
           /\ \A i \in 1 .. Len(t.notes) : leaves'[Len(leaves) + i] = t.notes[i]
           /\ \A l \in Ledgers : End(l)' = End(l)
           /\ \A l : l = Len(chain) + 1 => End(l)' = Len(leaves')
<1> DEFINE u == [t EXCEPT !.base = Len(leaves)]
<1>1. /\ chain \in Seq(Events) /\ leaves \in Seq(Notes)
      /\ t.notes \in Seq(Notes)
  BY DEF IInv, TypeOK, Trees, Events
<1>2. Len(chain) \in Nat /\ Len(leaves) \in Nat /\ Len(t.notes) \in Nat
  BY <1>1
<1>3. u \in Events
  BY <1>2 DEF Events
<1>4. chain' = Append(chain, u) /\ leaves' = leaves \o t.notes
  BY DEF close
<1> HIDE DEF u
<1>5. /\ chain' \in Seq(Events) /\ Len(chain') = Len(chain) + 1
      /\ \A l \in 1 .. Len(chain) : chain'[l] = chain[l]
      /\ chain'[Len(chain) + 1] = u
  BY <1>1, <1>3, <1>4
<1>6. /\ leaves' \in Seq(Notes) /\ Len(leaves') = Len(leaves) + Len(t.notes)
      /\ \A j \in 1 .. Len(leaves) : leaves'[j] = leaves[j]
      /\ \A i \in 1 .. Len(t.notes) : leaves'[Len(leaves) + i] = t.notes[i]
  BY <1>1, <1>4
<1>7. Ledgers' = Ledgers \cup {Len(chain) + 1} /\ Len(chain) + 1 \notin Ledgers
  BY <1>2, <1>5 DEF Ledgers
<1>8. \A l \in Ledgers : End(l)' = End(l) /\ l \in Nat /\ l <= Len(chain)
  BY <1>2, <1>5 DEF Ledgers, End
<1>9. u.base = Len(leaves) /\ u.notes = t.notes
  BY <1>3 DEF u, Events
<1>10. \A l : l = Len(chain) + 1 => End(l)' = Len(leaves')
  BY <1>5, <1>6, <1>9 DEF End
<1> QED
  BY <1>2, <1>5, <1>6, <1>7, <1>8, <1>10 DEF Ledgers, Trees, u

\* More transactions and more orders break no shape.
LEMMA ShapeStays ==
    ASSUME IInv, fresh' \in Nat, fresh <= fresh', orders \subseteq orders'
    PROVE  \A t : Shape(t) => Shape(t)'
<1>1. fresh \in Nat
  BY BoundsAssumption DEF IInv, TypeOK, Ids
<1>2. \A t : t.id \in 1 .. fresh => t.id \in 1 .. fresh'
  BY <1>1
<1> QED
  BY <1>2 DEF Shape, Indexed

LEMMA SaltsStayKnown ==
    ASSUME known \subseteq known'
    PROVE  \A t : SaltsKnown(t) => SaltsKnown(t)'
BY DEF SaltsKnown, Elements

\* What a ledger needs of the transaction t that closes it.
Fits(t) ==
    /\ t \in Events /\ SaltsKnown(t)
    /\ \A l \in Ledgers : chain[l].id # t.id
    /\ op.id = t.id => t = op

\* The wallet's part when the chain acts.
Elsewhere == UNCHANGED <<live, pass, op, store, disk, counters>>

\* The tree and its ledgers after a ledger is closed.
LEMMA CloseLays ==
    ASSUME IInv, NEW t, Fits(t), Shape(t)', close(t)
    PROVE  Laid'
<1> DEFINE new == Len(chain) + 1
<1>1. t \in Events
  BY DEF Fits
<1>2. /\ Len(chain) \in Nat /\ Len(leaves) \in Nat /\ Len(t.notes) \in Nat
      /\ Len(chain') = new
      /\ Ledgers' = Ledgers \cup {new}
      /\ new \notin Ledgers
      /\ \A l \in Ledgers : chain'[l] = chain[l] /\ l \in Nat /\ l <= Len(chain)
      /\ chain'[new] = [t EXCEPT !.base = Len(leaves)]
      /\ Len(leaves') = Len(leaves) + Len(t.notes)
      /\ \A j \in 1 .. Len(leaves) : leaves'[j] = leaves[j]
      /\ \A i \in 1 .. Len(t.notes) : leaves'[Len(leaves) + i] = t.notes[i]
      /\ \A l \in Ledgers : End(l)' = End(l)
      /\ \A l : l = new => End(l)' = Len(leaves')
  BY <1>1, Grown, Typed
<1>3. chain'[new].base = Len(leaves) /\ chain'[new].notes = t.notes /\ chain'[new].id = t.id
  BY <1>1, <1>2 DEF Events
<1>4. \A l \in Ledgers : /\ chain[l].base \in Nat /\ Len(chain[l].notes) \in Nat
                         /\ End(l) \in Nat /\ End(l) <= Len(leaves)
  BY Typed
<1>5. \A l \in Ledgers : l - 1 \in Ledgers \/ l = 1
  BY <1>2 DEF Ledgers
<1> HIDE DEF new
<1>6. ASSUME NEW l \in Ledgers'
      PROVE  /\ End(l)' <= Len(leaves')
             /\ \A i \in 1 .. Len(chain'[l].notes) :
                  leaves'[chain'[l].base + i] = chain'[l].notes[i]
             /\ chain'[l].base = IF l = 1 THEN 0 ELSE End(l - 1)'
  <2>1. CASE l \in Ledgers
    <3>0. /\ chain[l].base \in Nat /\ Len(chain[l].notes) \in Nat
          /\ chain[l].base + Len(chain[l].notes) <= Len(leaves)
      BY <1>4, <2>1 DEF End
    <3>1. \A i \in 1 .. Len(chain[l].notes) : chain[l].base + i \in 1 .. Len(leaves)
      <4>1. \A b, m, n \in Nat : b + m <= n => \A i \in 1 .. m : b + i \in 1 .. n
        OBVIOUS
      <4>2. Len(leaves) \in Nat
        BY <1>2
      <4> QED
        BY <3>0, <4>1, <4>2
    <3>2. \A i \in 1 .. Len(chain[l].notes) : leaves[chain[l].base + i] = chain[l].notes[i]
      BY <2>1 DEF IInv, Laid
    <3>3. \A i \in 1 .. Len(chain[l].notes) : leaves'[chain[l].base + i] = chain[l].notes[i]
      BY <1>2, <3>1, <3>2
    <3>4. End(l)' <= Len(leaves')
      BY <1>2, <1>4, <2>1 DEF End
    <3>5. chain[l].base = IF l = 1 THEN 0 ELSE End(l - 1)
      BY <2>1 DEF IInv, Laid
    <3>6. l # 1 => \A k : k = l - 1 => End(k)' = End(k)
      BY <1>2, <1>5, <2>1
    <3> QED
      BY <1>2, <2>1, <3>3, <3>4, <3>5, <3>6
  <2>2. CASE l = new
    <3>1. chain = <<>> => Len(chain) = 0
      OBVIOUS
    <3>2. chain # <<>> => Len(chain) \in Ledgers
      BY <1>2 DEF Ledgers, IInv, TypeOK
    <3>3. Len(leaves) = IF chain = <<>> THEN 0 ELSE End(Len(chain))
      BY DEF IInv, Laid
    <3>4. \A k : k = l - 1 => k = Len(chain)
      BY <1>2, <2>2 DEF new
    <3>5. chain = <<>> <=> l = 1
      BY <1>2, <2>2, <3>1, <3>2 DEF new, Ledgers
    <3>6. l # 1 => \A k : k = l - 1 => End(k)' = Len(leaves)
      BY <1>2, <3>2, <3>3, <3>4, <3>5
    <3>7. End(l)' <= Len(leaves')
      BY <1>2, <2>2
    <3>8. chain'[l].base = IF l = 1 THEN 0 ELSE End(l - 1)'
      BY <1>3, <2>2, <3>1, <3>3, <3>5, <3>6
    <3>9. \A i \in 1 .. Len(t.notes) : leaves'[Len(leaves) + i] = t.notes[i]
      BY <1>2
    <3>10. /\ chain'[l].base = Len(leaves)
           /\ Len(chain'[l].notes) = Len(t.notes) /\ chain'[l].notes = t.notes
      BY <1>3, <2>2
    <3>11. \A i \in 1 .. Len(chain'[l].notes) :
             leaves'[chain'[l].base + i] = chain'[l].notes[i]
      BY <3>9, <3>10
    <3> QED
      BY <3>7, <3>8, <3>11
  <2> QED
    BY <1>2, <2>1, <2>2
<1>7. ASSUME NEW l \in Ledgers', NEW k \in 1 .. l - 1
      PROVE  End(k)' <= chain'[l].base
  <2>1. CASE l \in Ledgers
    BY <1>2, <2>1 DEF IInv, Laid, Ledgers
  <2>2. CASE l = new
    <3>1. k \in Ledgers
      BY <1>2, <2>2 DEF new, Ledgers
    <3> QED
      BY <1>2, <1>3, <1>4, <2>2, <3>1
  <2> QED
    BY <1>2, <2>1, <2>2
<1>8. Len(leaves') = IF chain' = <<>> THEN 0 ELSE End(Len(chain))'
  BY <1>2 DEF new
<1>9. ASSUME NEW j \in 1 .. Len(leaves')
      PROVE  \E l \in Ledgers' : leaves'[j] \in Elements(chain'[l].notes)
  <2>1. CASE j <= Len(leaves)
    <3>1. j \in 1 .. Len(leaves) /\ leaves'[j] = leaves[j]
      BY <1>2, <1>9, <2>1
    <3>2. PICK l \in Ledgers : leaves[j] \in Elements(chain[l].notes)
      BY <3>1 DEF IInv, Laid
    <3>3. l \in Ledgers' /\ chain'[l] = chain[l]
      BY <1>2
    <3> QED
      BY <3>1, <3>2, <3>3 DEF Elements
  <2>2. CASE j > Len(leaves)
    <3>1. j - Len(leaves) \in 1 .. Len(t.notes) /\ j = Len(leaves) + (j - Len(leaves))
      BY <1>2, <2>2
    <3>2. PICK i \in 1 .. Len(t.notes) : j = Len(leaves) + i
      BY <3>1
    <3>3. leaves'[j] = t.notes[i]
      BY <1>2, <3>2
    <3>4. leaves'[j] \in Elements(chain'[new].notes)
      BY <1>3, <3>3 DEF Elements
    <3> QED
      BY <1>2, <3>4
  <2> QED
    BY <1>2, <2>1, <2>2
<1>10. ASSUME NEW i \in 1 .. Len(leaves'), NEW j \in 1 .. Len(leaves'), i < j,
              leaves'[i] = leaves'[j], leaves'[j].kind # "deposit"
       PROVE  FALSE
  <2>1. CASE j <= Len(leaves)
    BY <1>2, <1>10, <2>1 DEF IInv, Laid
  <2>2. CASE j > Len(leaves)
    <3>1. j - Len(leaves) \in 1 .. Len(t.notes) /\ j = Len(leaves) + (j - Len(leaves))
      BY <1>2, <2>2
    <3>2. leaves'[j] = t.notes[j - Len(leaves)] /\ leaves'[j].id = t.id
      <4>1. PICK d \in 1 .. Len(t.notes) : d = j - Len(leaves)
        BY <3>1
      <4>2. leaves'[j] = t.notes[d]
        BY <1>2, <3>1, <4>1
      <4>3. t.notes[d].kind # "deposit" => t.notes[d].id = t.id
        BY DEF Shape
      <4> QED
        BY <1>10, <4>1, <4>2, <4>3
    <3>3. CASE i <= Len(leaves)
      <4>1. PICK l \in Ledgers : leaves[i] \in Elements(chain[l].notes)
        BY <1>2, <3>3 DEF IInv, Laid
      <4>2. leaves[i] = leaves'[j]
        BY <1>2, <1>10, <3>3
      <4>3. Shape(chain[l])
        BY DEF IInv, Built
      <4>4. leaves[i].id = chain[l].id
        BY <1>10, <4>1, <4>2, <4>3 DEF Shape, Elements
      <4> QED
        BY <3>2, <4>2, <4>4 DEF Fits
    <3>4. CASE i > Len(leaves)
      <4>1. i - Len(leaves) \in 1 .. Len(t.notes) /\ i = Len(leaves) + (i - Len(leaves))
        BY <1>2, <3>4
      <4>2. t.notes[i - Len(leaves)] = t.notes[j - Len(leaves)]
        BY <1>2, <1>10, <3>1, <4>1
      <4>3. i - Len(leaves) = j - Len(leaves)
        BY <3>1, <4>1, <4>2 DEF Shape
      <4> QED
        BY <1>2, <1>10, <4>3
    <3> QED
      BY <1>2, <3>3, <3>4
  <2> QED
    BY <1>2, <2>1, <2>2
<1>11. ASSUME NEW i \in 1 .. Len(leaves'), NEW j \in 1 .. Len(leaves'),
              leaves'[i] = leaves'[j], leaves'[i].kind # "deposit"
       PROVE  i = j
  BY <1>2, <1>10, <1>11
<1>12. ASSUME NEW l \in Ledgers', NEW n \in Elements(chain'[l].notes), n.kind = "deposit",
              NEW r \in 0 .. n.id - 1
       PROVE  \E k \in 1 .. l - 1 : Dep(r) \in Elements(chain'[k].notes)
  <2>1. CASE l \in Ledgers
    <3>1. PICK k \in 1 .. l - 1 : Dep(r) \in Elements(chain[k].notes)
      BY <1>2, <1>12, <2>1 DEF IInv, Laid
    <3>2. k \in Ledgers
      BY <1>2, <2>1 DEF Ledgers
    <3> QED
      BY <1>2, <3>1, <3>2
  <2>2. CASE l = new
    <3>1. Dep(r) \in known
      BY <1>3, <1>12, <2>2 DEF Fits, SaltsKnown
    <3>2. PICK k \in Ledgers : Dep(r) \in Elements(chain[k].notes)
      BY <3>1, KnownOnChain
    <3>3. k \in 1 .. l - 1
      BY <1>2, <2>2 DEF new, Ledgers
    <3> QED
      BY <1>2, <3>2, <3>3
  <2> QED
    BY <1>2, <2>1, <2>2
<1> QED
  BY <1>6, <1>7, <1>8, <1>9, <1>11, <1>12 DEF Laid

\* A ledger closes, with whichever transaction fits.
LEMMA CloseKeeps ==
    ASSUME IInv, NEW t, Fits(t), Shape(t)', close(t), Elsewhere,
           fresh' \in Ids, fresh <= fresh', mempool' \subseteq mempool,
           \A m \in mempool' : m.id # t.id
    PROVE  IInv'
<1> DEFINE new == Len(chain) + 1
           u == [t EXCEPT !.base = Len(leaves)]
<1>1. t \in Events
  BY DEF Fits
<1>2. /\ chain' \in Seq(Events) /\ leaves' \in Trees
      /\ Len(chain') = new
      /\ Ledgers' = Ledgers \cup {new}
      /\ new \notin Ledgers
      /\ \A l \in Ledgers : chain'[l] = chain[l] /\ l \in Nat /\ l <= Len(chain)
      /\ chain'[new] = u
      /\ Len(leaves') = Len(leaves) + Len(t.notes)
      /\ \A j \in 1 .. Len(leaves) : leaves'[j] = leaves[j]
      /\ \A l \in Ledgers : End(l)' = End(l)
  BY <1>1, Grown
<1>3. Len(chain) \in Nat /\ Len(leaves) \in Nat /\ Len(t.notes) \in Nat /\ fresh \in Nat
  BY <1>1, Typed
<1>4. u \in Events /\ SameButBase(u, t) /\ u.id = t.id
  BY <1>1, <1>3 DEF Events, SameButBase
<1>5. UNCHANGED <<live, pass, op, known, leafIndex, marked, orders, open, disk, errors, reloads>>
  BY DEF Elsewhere, store, counters
<1>6. \A x \in Nat : x <= Len(chain) + 1 =>
        \A l \in Ledgers' : l < x => l \in Ledgers /\ chain'[l] = chain[l] /\ End(l)' = End(l)
  BY <1>2, <1>3
<1> HIDE DEF new, u
<1>7. TypeOK'
  BY <1>2, <1>5 DEF IInv, TypeOK
<1>8. fresh' \in Nat
  BY BoundsAssumption DEF Ids
<1>9. /\ \A x : Shape(x) => Shape(x)'
      /\ \A x : SaltsKnown(x) => SaltsKnown(x)'
  BY <1>5, <1>8, ShapeStays, SaltsStayKnown
<1>10. Built'
  <2>1. ASSUME NEW l \in Ledgers'
        PROVE  Shape(chain[l])' /\ SaltsKnown(chain[l])'
    <3>1. CASE l \in Ledgers
      <4>1. Shape(chain[l]) /\ SaltsKnown(chain[l]) /\ chain'[l] = chain[l]
        BY <1>2, <3>1 DEF IInv, Built
      <4>2. ASSUME NEW x, Shape(x), SaltsKnown(x), chain'[l] = x
            PROVE  Shape(chain[l])' /\ SaltsKnown(chain[l])'
        BY <1>9, <4>2
      <4> QED
        BY <4>1, <4>2
    <3>2. CASE l = new
      <4>1. chain'[l] = u
        BY <1>2, <3>2
      <4>2. ASSUME NEW x, x \in Events, SameButBase(x, t), x.id = t.id, chain'[l] = x
            PROVE  Shape(chain[l])' /\ SaltsKnown(chain[l])'
        <5>1. SaltsKnown(x)'
          BY <1>9, <4>2 DEF Fits, SaltsKnown, SameButBase
        <5>2. Shape(x)'
          BY <4>2 DEF Shape, SameButBase, Indexed
        <5> QED
          BY <4>2, <5>1, <5>2
      <4> QED
        BY <1>4, <4>1, <4>2
    <3> QED
      BY <1>2, <3>1, <3>2
  <2>2. ASSUME NEW m \in mempool'
        PROVE  Shape(m)' /\ SaltsKnown(m)' /\ Own(m)'
    BY <1>9 DEF IInv, Built, Own
  <2>3. op' # NoOp => /\ Shape(op)' /\ SaltsKnown(op)' /\ Own(op)'
                      /\ op'.opens \cap orders' = {}
    BY <1>5, <1>9 DEF IInv, Built, Own
  <2>4. orders' \subseteq 0 .. fresh'
    BY <1>3, <1>5, <1>8 DEF IInv, Built
  <2> QED
    BY <2>1, <2>2, <2>3, <2>4 DEF Built
<1>11. Once'
  <2>1. \A k, l \in Ledgers' : chain'[k].id = chain'[l].id => k = l
    BY <1>2, <1>4 DEF IInv, Once, Fits
  <2>2. \A m \in mempool' : \A l \in Ledgers' : chain'[l].id # m.id
    BY <1>2, <1>4 DEF IInv, Once
  <2>3. \A l \in Ledgers' : chain'[l].id = op.id => SameButBase(chain'[l], op)
    BY <1>2, <1>4 DEF IInv, Once, Fits
  <2>4. /\ \A m, n \in mempool' : m.id = n.id => m = n
        /\ \A m \in mempool' : m.id = op.id => m = op
    BY DEF IInv, Once
  <2> QED
    BY <1>5, <2>1, <2>2, <2>3, <2>4 DEF Once, SameButBase
<1>12. Laid'
  BY CloseLays
<1>13. \A s : IsPrefixOf(s, leaves) /\ Len(s) \in Nat => IsPrefixOf(s, leaves)'
  BY <1>2, <1>3 DEF IsPrefixOf
<1>14. /\ live.leaves \in Trees /\ disk.leaves \in Trees
       /\ live.cursor \in Nat /\ disk.cursor \in Nat /\ pass.next \in Nat
       /\ live.cursor <= Len(chain) + 1 /\ disk.cursor <= Len(chain) + 1
       /\ pass.next <= Len(chain) + 1 /\ pass.latest \in Nat
  BY DEF IInv, TypeOK, Positions
<1>15. Positions'
  <2>1. \A s, x : Covers(s, x) /\ x \in Nat /\ x <= Len(chain) + 1 => Covers(s, x)'
    BY <1>6 DEF Covers
  <2>2. TreeIsPrefix'
    BY <1>5, <1>13, <1>14 DEF IInv, Positions, TreeIsPrefix, Trees
  <2>3. Covers(disk.leaves, disk.cursor)' /\ Covers(live.leaves, live.cursor)'
    BY <1>5, <1>14, <2>1 DEF IInv, Positions
  <2>4. Reading' => Covers(live.leaves, pass.next)'
    BY <1>5, <1>14, <2>1 DEF IInv, Positions, Reading
  <2>5. /\ live.cursor <= Len(chain') + 1
        /\ pass.latest <= Len(chain') /\ pass.next <= Len(chain') + 1
    <3>1. Len(chain') = Len(chain) + 1
      BY <1>2 DEF new
    <3>2. pass.latest <= Len(chain)
      BY DEF IInv, Positions
    <3> QED
      BY <1>3, <1>14, <3>1, <3>2
  <2> QED
    BY <1>5, <2>2, <2>3, <2>4, <2>5 DEF IInv, Positions, Reading
<1>16. \A x, k, S : Has(x, k, S) /\ x \in Nat /\ x <= Len(chain) + 1 => Has(x, k, S)'
  BY <1>6 DEF Has
<1>17. Payments'
  BY <1>5, <1>14, <1>16 DEF IInv, Payments, Reading, NotesOf
<1>18. Salts'
  <2>1. 0 .. fresh \subseteq 0 .. fresh'
    BY <1>3, <1>8
  <2> QED
    BY <1>5, <2>1 DEF IInv, Salts
<1>19. Counted'
  <2>1. Position' = Position /\ Position \in Nat /\ Position <= Len(chain) + 1 /\ Stored' = Stored
    BY <1>5, <1>14 DEF Position, Stored, Reading, NotesOf
  <2>2. live.count <= fresh /\ live.count \in Nat
    BY BoundsAssumption DEF IInv, Counted, TypeOK, Ids
  <2>3. errors = 0 => Has(disk.cursor, "deposit", known)'
    BY <1>5, <1>14, <1>16 DEF IInv, Counted
  <2>4. errors = 0 =>
          \A l \in Ledgers' : l < Position' =>
             \A n \in Elements(chain'[l].notes) : n.kind = "deposit" => n.id < live.count
    BY <1>6, <2>1 DEF IInv, Counted
  <2> QED
    BY <1>3, <1>5, <1>8, <2>1, <2>2, <2>3, <2>4 DEF IInv, Counted
<1>20. Backed'
  <2>1. Elements(leaves) \subseteq Elements(leaves')
    BY <1>2, <1>3 DEF Elements
  <2>2. Burnt \subseteq Burnt'
    BY <1>2 DEF Burnt
  <2>3. TransferChange \subseteq TransferChange'
    BY <1>2 DEF TransferChange
  <2>4. \A n, i : i \in Nat /\ At(n, i) => At(n, i)'
    <3>1. Len(leaves) \in Nat /\ Len(leaves') \in Nat /\ Len(leaves) <= Len(leaves')
      BY <1>2, <1>3
    <3>2. \A i, p, q \in Nat : p <= q /\ i < p => i + 1 \in 1 .. p /\ i < q
      OBVIOUS
    <3>3. \A j \in 1 .. Len(leaves) : leaves'[j] = leaves[j]
      BY <1>2, <1>3
    <3> QED
      BY <3>1, <3>2, <3>3 DEF At
  <2>5. StoreBacked'
    BY <1>5, <2>1, <2>2 DEF IInv, Backed, StoreBacked
  <2>6. IndexTrue'
    <3>1. \A n \in known : leafIndex[n] = None \/ leafIndex[n] \in Nat
      BY DEF IInv, TypeOK
    <3> QED
      BY <1>5, <2>3, <2>4, <3>1 DEF IInv, Backed, IndexTrue, At
  <2>7. \A f \in pass.found : f[2] \in Nat
    BY DEF IInv, TypeOK
  <2> QED
    BY <1>5, <2>2, <2>4, <2>5, <2>6, <2>7 DEF IInv, Backed
<1>21. Matches'
  <2>1. \A x : Closed(x) /\ x \in Nat /\ x <= Len(chain) + 1 => Closed(x)'
    BY <1>5, <1>6 DEF Closed
  <2> QED
    BY <1>5, <1>14, <2>1 DEF IInv, Matches, Reading
<1> QED
  BY <1>7, <1>10, <1>11, <1>12, <1>15, <1>17, <1>18, <1>19, <1>20, <1>21 DEF IInv

LEMMA ApplyKeeps ==
    ASSUME IInv, NEW t \in mempool, apply(t)
    PROVE  IInv'
<1>1. /\ close(t) /\ Elsewhere /\ fresh' = fresh /\ mempool' = mempool \ {t}
  BY DEF apply, Elsewhere
<1>2. /\ t \in Events /\ fresh \in Ids /\ fresh \in Nat
  BY Typed DEF IInv, TypeOK
<1>3. Fits(t)
  BY <1>2 DEF Fits, IInv, Built, Once
<1>4. Shape(t)'
  <2>1. Shape(t) /\ orders' = orders
    BY <1>1 DEF IInv, Built, Elsewhere, store
  <2> QED
    BY <1>1, <1>2, <2>1, ShapeStays
<1>5. \A m \in mempool' : m \in mempool /\ m.id # t.id
  BY <1>1 DEF IInv, Once
<1> QED
  BY <1>1, <1>2, <1>3, <1>4, <1>5, CloseKeeps

\* A transaction of another account is new.
LEMMA Theirs ==
    ASSUME IInv, NEW t \in OthersTx, fresh < MaxTx
    PROVE  /\ t \in Events /\ t.id = fresh + 1
           /\ \A n \in Elements(t.notes) : n.kind # "deposit"
           /\ fresh' = fresh + 1 /\ orders' = orders => Shape(t)'
<1> DEFINE id == fresh + 1
<1>0. MaxTx \in Nat /\ fresh \in Nat
  BY Typed, BoundsAssumption
<1>1. /\ id \in Ids /\ id \in Nat /\ Len(leaves) \in Nat /\ orders \subseteq Ids
  BY <1>0, Typed DEF IInv, TypeOK, Ids
<1>2. /\ Foreign(id) \in Notes /\ Out(id) \in Notes
      /\ Foreign(id).kind = "foreign" /\ Foreign(id).id = id
      /\ Out(id).kind = "output" /\ Out(id).id = id
  BY <1>1 DEF Foreign, Out, Notes, Kinds
<1>3. /\ t.type \in {"deposit", "order_placed", "transfer", "order_matched"}
      /\ t.id = id /\ t.burns = {} /\ t.base = Len(leaves)
      /\ t.closes \subseteq orders /\ t.opens \subseteq {id}
      /\ t = [type |-> t.type, id |-> id, notes |-> t.notes, burns |-> {},
              closes |-> t.closes, opens |-> t.opens, base |-> Len(leaves)]
      /\ t.type \in {"deposit", "order_placed"} => t.notes = <<Foreign(id)>>
      /\ t.type = "transfer" => t.notes = <<Foreign(id), Out(id)>>
      /\ t.type = "order_matched" => t.notes = <<Out(id)>>
  BY DEF OthersTx, Tx
<1> HIDE DEF id
<1>4. /\ t.notes \in Seq(Notes)
      /\ \A i \in 1 .. Len(t.notes) :
           /\ t.notes[i].id = id
           /\ t.notes[i].kind \in {"foreign", "output"}
           /\ t.notes[i].kind = "output" => t.type \in {"transfer", "order_matched"}
           /\ \A j \in 1 .. Len(t.notes) : t.notes[i] = t.notes[j] => i = j
      /\ t.type # "transfer" => Len(t.notes) = 1
  <2>1. CASE t.type \in {"deposit", "order_placed"}
    <3>1. t.notes = <<Foreign(id)>>
      BY <1>3, <2>1
    <3> QED
      BY <1>2, <2>1, <3>1
  <2>2. CASE t.type = "transfer"
    <3>1. t.notes = <<Foreign(id), Out(id)>>
      BY <1>3, <2>2
    <3>2. Foreign(id) # Out(id)
      BY <1>2
    <3> QED
      BY <1>2, <2>2, <3>1, <3>2
  <2>3. CASE t.type = "order_matched"
    <3>1. t.notes = <<Out(id)>>
      BY <1>3, <2>3
    <3> QED
      BY <1>2, <2>3, <3>1
  <2> QED
    BY <1>3, <2>1, <2>2, <2>3
<1>5. t.type # "order_cancelled" /\ (t.type = "order_placed" => Len(t.notes) <= 1)
  BY <1>3, <1>4
<1>6. t \in Events
  BY <1>0, <1>1, <1>3, <1>4 DEF Events
<1>7. \A n \in Elements(t.notes) : n.kind # "deposit"
  BY <1>4 DEF Elements
<1>8. ASSUME fresh' = id, orders' = orders
      PROVE  Shape(t)'
  <2>1. t.id \in 1 .. fresh'
    BY <1>0, <1>1, <1>3, <1>8 DEF id
  <2>2. \A i \in 1 .. Len(t.notes) : t.notes[i].kind # "deposit"
    BY <1>4
  <2> QED
    BY <1>3, <1>4, <1>5, <1>6, <1>8, <2>1, <2>2 DEF Shape, Indexed
<1> QED
  BY <1>3, <1>6, <1>7, <1>8 DEF id

LEMMA OthersKeep ==
    ASSUME IInv, NEW t \in OthersTx, others(t)
    PROVE  IInv'
<1>1. /\ close(t) /\ Elsewhere /\ fresh < MaxTx /\ fresh' = fresh + 1 /\ mempool' = mempool
      /\ orders' = orders
  BY DEF others, Elsewhere, store
<1>2. fresh \in Nat /\ fresh' \in Ids /\ fresh' \in Nat /\ fresh <= fresh'
  BY <1>1, Typed, BoundsAssumption DEF Ids
<1>3. /\ t \in Events /\ t.id = fresh + 1 /\ Shape(t)'
      /\ \A n \in Elements(t.notes) : n.kind # "deposit"
  BY <1>1, Theirs
<1>4. /\ \A l \in Ledgers : chain[l].id # t.id
      /\ \A m \in mempool : m.id # t.id
      /\ op.id # t.id
  BY <1>2, <1>3 DEF IInv, Built, Shape, NoOp
<1>5. Fits(t)
  BY <1>3, <1>4 DEF Fits, SaltsKnown
<1> QED
  BY <1>1, <1>2, <1>3, <1>4, <1>5, CloseKeeps

-----------------------------------------------------------------------------
(* Steps that leave the chain alone                                        *)

\* The parts of the invariant that speak of the chain alone.
LEMMA ChainStays ==
    ASSUME IInv, UNCHANGED <<chain, leaves>>
    PROVE  /\ Laid' /\ Ledgers' = Ledgers
           /\ \A l : End(l)' = End(l)
           /\ \A x, k, S : Has(x, k, S)' <=> Has(x, k, S)
           /\ \A s, x : Covers(s, x)' <=> Covers(s, x)
           /\ \A n, i : At(n, i)' <=> At(n, i)
           /\ Burnt' = Burnt /\ TransferChange' = TransferChange
<1>1. Ledgers' = Ledgers /\ \A l : End(l)' = End(l)
  BY DEF Ledgers, End
<1>2. Laid'
  BY <1>1 DEF IInv, Laid
<1>3. /\ \A x, k, S : Has(x, k, S)' <=> Has(x, k, S)
      /\ \A s, x : Covers(s, x)' <=> Covers(s, x)
      /\ \A n, i : At(n, i)' <=> At(n, i)
  BY <1>1 DEF Has, Covers, At
<1>4. Burnt' = Burnt /\ TransferChange' = TransferChange
  BY <1>1 DEF Burnt, TransferChange
<1> QED
  BY <1>1, <1>2, <1>3, <1>4

LEMMA RecordsStay ==
    ASSUME UNCHANGED <<fresh, orders, known>>
    PROVE  \A t : /\ Shape(t)' <=> Shape(t)
                  /\ SaltsKnown(t)' <=> SaltsKnown(t)
<1>1. \A t : Shape(t)' <=> Shape(t)
  BY DEF Shape, Indexed
<1>2. \A t : SaltsKnown(t)' <=> SaltsKnown(t)
  BY DEF SaltsKnown, Elements
<1> QED
  BY <1>1, <1>2

\* What is stored stays backed while the store stays.
LEMMA StoreStays ==
    ASSUME IInv, UNCHANGED <<chain, leaves, known, leafIndex, marked>>
    PROVE  StoreBacked' /\ IndexTrue'
<1>1. Burnt' = Burnt /\ TransferChange' = TransferChange
  BY ChainStays
<1> QED
  BY <1>1 DEF IInv, Backed, StoreBacked, IndexTrue

\* The number of stored deposits is the first salt that is not among them.
LEMMA SaltCount ==
    ASSUME IInv
    PROVE  /\ StoredDeposits(known) \in 0 .. fresh
           /\ \A n \in Notes : n.kind = "deposit" =>
                (n \in known <=> n.id < StoredDeposits(known))
<1> DEFINE D == {n \in known : n.kind = "deposit"}
<1>1. PICK k \in 0 .. fresh : \A n \in Notes : n.kind = "deposit" => (n \in known <=> n.id < k)
  BY DEF IInv, Salts
<1>2. k \in Nat /\ fresh <= MaxTx /\ MaxTx \in Nat /\ fresh \in Nat
  BY Typed, BoundsAssumption DEF IInv, TypeOK, Ids
<1>3. \A r \in 0 .. k - 1 : Dep(r) \in Notes /\ Dep(r).kind = "deposit" /\ Dep(r).id = r
  BY <1>2 DEF Dep, Notes, Kinds, Ids
<1>4. \A n \in Notes : n.kind = "deposit" => n = Dep(n.id) /\ n.id \in Nat
  BY Typed DEF Dep, Notes
<1> DEFINE F == [r \in 0 .. k - 1 |-> Dep(r)]
<1>5. \A r \in 0 .. k - 1 : Dep(r) \in D
  BY <1>1, <1>2, <1>3
<1>6. \A n \in D : n.id \in 0 .. k - 1 /\ F[n.id] = n
  BY <1>1, <1>2, <1>4 DEF IInv, TypeOK
<1> HIDE DEF D
<1>7. F \in Bijection(0 .. k - 1, D)
  <2>1. F \in [0 .. k - 1 -> D]
    BY <1>5
  <2>2. \A a, b \in 0 .. k - 1 : F[a] = F[b] => a = b
    BY <1>3
  <2>3. \A n \in D : \E r \in 0 .. k - 1 : F[r] = n
    BY <1>6
  <2> HIDE DEF F
  <2> QED
    BY <2>1, <2>2, <2>3 DEF Bijection, Injection, Surjection, IsInjective
<1>8. IsFiniteSet(0 .. k - 1) /\ Cardinality(0 .. k - 1) = k
  BY <1>2, FS_Interval
<1>9. Cardinality(D) = k
  <2>1. ExistsBijection(0 .. k - 1, D)
    BY <1>7 DEF ExistsBijection
  <2> QED
    BY <1>8, <2>1, FS_Bijection
<1>10. StoredDeposits(known) = k
  BY <1>9 DEF StoredDeposits, D
<1> QED
  BY <1>1, <1>10

LEMMA ExpireKeeps ==
    ASSUME IInv, NEW t \in mempool, expire(t)
    PROVE  IInv'
<1>1. UNCHANGED <<chain, leaves, fresh, live, pass, op, known, leafIndex, marked, orders, open,
                  disk, reloads, errors>> /\ mempool' \subseteq mempool
  BY DEF expire, store, counters
<1>2. Laid' /\ Ledgers' = Ledgers /\ StoreBacked' /\ IndexTrue'
  BY <1>1, ChainStays, StoreStays
<1>3. \A x : /\ Shape(x)' <=> Shape(x)
            /\ SaltsKnown(x)' <=> SaltsKnown(x)
  BY <1>1, RecordsStay
<1>4. TypeOK' /\ Built'
  BY <1>1, <1>2, <1>3 DEF IInv, TypeOK, Built, Own
<1>5. Once'
  BY <1>1, <1>2 DEF IInv, Once, SameButBase
<1>6. Positions'
  BY <1>1, <1>2, ChainStays DEF IInv, Positions, TreeIsPrefix, IsPrefixOf, Reading
<1>7. Payments' /\ Salts' /\ Counted'
  BY <1>1, <1>2, ChainStays
  DEF IInv, Payments, Salts, Counted, Position, Stored, Reading, NotesOf
<1>8. Backed' /\ Matches'
  BY <1>1, <1>2, ChainStays DEF IInv, Backed, Matches, Reading, Closed
<1> QED
  BY <1>2, <1>4, <1>5, <1>6, <1>7, <1>8 DEF IInv

\* A step that touches neither the chain nor the store, and at most forgets
\* the operation.
LEMMA RestStays ==
    ASSUME IInv, UNCHANGED network, UNCHANGED <<known, leafIndex, orders, open>>, op' \in {op, NoOp}
    PROVE  /\ Built' /\ Once' /\ Laid' /\ Salts' /\ Ledgers' = Ledgers
           /\ \A x : Closed(x)' <=> Closed(x)
<1>1. UNCHANGED <<chain, leaves, mempool, fresh>>
  BY DEF network
<1>2. Laid' /\ Ledgers' = Ledgers
  BY <1>1, ChainStays
<1>3. \A x : /\ Shape(x)' <=> Shape(x)
            /\ SaltsKnown(x)' <=> SaltsKnown(x)
  BY <1>1, RecordsStay
<1>4. Built'
  BY <1>1, <1>2, <1>3 DEF IInv, Built, Own
<1>5. NoOp.id = 0 /\ 0 \notin 1 .. fresh
  BY Typed DEF NoOp
<1>6. Once'
  <2>1. CASE op' = op
    BY <1>1, <1>2, <2>1 DEF IInv, Once, SameButBase
  <2>2. CASE op' = NoOp
    <3>1. /\ \A l \in Ledgers : chain[l].id # NoOp.id
          /\ \A t \in mempool : t.id # NoOp.id
      BY <1>5 DEF IInv, Built, Shape
    <3> QED
      BY <1>1, <1>2, <2>2, <3>1 DEF IInv, Once
  <2> QED
    BY <2>1, <2>2
<1>7. Salts' /\ \A x : Closed(x)' <=> Closed(x)
  BY <1>1, <1>2 DEF IInv, Salts, Closed
<1> QED
  BY <1>2, <1>4, <1>6, <1>7

LEMMA GiveUpKeeps ==
    ASSUME IInv, UNCHANGED <<network, live, pass, store, disk, counters>>, op' \in {op, NoOp}
    PROVE  IInv'
<1>1. UNCHANGED <<chain, leaves, fresh, mempool, live, pass, known, leafIndex, marked, orders, open,
                  disk, reloads, errors>>
  BY DEF network, store, counters
<1>2. /\ Built' /\ Once' /\ Laid' /\ Salts' /\ Ledgers' = Ledgers
      /\ \A x : Closed(x)' <=> Closed(x)
  BY <1>1, RestStays
<1>3. StoreBacked' /\ IndexTrue'
  BY <1>1, StoreStays
<1>4. TypeOK'
  BY <1>1 DEF IInv, TypeOK
<1>5. Positions'
  BY <1>1, <1>2, ChainStays DEF IInv, Positions, TreeIsPrefix, IsPrefixOf, Reading
<1>6. Payments' /\ Counted'
  BY <1>1, <1>2, ChainStays DEF IInv, Payments, Counted, Position, Stored, Reading, NotesOf
<1>7. Backed' /\ Matches'
  BY <1>1, <1>2, <1>3, ChainStays DEF IInv, Backed, Matches, Reading
<1> QED
  BY <1>2, <1>4, <1>5, <1>6, <1>7 DEF IInv

LEMMA ReconcileKeeps ==
    ASSUME IInv, NEW n \in known, reconcile(n)
    PROVE  IInv'
<1>1. /\ UNCHANGED <<chain, leaves, fresh, mempool, live, pass, op, known, leafIndex, orders, open,
                     disk, reloads, errors>>
      /\ marked' = marked \cup {n} /\ n \in Burnt
  BY DEF reconcile, network, counters
<1>2. /\ Built' /\ Once' /\ Laid' /\ Salts' /\ Ledgers' = Ledgers
      /\ \A x : Closed(x)' <=> Closed(x)
  BY <1>1, RestStays DEF network
<1>3. TypeOK'
  BY <1>1 DEF IInv, TypeOK
<1>4. Positions'
  BY <1>1, <1>2, ChainStays DEF IInv, Positions, TreeIsPrefix, IsPrefixOf, Reading
<1>5. Payments' /\ Counted'
  BY <1>1, <1>2, ChainStays DEF IInv, Payments, Counted, Position, Stored, Reading, NotesOf
<1>6. Burnt' = Burnt /\ TransferChange' = TransferChange
  BY <1>1, ChainStays
<1>7. StoreBacked' /\ IndexTrue'
  BY <1>1, <1>6 DEF IInv, Backed, StoreBacked, IndexTrue
<1>8. Backed' /\ Matches'
  BY <1>1, <1>2, <1>6, <1>7, ChainStays DEF IInv, Backed, Matches, Reading
<1> QED
  BY <1>2, <1>3, <1>4, <1>5, <1>8 DEF IInv

-----------------------------------------------------------------------------
(* The steps of a pass that move its positions only                        *)

\* What they share.
Moving ==
    /\ UNCHANGED <<chain, leaves, mempool, fresh, known, leafIndex, marked, orders, open>>
    /\ op' \in {op, NoOp}

LEMMA MovingStays ==
    ASSUME IInv, Moving
    PROVE  /\ Built' /\ Once' /\ Laid' /\ Salts' /\ Ledgers' = Ledgers
           /\ StoreBacked' /\ IndexTrue'
           /\ \A x : Closed(x)' <=> Closed(x)
           /\ \A x, k, S : Has(x, k, S)' <=> Has(x, k, S)
           /\ \A s, x : Covers(s, x)' <=> Covers(s, x)
           /\ \A n, i : At(n, i)' <=> At(n, i)
           /\ Burnt' = Burnt
BY RestStays, StoreStays, ChainStays DEF Moving, network

\* Ledger 1 is the first that a pass reads.
LEMMA Starting ==
    ASSUME IInv, NEW c \in Nat
    PROVE  /\ StartAt(c) \in Nat /\ StartAt(c) > 0 /\ StartAt(c) >= c
           /\ c <= Len(chain) + 1 => StartAt(c) <= Len(chain) + 1
           /\ \A l \in Ledgers : l < StartAt(c) => l < c
           /\ \A s : Covers(s, c) => Covers(s, StartAt(c))
           /\ \A k, S : Has(c, k, S) => Has(StartAt(c), k, S)
           /\ Closed(c) => Closed(StartAt(c))
<1>1. /\ StartAt(c) \in Nat /\ StartAt(c) > 0 /\ StartAt(c) >= c
      /\ c <= Len(chain) + 1 => StartAt(c) <= Len(chain) + 1
      /\ \A l \in Ledgers : l < StartAt(c) => l < c
  BY Typed DEF StartAt
<1> QED
  BY <1>1 DEF Covers, Has, Closed

LEMMA SyncIndexerKeeps ==
    ASSUME IInv, syncIndexer
    PROVE  IInv'
<1> DEFINE s == StartAt(live.cursor)
<1>1. /\ Moving /\ UNCHANGED <<live, disk, errors, reloads>> /\ pass.pc = "idle"
      /\ pass' = [pc |-> IF s > Len(chain) THEN "leaves" ELSE "read", latest |-> Len(chain),
                  next |-> s, found |-> {}, spent |-> {}]
  BY DEF syncIndexer, Moving, network, store, counters, Idle
<1>2. /\ live.cursor \in Nat /\ live.cursor <= Len(chain) + 1 /\ disk.cursor \in Nat
      /\ disk.cursor <= live.cursor /\ Len(chain) \in Nat
  BY Typed DEF IInv, TypeOK, Positions
<1>3. /\ s \in Nat /\ s > 0 /\ s >= live.cursor /\ s <= Len(chain) + 1
      /\ \A l \in Ledgers : l < s => l < live.cursor
      /\ \A t : Covers(t, live.cursor) => Covers(t, s)
      /\ \A k, S : Has(live.cursor, k, S) => Has(s, k, S)
      /\ Closed(live.cursor) => Closed(s)
  BY <1>2, Starting
<1> HIDE DEF s
<1>4. ~ Reading /\ pass'.found = {} /\ pass'.spent = {} /\ pass'.next = s /\ pass'.latest = Len(chain)
      /\ pass'.pc \in {"leaves", "read"}
  BY <1>1 DEF Reading
<1>5. TypeOK'
  <2>1. UNCHANGED <<chain, leaves, mempool, fresh, live, known, leafIndex, marked, orders, open, disk,
                    reloads, errors>> /\ (op' = op \/ op' = NoOp)
    BY <1>1 DEF Moving
  <2>2. pass' \in [pc : {"idle", "read", "leaves", "cursor"}, latest : Nat,
                   next : Nat, found : SUBSET (Notes \X Nat), spent : SUBSET Notes]
    BY <1>1, <1>2, <1>3
  <2> QED
    BY <2>1, <2>2 DEF IInv, TypeOK
<1>6. Positions'
  <2>1. TreeIsPrefix'
    BY <1>1 DEF IInv, Positions, TreeIsPrefix, IsPrefixOf, Moving
  <2>2. Covers(disk.leaves, disk.cursor)' /\ Covers(live.leaves, live.cursor)'
        /\ Covers(live.leaves, pass.next)'
    BY <1>1, <1>3, <1>4, MovingStays DEF IInv, Positions
  <2> QED
    BY <1>1, <1>2, <1>3, <1>4, <2>1, <2>2 DEF Positions, Moving
<1>7. Payments'
  <2>2. known \subseteq known' \cup NotesOf(pass'.found)
    BY <1>1 DEF Moving
  <2>3. Has(s, "output", known) /\ Has(live.cursor, "output", known) /\ Has(disk.cursor, "output", known)
    BY <1>3 DEF IInv, Payments
  <2>4. Has(s, "output", known' \cup NotesOf(pass'.found))
    BY <2>2, <2>3 DEF Has
  <2> QED
    BY <1>1, <1>4, <2>3, <2>4, MovingStays DEF Payments, Moving, NotesOf
<1>8. Counted'
  <2>1. /\ Position = live.cursor /\ Stored = known
        /\ Position' \in {live.cursor, s} /\ known \subseteq Stored'
    BY <1>1, <1>4 DEF Position, Stored, Reading, Moving
  <2>2. \A l \in Ledgers : l < Position' => l < live.cursor
    BY <1>3, <2>1
  <2> QED
    BY <1>1, <1>2, <1>3, <2>1, <2>2, MovingStays DEF IInv, Counted, Moving
<1>9. Backed' /\ Matches'
  BY <1>1, <1>3, <1>4, MovingStays DEF IInv, Backed, Matches, Moving
<1> QED
  BY <1>1, <1>5, <1>6, <1>7, <1>8, <1>9, MovingStays DEF IInv

\* A pass that ends, with the cursor in memory back at a stored position or
\* where it was.
LEMMA PassEnds ==
    ASSUME IInv, Moving, pass' = Idle, TypeOK',
           IsPrefixOf(live'.leaves, leaves), IsPrefixOf(disk'.leaves, leaves),
           Covers(live'.leaves, live'.cursor), Covers(disk'.leaves, disk'.cursor),
           disk'.cursor <= live'.cursor, live'.cursor <= Len(chain) + 1,
           Has(live'.cursor, "output", known), Closed(live'.cursor),
           Counted'
    PROVE  IInv'
<1>1. /\ pass'.pc = "idle" /\ pass'.latest = 0 /\ pass'.next = 0
      /\ pass'.found = {} /\ pass'.spent = {}
  BY DEF Idle
<1>2. /\ live'.cursor \in Nat /\ disk'.cursor \in Nat /\ Len(chain) \in Nat
  BY Typed DEF TypeOK
<1>3. UNCHANGED <<chain, leaves, known, marked>>
  BY DEF Moving
<1>4. \A l \in Ledgers : l < disk'.cursor => l < live'.cursor
  BY <1>2, Typed
<1>5. Has(disk'.cursor, "output", known) /\ Closed(disk'.cursor)
  BY <1>4 DEF Has, Closed
<1>6. TreeIsPrefix'
  BY <1>3 DEF TreeIsPrefix, IsPrefixOf
<1>7. Positions'
  BY <1>1, <1>2, <1>3, <1>6, MovingStays DEF Positions, Reading
<1>8. Payments'
  BY <1>1, <1>3, <1>5, MovingStays DEF Payments, Reading
<1>9. Backed' /\ Matches'
  BY <1>1, <1>5, MovingStays DEF Backed, Matches, Reading
<1> QED
  BY <1>7, <1>8, <1>9, MovingStays DEF IInv

LEMMA GetEventsFailsKeeps ==
    ASSUME IInv, getEvents_fails
    PROVE  IInv'
<1>1. /\ Moving /\ UNCHANGED <<live, disk, reloads, op>> /\ pass' = Idle
      /\ errors < MaxErrors /\ errors' = errors + 1
  BY DEF getEvents_fails, Moving, network, store
<1>2. errors' # 0 /\ errors' \in 0 .. MaxErrors
  BY <1>1, BoundsAssumption DEF IInv, TypeOK
<1>3. TypeOK'
  BY <1>1, <1>2 DEF IInv, TypeOK, Moving, Idle
<1>4. Counted'
  BY <1>1, <1>2 DEF IInv, Counted, Moving
<1> QED
  BY <1>1, <1>3, <1>4, PassEnds DEF IInv, Positions, TreeIsPrefix, Payments, Matches

LEMMA SaveIndexCursorKeeps ==
    ASSUME IInv, saveIndexCursor
    PROVE  IInv'
<1>1. /\ Moving /\ UNCHANGED <<live, op, errors, reloads>> /\ pass' = Idle /\ pass.pc = "cursor"
      /\ disk' = [disk EXCEPT !.cursor = live.cursor]
  BY DEF saveIndexCursor, Moving, network, store, counters
<1>2. TypeOK' /\ live.cursor \in Nat
  BY <1>1 DEF IInv, TypeOK, Moving, Idle
<1>3. disk'.cursor = live.cursor /\ disk'.leaves = live.leaves
  BY <1>1 DEF IInv, TypeOK, Positions
<1>4. Position = live.cursor /\ Stored = known /\ Position' = live.cursor /\ Stored' = known
  BY <1>1 DEF Position, Stored, Reading, Moving, Idle
<1>5. errors = 0 => Has(live.cursor, "deposit", known)
  <2>1. ASSUME errors = 0, NEW l \in Ledgers, l < live.cursor, NEW n \in Elements(chain[l].notes),
               n.kind = "deposit"
        PROVE  n \in known
    <3>1. n \in Notes /\ n.id \in Nat
      BY Typed
    <3>2. n = Dep(n.id)
      BY <2>1, <3>1 DEF Notes, Dep
    <3>3. n.id < live.count /\ live.count \in Nat
      BY <1>4, <2>1, BoundsAssumption DEF IInv, Counted, TypeOK, Ids
    <3>4. Dep(n.id) \in known
      BY <1>4, <2>1, <3>1, <3>3 DEF IInv, Counted
    <3> QED
      BY <3>2, <3>4
  <2> QED
    BY <2>1 DEF Has
<1>6. Counted'
  BY <1>1, <1>2, <1>3, <1>4, <1>5, MovingStays DEF IInv, Counted, Moving
<1> QED
  BY <1>1, <1>2, <1>3, <1>6, PassEnds DEF IInv, Positions, TreeIsPrefix, Payments, Matches

LEMMA ReloadKeeps ==
    ASSUME IInv, reload
    PROVE  IInv'
<1>1. /\ Moving /\ UNCHANGED <<disk, errors>> /\ pass' = Idle /\ op' = NoOp
      /\ reloads < MaxReloads /\ reloads' = reloads + 1
      /\ live' = [leaves |-> disk.leaves, cursor |-> disk.cursor,
                  count |-> StoredDeposits(known), watch |-> known \ marked]
  BY DEF reload, Moving, network, store, hydrate
<1>2. /\ StoredDeposits(known) \in 0 .. fresh /\ fresh \in Nat /\ fresh \in Ids
      /\ StoredDeposits(known) \in Ids
      /\ \A n \in Notes : n.kind = "deposit" => (n \in known <=> n.id < StoredDeposits(known))
  <2>1. fresh \in Nat /\ fresh \in Ids /\ MaxTx \in Nat
    BY Typed, BoundsAssumption DEF IInv, TypeOK
  <2>2. StoredDeposits(known) \in 0 .. fresh
    BY SaltCount
  <2>3. StoredDeposits(known) \in Ids
    BY <2>1, <2>2 DEF Ids
  <2> QED
    BY <2>1, <2>2, <2>3, SaltCount
<1>3. live'.leaves = disk.leaves /\ live'.cursor = disk.cursor /\ live'.count = StoredDeposits(known)
  BY <1>1
<1>4. TypeOK'
  <2>1. reloads' \in 0 .. MaxReloads
    BY <1>1, BoundsAssumption DEF IInv, TypeOK
  <2>2. live' \in [leaves : Trees, cursor : Nat, count : Ids, watch : SUBSET Notes]
    BY <1>1, <1>2 DEF IInv, TypeOK
  <2> QED
    BY <1>1, <2>1, <2>2 DEF IInv, TypeOK, Moving, Idle
<1>5. disk.cursor \in Nat /\ disk.cursor <= Len(chain) + 1
  BY Typed DEF IInv, TypeOK, Positions
<1>6. Position' = disk.cursor /\ Stored' = known
  BY <1>1, <1>3 DEF Position, Stored, Reading, Moving, Idle
<1>7. ASSUME errors = 0
      PROVE  /\ Has(disk.cursor, "deposit", known)
             /\ \A l \in Ledgers : l < disk.cursor =>
                  \A n \in Elements(chain[l].notes) :
                    n.kind = "deposit" => n.id < StoredDeposits(known)
             /\ \A r \in 0 .. StoredDeposits(known) - 1 : Dep(r) \in known
  <2>1. Has(disk.cursor, "deposit", known)
    BY <1>7 DEF IInv, Counted
  <2>2. \A l \in Ledgers : Elements(chain[l].notes) \subseteq Notes
    BY Typed
  <2>3. \A l \in Ledgers : l < disk.cursor =>
          \A n \in Elements(chain[l].notes) :
             n.kind = "deposit" => n.id < StoredDeposits(known)
    BY <1>2, <2>1, <2>2 DEF Has
  <2>4. \A r \in 0 .. StoredDeposits(known) - 1 :
          Dep(r) \in Notes /\ Dep(r).kind = "deposit" /\ Dep(r).id = r
    BY <1>2, BoundsAssumption DEF Dep, Notes, Kinds, Ids
  <2>5. \A r \in 0 .. StoredDeposits(known) - 1 : Dep(r) \in known
    BY <1>2, <2>4
  <2> QED
    BY <2>1, <2>3, <2>5
<1>8. Counted'
  BY <1>1, <1>2, <1>3, <1>5, <1>6, <1>7, MovingStays DEF Counted, Moving
<1> QED
  BY <1>1, <1>3, <1>4, <1>5, <1>8, PassEnds DEF IInv, Positions, TreeIsPrefix, Payments, Matches

LEMMA SaveLeavesKeeps ==
    ASSUME IInv, saveLeaves
    PROVE  IInv'
<1>1. /\ Moving /\ UNCHANGED <<live, op, errors, reloads>> /\ pass.pc = "leaves"
      /\ pass' = [pass EXCEPT !.pc = "cursor"] /\ disk' = [disk EXCEPT !.leaves = live.leaves]
  BY DEF saveLeaves, Moving, network, store, counters
<1>2. /\ disk'.leaves = live.leaves /\ disk'.cursor = disk.cursor
      /\ pass'.pc = "cursor" /\ pass'.latest = pass.latest /\ pass'.next = pass.next
      /\ pass'.found = pass.found /\ pass'.spent = pass.spent
      /\ disk.cursor \in Nat /\ live.cursor \in Nat
  BY <1>1 DEF IInv, TypeOK
<1>3. TypeOK'
  BY <1>1 DEF IInv, TypeOK, Moving
<1>4. Covers(live.leaves, disk.cursor)
  BY <1>2, Typed DEF IInv, Positions, Covers
<1>5. Positions'
  <2>1. TreeIsPrefix'
    BY <1>1, <1>2 DEF IInv, Positions, TreeIsPrefix, IsPrefixOf, Moving
  <2> QED
    BY <1>1, <1>2, <1>4, <2>1, MovingStays DEF IInv, Positions, Reading, Moving
<1>6. Payments'
  BY <1>1, <1>2, MovingStays DEF IInv, Payments, Reading, Moving
<1>7. Counted'
  BY <1>1, <1>2, MovingStays DEF IInv, Counted, Reading, Moving, Position, Stored
<1>8. Backed' /\ Matches'
  BY <1>1, <1>2, MovingStays DEF IInv, Backed, Matches, Reading, Moving
<1> QED
  BY <1>1, <1>3, <1>5, <1>6, <1>7, <1>8, MovingStays DEF IInv

-----------------------------------------------------------------------------
(* The operations                                                          *)

LEMMA SubmitKeeps ==
    ASSUME IInv, NEW t \in Events, submit(t), t.id = fresh + 1, Shape(t)', SaltsKnown(t), Own(t)
    PROVE  IInv'
<1>1. /\ UNCHANGED <<chain, leaves, live, pass, known, leafIndex, marked, orders, open,
                     disk, reloads, errors>>
      /\ fresh < MaxTx /\ fresh' = fresh + 1 /\ mempool' = mempool \cup {t} /\ op' = t
  BY DEF submit, store, counters
<1>2. fresh \in Nat /\ fresh' \in Nat /\ fresh' \in Ids /\ fresh <= fresh'
  BY <1>1, Typed, BoundsAssumption DEF Ids
<1>3. /\ Laid' /\ Ledgers' = Ledgers /\ Burnt' = Burnt
      /\ \A x, k, S : Has(x, k, S)' <=> Has(x, k, S)
      /\ \A s, x : Covers(s, x)' <=> Covers(s, x)
      /\ \A n, i : At(n, i)' <=> At(n, i)
  BY <1>1, ChainStays
<1>4. /\ \A x : Shape(x) => Shape(x)'
      /\ \A x : SaltsKnown(x) => SaltsKnown(x)'
  BY <1>1, <1>2, ShapeStays, SaltsStayKnown
<1>5. TypeOK'
  BY <1>1, <1>2 DEF IInv, TypeOK
<1>6. Built'
  <2>1. \A l \in Ledgers' : Shape(chain[l])' /\ SaltsKnown(chain[l])'
    BY <1>1, <1>3, <1>4 DEF IInv, Built
  <2>2. \A m \in mempool' : Shape(m)' /\ SaltsKnown(m)' /\ Own(m)'
    BY <1>1, <1>4 DEF IInv, Built, Own
  <2>3. orders' \subseteq 0 .. fresh /\ t.opens \subseteq {fresh + 1}
    BY <1>1 DEF IInv, Built, Shape
  <2>4. op'.opens \cap orders' = {} /\ orders' \subseteq 0 .. fresh'
    BY <1>1, <1>2, <2>3
  <2>5. Shape(op)' /\ SaltsKnown(op)' /\ Own(op)'
    BY <1>1, <1>4 DEF Own
  <2> QED
    BY <2>1, <2>2, <2>4, <2>5 DEF Built
<1>7. Once'
  <2>1. /\ \A l \in Ledgers : chain[l].id # t.id
        /\ \A m \in mempool : m.id # t.id
    BY <1>2 DEF IInv, Built, Shape
  <2> QED
    BY <1>1, <1>3, <2>1 DEF IInv, Once
<1>8. Positions'
  BY <1>1, <1>3 DEF IInv, Positions, TreeIsPrefix, IsPrefixOf, Reading
<1>9. Payments'
  BY <1>1, <1>3 DEF IInv, Payments, Reading, NotesOf
<1>10. Salts'
  <2>1. 0 .. fresh \subseteq 0 .. fresh'
    BY <1>2
  <2> QED
    BY <1>1, <2>1 DEF IInv, Salts
<1>11. Counted'
  <2>1. live.count \in Nat
    BY BoundsAssumption DEF IInv, TypeOK, Ids
  <2> QED
    BY <1>1, <1>2, <1>3, <2>1 DEF IInv, Counted, Position, Stored, Reading, NotesOf
<1>12. Backed' /\ Matches'
  <2>1. StoreBacked' /\ IndexTrue'
    BY <1>1, StoreStays
  <2> QED
    BY <1>1, <1>3, <2>1 DEF IInv, Backed, Matches, Reading, Closed
<1> QED
  BY <1>3, <1>5, <1>6, <1>7, <1>8, <1>9, <1>10, <1>11, <1>12 DEF IInv

\* What an operation builds: its notes carry its own number, or the next salt.
LEMMA Building ==
    ASSUME IInv, NEW type, NEW notes, NEW burns, NEW closes, NEW opens,
           type \in {"deposit", "transfer", "withdraw", "order_placed", "order_cancelled",
                     "bridge_mint"},
           notes \in Seq(Notes), burns \subseteq Notes, closes \subseteq Ids,
           opens \subseteq {fresh + 1},
           \A i \in 1 .. Len(notes) :
             /\ \/ /\ notes[i].kind # "deposit" /\ notes[i].id = fresh + 1
                   /\ notes[i].kind = "output" => type = "transfer"
                \/ notes[i] = Dep(StoredDeposits(known)) /\ type = "deposit"
             /\ \A j \in 1 .. Len(notes) : notes[i] = notes[j] => i = j,
           type = "deposit" => Len(notes) = 1,
           type \in {"order_placed", "order_cancelled"} => Len(notes) <= 1,
           type = "transfer" => burns # {},
           submit(Tx(type, notes, burns, closes, opens))
    PROVE  IInv'
<1>1. /\ fresh < MaxTx /\ fresh' = fresh + 1 /\ orders' = orders
  BY DEF submit, store
<1>2. /\ fresh \in Nat /\ fresh + 1 \in Ids /\ Len(leaves) \in Nat
  BY <1>1, Typed, BoundsAssumption DEF Ids
<1>3. /\ StoredDeposits(known) \in Nat /\ StoredDeposits(known) < fresh + 1
      /\ \A n \in Notes : n.kind = "deposit" =>
            (n \in known <=> n.id < StoredDeposits(known))
  BY <1>2, SaltCount
<1>4. \A s : Dep(s).kind = "deposit" /\ Dep(s).id = s
  BY DEF Dep
<1>5. ASSUME NEW t, t = Tx(type, notes, burns, closes, opens)
      PROVE  t \in Events /\ t.id = fresh + 1 /\ Shape(t)' /\ SaltsKnown(t) /\ Own(t)
  <2>1. /\ t.type = type /\ t.id = fresh + 1 /\ t.notes = notes /\ t.burns = burns
        /\ t.closes = closes /\ t.opens = opens
    BY <1>5 DEF Tx
  <2>2. t \in Events
    <3>1. opens \in SUBSET Ids
      BY <1>2
    <3> QED
      BY <1>2, <1>5, <3>1 DEF Tx, Events
  <2>3. Own(t)
    BY <2>1 DEF Own
  <2>4. SaltsKnown(t)
    <3>1. ASSUME NEW n \in Elements(t.notes), n.kind = "deposit", NEW r \in 0 .. n.id - 1
          PROVE  Dep(r) \in known
      <4>1. n.id = StoredDeposits(known)
        BY <1>4, <2>1, <3>1 DEF Elements
      <4>2. r \in Nat /\ r < StoredDeposits(known) /\ r \in Ids
        BY <1>2, <1>3, <3>1, <4>1, BoundsAssumption DEF Ids
      <4>3. Dep(r) \in Notes
        BY <4>2 DEF Dep, Notes, Kinds
      <4> QED
        BY <1>3, <1>4, <4>2, <4>3
    <3> QED
      BY <3>1 DEF SaltsKnown
  <2>5. Shape(t)'
    <3>1. t.id \in 1 .. fresh'
      BY <1>1, <1>2, <2>1
    <3>2. \A i \in 1 .. Len(t.notes) :
             /\ t.notes[i].kind # "deposit" => t.notes[i].id = t.id
             /\ t.notes[i].kind = "deposit" => t.type = "deposit" /\ t.notes[i].id < t.id
             /\ t.notes[i].kind = "output" => t.type \in {"transfer", "order_matched"}
             /\ \A j \in 1 .. Len(t.notes) : t.notes[i] = t.notes[j] => i = j
      BY <1>3, <1>4, <2>1
    <3> QED
      BY <2>1, <2>2, <3>1, <3>2 DEF Shape, Indexed
  <2> QED
    BY <2>1, <2>2, <2>3, <2>4, <2>5
<1>6. ASSUME NEW t, t = Tx(type, notes, burns, closes, opens)
      PROVE  IInv'
  <2>1. submit(t)
    BY <1>6
  <2> QED
    BY <1>5, <1>6, <2>1, SubmitKeeps
<1> QED
  BY <1>6

LEMMA OperationsKeep ==
    ASSUME IInv
    PROVE  /\ deposit => IInv'
           /\ \A n \in known : transfer(n) \/ withdraw(n) \/ placeOrder(n) => IInv'
           /\ \A o \in open : cancelOrder(o) => IInv'
           /\ runEthIn => IInv'
<1> DEFINE id == fresh + 1
<1>2. ASSUME fresh < MaxTx
      PROVE  /\ id \in Ids /\ fresh \in Nat
             /\ \A k \in Kinds : [kind |-> k, id |-> id] \in Notes
  <2>1. id \in Ids /\ fresh \in Nat
    BY <1>2, Typed, BoundsAssumption DEF Ids
  <2> QED
    BY <2>1 DEF Notes
<1>3. \A n \in known : n \in Notes /\ {n} # {}
  BY DEF IInv, TypeOK
<1>5. ASSUME deposit PROVE IInv'
  <2>1. fresh < MaxTx
    BY <1>5 DEF deposit, submit
  <2>2. StoredDeposits(known) \in 0 .. fresh
    BY SaltCount
  <2>3. StoredDeposits(known) \in Ids
    BY <1>2, <2>1, <2>2, BoundsAssumption DEF Ids
  <2>4. Dep(StoredDeposits(known)) \in Notes
    BY <2>3 DEF Dep, Notes, Kinds
  <2> DEFINE notes == <<Dep(StoredDeposits(known))>>
  <2>5. /\ notes \in Seq(Notes) /\ Len(notes) = 1
        /\ \A i \in 1 .. Len(notes) :
             /\ notes[i] = Dep(StoredDeposits(known))
             /\ \A j \in 1 .. Len(notes) : notes[i] = notes[j] => i = j
    BY <2>4
  <2>6. submit(Tx("deposit", notes, {}, {}, {}))
    BY <1>5 DEF deposit
  <2> HIDE DEF notes
  <2> QED
    BY <2>5, <2>6, Building
<1>6. ASSUME NEW n \in known, NEW change \in {<<Empty(id)>>, <<Out(id)>>},
             submit(Tx("transfer", <<Foreign(id)>> \o change, {n}, {}, {}))
      PROVE  IInv'
  <2>1. fresh < MaxTx
    BY <1>6 DEF submit
  <2>2. /\ Foreign(id) \in Notes /\ Foreign(id).kind = "foreign" /\ Foreign(id).id = id
        /\ Empty(id) \in Notes /\ Empty(id).kind = "empty" /\ Empty(id).id = id
        /\ Out(id) \in Notes /\ Out(id).kind = "output" /\ Out(id).id = id
    BY <1>2, <2>1 DEF Foreign, Empty, Out, Kinds
  <2> DEFINE notes == <<Foreign(id)>> \o change
  <2>3. PICK second \in {Empty(id), Out(id)} : change = <<second>>
    BY <1>6
  <2>4. /\ notes \in Seq(Notes) /\ Len(notes) = 2
        /\ notes[1] = Foreign(id) /\ notes[2] \in {Empty(id), Out(id)}
    BY <2>2, <2>3
  <2>5. submit(Tx("transfer", notes, {n}, {}, {}))
    BY <1>6
  <2> HIDE DEF notes
  <2>6. \A i \in 1 .. Len(notes) :
          /\ notes[i].kind # "deposit" /\ notes[i].id = id
          /\ \A j \in 1 .. Len(notes) : notes[i] = notes[j] => i = j
    <3>1. notes[1] # notes[2]
      BY <2>2, <2>4
    <3> QED
      BY <2>2, <2>4, <3>1
  <2> DEFINE burns == {n}
  <2>7. burns \subseteq Notes /\ burns # {} /\ submit(Tx("transfer", notes, burns, {}, {}))
    BY <1>3, <2>5
  <2> HIDE DEF burns
  <2> QED
    BY <2>4, <2>6, <2>7, Building
<1>7. ASSUME NEW n \in known, withdraw(n) PROVE IInv'
  <2> DEFINE notes == <<>>
             burns == {n}
  <2>1. notes \in Seq(Notes) /\ Len(notes) = 0
    OBVIOUS
  <2>2. burns \subseteq Notes /\ submit(Tx("withdraw", notes, burns, {}, {}))
    BY <1>3, <1>7 DEF withdraw
  <2>3. \A i \in 1 .. Len(notes) :
          /\ notes[i].kind # "deposit" /\ notes[i].id = id /\ notes[i].kind # "output"
          /\ \A j \in 1 .. Len(notes) : notes[i] = notes[j] => i = j
    BY <2>1
  <2>4. notes \in Seq(Notes) /\ Len(notes) <= 1
    BY <2>1
  <2> HIDE DEF notes, burns
  <2> QED
    BY <2>2, <2>3, <2>4, Building
<1>8. ASSUME NEW n \in known, NEW change \in {<<>>, <<Rest(id)>>},
             submit(Tx("order_placed", change, {n}, {}, {id}))
      PROVE  IInv'
  <2>1. fresh < MaxTx
    BY <1>8 DEF submit
  <2>2. Rest(id) \in Notes /\ Rest(id).kind = "rest" /\ Rest(id).id = id
    BY <1>2, <2>1 DEF Rest, Kinds
  <2>3. /\ change \in Seq(Notes) /\ Len(change) <= 1
        /\ \A i \in 1 .. Len(change) :
             /\ change[i].kind = "rest" /\ change[i].id = id
             /\ \A j \in 1 .. Len(change) : change[i] = change[j] => i = j
    <3>1. CASE change = <<>>
      BY <3>1
    <3>2. CASE change = <<Rest(id)>>
      BY <2>2, <3>2
    <3> QED
      BY <3>1, <3>2
  <2> QED
    BY <1>3, <1>8, <2>3, Building
<1>9. ASSUME NEW o \in open, cancelOrder(o) PROVE IInv'
  <2>1. fresh < MaxTx
    BY <1>9 DEF cancelOrder, submit
  <2>2. Rest(id) \in Notes /\ Rest(id).kind = "rest" /\ Rest(id).id = id
    BY <1>2, <2>1 DEF Rest, Kinds
  <2>3. {o} \subseteq Ids
    BY DEF IInv, TypeOK
  <2> QED
    BY <1>9, <2>2, <2>3, Building DEF cancelOrder
<1>10. ASSUME runEthIn PROVE IInv'
  <2>1. fresh < MaxTx
    BY <1>10 DEF runEthIn, lockOnL1, submit
  <2>2. Bridged(id) \in Notes /\ Bridged(id).kind = "bridged" /\ Bridged(id).id = id
    BY <1>2, <2>1 DEF Bridged, Kinds
  <2> DEFINE notes == <<Bridged(id)>>
  <2>3. /\ notes \in Seq(Notes) /\ Len(notes) = 1
        /\ \A i \in 1 .. Len(notes) :
             /\ notes[i] = Bridged(id)
             /\ \A j \in 1 .. Len(notes) : notes[i] = notes[j] => i = j
    BY <2>2
  <2>4. submit(Tx("bridge_mint", notes, {}, {}, {}))
    BY <1>10 DEF runEthIn, lockOnL1, createBridgeNote
  <2> HIDE DEF notes
  <2> QED
    BY <2>2, <2>3, <2>4, Building
<1> QED
  BY <1>5, <1>6, <1>7, <1>8, <1>9, <1>10 DEF transfer, placeOrder

-----------------------------------------------------------------------------
(* Confirming, and catching up                                             *)

\* A deposit enters the store behind those with smaller salts.
LEMMA SaltsGrow ==
    ASSUME IInv, fresh' = fresh, NEW new \in SUBSET Notes, known' = known \cup new,
           \A n \in new : n.kind = "deposit" =>
             n.id < fresh /\ \A r \in 0 .. n.id - 1 : Dep(r) \in known
    PROVE  Salts'
<1>1. PICK k \in 0 .. fresh : \A n \in Notes : n.kind = "deposit" => (n \in known <=> n.id < k)
  BY DEF IInv, Salts
<1>2. fresh \in Nat /\ k \in Nat /\ \A n \in Notes : n.id \in Nat
  BY Typed
<1>3. \A n \in Notes : n.kind = "deposit" => n = Dep(n.id)
  BY DEF Dep, Notes
<1>4. \A n \in new : n.kind = "deposit" => n.id <= k
  <2>1. ASSUME NEW n \in new, n.kind = "deposit", n.id > k
        PROVE  FALSE
    <3>1. Dep(k) \in known
      BY <1>2, <2>1
    <3>2. Dep(k) \in Notes /\ Dep(k).kind = "deposit" /\ Dep(k).id = k
      BY <3>1 DEF IInv, TypeOK, Dep
    <3> QED
      BY <1>1, <1>2, <3>1, <3>2
  <2> QED
    BY <1>2, <2>1
<1>5. CASE \E n \in new : n.kind = "deposit" /\ n.id = k
  <2>1. PICK m \in new : m.kind = "deposit" /\ m.id = k
    BY <1>5
  <2>2. k + 1 \in 0 .. fresh
    BY <1>2, <2>1
  <2>3. ASSUME NEW n \in Notes, n.kind = "deposit"
        PROVE  n \in known' <=> n.id < k + 1
    <3>1. n.id = k => n = m
      BY <1>3, <2>1, <2>3
    <3> QED
      BY <1>1, <1>2, <1>4, <2>1, <2>3, <3>1
  <2> QED
    BY <2>2, <2>3 DEF Salts
<1>6. CASE ~ \E n \in new : n.kind = "deposit" /\ n.id = k
  <2>1. \A n \in new : n.kind = "deposit" => n.id < k
    BY <1>2, <1>4, <1>6
  <2>2. \A n \in Notes : n.kind = "deposit" => (n \in known' <=> n.id < k)
    BY <1>1, <2>1
  <2> QED
    BY <2>2 DEF Salts
<1> QED
  BY <1>5, <1>6

LEMMA ConfirmKeeps ==
    ASSUME IInv, NEW l \in Ledgers, confirm(l)
    PROVE  IInv'
<1> DEFINE mine == OwnNotes(op)
<1>1. /\ UNCHANGED <<chain, leaves, mempool, fresh, live, pass, disk, reloads, errors>>
      /\ op # NoOp /\ op' = NoOp /\ chain[l].id = op.id
      /\ known' = known \cup mine
      /\ leafIndex' = [n \in known' |-> IF n \in mine THEN IndexOf(op, chain[l].base)
                                       ELSE leafIndex[n]]
      /\ marked' = (marked \cup (op.burns \cap known)) \ mine
      /\ orders' = orders \cup op.opens
      /\ open' = (open \ op.closes) \cup op.opens
  BY DEF confirm, awaitConfirmation, pollUntil, network, counters
<1>2. /\ op \in Events /\ Shape(op) /\ SaltsKnown(op) /\ Own(op) /\ op.opens \cap orders = {}
      /\ SameButBase(chain[l], op)
  BY <1>1 DEF IInv, TypeOK, Built, Once
<1>3. /\ fresh \in Nat /\ chain[l].base \in Nat /\ Elements(op.notes) \subseteq Notes
      /\ End(l) <= Len(leaves) /\ Len(leaves) \in Nat /\ op.base \in Nat
  BY <1>2, Typed DEF Events
<1>4. mine \subseteq Elements(op.notes) /\ Elements(op.notes) = Elements(chain[l].notes)
  BY <1>2 DEF OwnNotes, SameButBase, Elements
<1>5. /\ Laid' /\ Ledgers' = Ledgers /\ Burnt' = Burnt /\ TransferChange' = TransferChange
      /\ \A x, k, S : Has(x, k, S)' <=> Has(x, k, S)
      /\ \A s, x : Covers(s, x)' <=> Covers(s, x)
      /\ \A n, i : At(n, i)' <=> At(n, i)
  BY <1>1, ChainStays
<1> HIDE DEF mine
<1>6. /\ \A x : Shape(x) => Shape(x)'
      /\ \A x : SaltsKnown(x) => SaltsKnown(x)'
  BY <1>1, <1>3, ShapeStays, SaltsStayKnown
<1>7. op.opens \subseteq 0 .. fresh /\ op.opens \subseteq Ids
  BY <1>2, <1>3 DEF Shape, Events
<1>8. TypeOK'
  <2>1. IndexOf(op, chain[l].base) \in Nat \cup {None}
    BY <1>3 DEF IndexOf
  <2>2. leafIndex' \in [known' -> Nat \cup {None}]
    BY <1>1, <2>1 DEF IInv, TypeOK
  <2>3. known' \subseteq Notes /\ marked' \subseteq known' /\ open' \subseteq orders' /\ orders' \subseteq Ids
    BY <1>1, <1>3, <1>4, <1>7 DEF IInv, TypeOK
  <2> QED
    BY <1>1, <2>2, <2>3 DEF IInv, TypeOK
<1>9. Built'
  <2>1. orders' \subseteq 0 .. fresh'
    BY <1>1, <1>7 DEF IInv, Built
  <2> QED
    BY <1>1, <1>5, <1>6, <2>1 DEF IInv, Built, Own
<1>10. Once'
  <2>1. NoOp.id = 0 /\ 0 \notin 1 .. fresh
    BY <1>3 DEF NoOp
  <2>2. /\ \A k \in Ledgers : chain[k].id # NoOp.id
        /\ \A t \in mempool : t.id # NoOp.id
    BY <2>1 DEF IInv, Built, Shape
  <2> QED
    BY <1>1, <1>5, <2>2 DEF IInv, Once
<1>11. Positions'
  BY <1>1, <1>5 DEF IInv, Positions, TreeIsPrefix, IsPrefixOf, Reading
<1>12. known \subseteq known' /\ \A x, k, S, T : S \subseteq T /\ Has(x, k, S) => Has(x, k, T)
  BY <1>1 DEF Has
<1>13. Payments'
  <2>1. known \cup NotesOf(pass.found) \subseteq known' \cup NotesOf(pass.found)
    BY <1>12
  <2> QED
    BY <1>1, <1>5, <1>12, <2>1 DEF IInv, Payments, Reading, NotesOf
<1>14. Salts'
  <2>1. \A n \in mine : n.kind = "deposit" =>
          n.id < fresh /\ \A r \in 0 .. n.id - 1 : Dep(r) \in known
    <3>1. ASSUME NEW n \in mine, n.kind = "deposit"
          PROVE  n.id < fresh
      <4>1. PICK i \in 1 .. Len(op.notes) : op.notes[i] = n
        BY <1>4, <3>1 DEF Elements
      <4>2. n.id < op.id /\ op.id \in 1 .. fresh
        BY <1>2, <3>1, <4>1 DEF Shape
      <4>3. n.id \in Nat
        BY <1>3, <1>4, <3>1, Typed
      <4> QED
        BY <1>3, <4>2, <4>3
    <3> QED
      BY <1>2, <1>4, <3>1 DEF SaltsKnown
  <2>2. mine \in SUBSET Notes
    BY <1>3, <1>4
  <2> QED
    BY <1>1, <2>1, <2>2, SaltsGrow
<1>15. Counted'
  <2>1. Stored \subseteq Stored' /\ Position' = Position
    BY <1>1, <1>12 DEF Stored, Position, Reading, NotesOf
  <2> QED
    BY <1>1, <1>5, <1>12, <2>1 DEF IInv, Counted
<1>16. StoreBacked'
  <2>1. mine \subseteq Elements(leaves)
    <3>1. ASSUME NEW n \in mine
          PROVE  n \in Elements(leaves)
      <4>1. PICK i \in 1 .. Len(chain[l].notes) : chain[l].notes[i] = n
        BY <1>4, <3>1 DEF Elements
      <4>2. leaves[chain[l].base + i] = n
        BY <4>1 DEF IInv, Laid
      <4>3. chain[l].base + i \in 1 .. Len(leaves)
        BY <1>3, Typed DEF End
      <4> QED
        BY <4>2, <4>3 DEF Elements
    <3> QED
      BY <3>1
  <2>2. op.burns \subseteq Burnt
    BY <1>2 DEF SameButBase, Burnt
  <2> QED
    BY <1>1, <1>5, <2>1, <2>2 DEF IInv, Backed, StoreBacked, Elements
<1>17. IndexTrue'
  <2>1. ASSUME NEW n \in known', n \notin TransferChange, leafIndex'[n] # None
        PROVE  leafIndex'[n] < Len(leaves) /\ leaves[leafIndex'[n] + 1] = n
    <3>1. CASE n \notin mine
      BY <1>1, <2>1, <3>1 DEF IInv, Backed, IndexTrue
    <3>2. CASE n \in mine
      <4>1. leafIndex'[n] = IndexOf(op, chain[l].base)
        BY <1>1, <3>2
      <4>2. op.type # "transfer"
        <5>1. n \in Notes /\ n \in Elements(chain[l].notes)
          BY <1>3, <1>4, <3>2
        <5> QED
          BY <1>2, <2>1, <5>1 DEF TransferChange, SameButBase, Own
      <4>3. op.type = "deposit" /\ leafIndex'[n] = chain[l].base
        BY <2>1, <4>1, <4>2 DEF IndexOf
      <4>4. Len(chain[l].notes) = 1 /\ n = chain[l].notes[1]
        BY <1>2, <1>4, <3>2, <4>3 DEF Shape, SameButBase, Elements
      <4>5. leaves[chain[l].base + 1] = n
        BY <4>4 DEF IInv, Laid
      <4> QED
        BY <1>3, <4>3, <4>4, <4>5 DEF End
    <3> QED
      BY <3>1, <3>2
  <2> QED
    BY <1>1, <1>5, <2>1 DEF IndexTrue
<1>18. Backed'
  BY <1>1, <1>5, <1>16, <1>17 DEF IInv, Backed
<1>19. Matches'
  <2>1. \A x : Closed(x) => Closed(x)'
    <3>1. \A k \in Ledgers : chain[k].type = "order_matched" => chain[k].closes \subseteq orders
      BY DEF IInv, Built, Shape
    <3> QED
      BY <1>1, <1>2, <1>5, <3>1 DEF Closed
  <2> QED
    BY <1>1, <2>1 DEF IInv, Matches, Reading
<1> QED
  BY <1>5, <1>8, <1>9, <1>10, <1>11, <1>13, <1>14, <1>15, <1>18, <1>19 DEF IInv

LEMMA PersistKeeps ==
    ASSUME IInv, persist
    PROVE  IInv'
<1> DEFINE new == NotesOf(pass.found)
<1>1. /\ UNCHANGED <<chain, leaves, mempool, fresh, op, orders, open, disk, reloads, errors>>
      /\ Reading /\ pass.next > Len(chain)
      /\ known' = known \cup new
      /\ leafIndex' = [n \in known' |-> IF n \in known THEN leafIndex[n]
                                       ELSE (CHOOSE f \in pass.found : f[1] = n)[2]]
      /\ marked' = marked \cup (pass.spent \cap known')
      /\ live' = [live EXCEPT !.cursor = pass.latest + 1]
      /\ pass' = [pass EXCEPT !.pc = "leaves"]
  BY DEF persist, network, counters, Reading
<1>2. /\ Len(chain) \in Nat /\ fresh \in Nat /\ pass.latest \in Nat /\ pass.next \in Nat
      /\ pass.latest <= Len(chain) /\ disk.cursor \in Nat /\ live.cursor \in Nat
      /\ disk.cursor <= live.cursor /\ live.cursor <= pass.latest + 1
      /\ pass.found \subseteq Notes \X Nat
  BY <1>1, Typed DEF IInv, TypeOK, Positions
<1>3. /\ live'.leaves = live.leaves /\ live'.cursor = pass.latest + 1 /\ live'.count = live.count
      /\ pass'.pc = "leaves" /\ pass'.latest = pass.latest /\ pass'.next = pass.next
      /\ pass'.found = pass.found /\ pass'.spent = pass.spent /\ ~ Reading'
  BY <1>1 DEF IInv, TypeOK, Reading
<1>4. /\ Laid' /\ Ledgers' = Ledgers /\ Burnt' = Burnt /\ TransferChange' = TransferChange
      /\ \A x, k, S : Has(x, k, S)' <=> Has(x, k, S)
      /\ \A s, x : Covers(s, x)' <=> Covers(s, x)
      /\ \A n, i : At(n, i)' <=> At(n, i)
  BY <1>1, ChainStays
<1>5. \A n : n \in new <=> \E f \in pass.found : f[1] = n
  BY DEF NotesOf
<1>6. \A f \in pass.found : f[1] \in Notes /\ f[2] \in Nat /\ At(f[1], f[2])
  BY <1>2 DEF IInv, Backed
<1>7. new \subseteq Notes
  BY <1>5, <1>6
<1>8. \A l \in Ledgers : l < live'.cursor => l < pass.next
  BY <1>1, <1>2, <1>3, Typed
<1>9. known \subseteq known' /\ \A x, k, S, T : S \subseteq T /\ Has(x, k, S) => Has(x, k, T)
  BY <1>1 DEF Has
<1> HIDE DEF new
<1>10. \A n \in known' \ known :
         \E f \in pass.found : f[1] = n /\ leafIndex'[n] = f[2]
  <2>1. ASSUME NEW n \in known' \ known
        PROVE  \E f \in pass.found : f[1] = n /\ leafIndex'[n] = f[2]
    <3>1. \E f \in pass.found : f[1] = n
      BY <1>1, <1>5, <2>1
    <3> DEFINE g == CHOOSE f \in pass.found : f[1] = n
    <3>2. g \in pass.found /\ g[1] = n
      BY <3>1
    <3>3. leafIndex'[n] = g[2]
      BY <1>1, <2>1
    <3> QED
      BY <3>2, <3>3
  <2> QED
    BY <2>1
<1>11. TypeOK'
  <2>1. leafIndex' \in [known' -> Nat \cup {None}]
    <3>1. DOMAIN leafIndex' = known' /\ leafIndex' = [n \in known' |-> leafIndex'[n]]
      BY <1>1
    <3>2. \A n \in known : leafIndex'[n] \in Nat \cup {None}
      BY <1>1 DEF IInv, TypeOK
    <3> QED
      BY <1>6, <1>10, <3>1, <3>2
  <2>2. known' \subseteq Notes /\ marked' \subseteq known'
    BY <1>1, <1>7 DEF IInv, TypeOK
  <2>3. live' \in [leaves : Trees, cursor : Nat, count : Ids, watch : SUBSET Notes]
    <3>1. pass.latest + 1 \in Nat
      BY <1>2
    <3>2. live \in [leaves : Trees, cursor : Nat, count : Ids, watch : SUBSET Notes]
      BY DEF IInv, TypeOK
    <3> QED
      BY <1>1, <3>1, <3>2
  <2>4. pass' \in [pc : {"idle", "read", "leaves", "cursor"}, latest : Nat,
                   next : Nat, found : SUBSET (Notes \X Nat), spent : SUBSET Notes]
    BY <1>1 DEF IInv, TypeOK
  <2> QED
    BY <1>1, <2>1, <2>2, <2>3, <2>4 DEF IInv, TypeOK
<1>12. Built'
  <2>1. /\ \A x : Shape(x) => Shape(x)'
        /\ \A x : SaltsKnown(x) => SaltsKnown(x)'
    BY <1>1, <1>2, <1>9, ShapeStays, SaltsStayKnown
  <2> QED
    BY <1>1, <1>4, <2>1 DEF IInv, Built, Own
<1>13. Once'
  BY <1>1, <1>4 DEF IInv, Once, SameButBase
<1>14. Positions'
  <2>1. Covers(live.leaves, pass.latest + 1)
    BY <1>1, <1>3, <1>8 DEF IInv, Positions, Covers
  <2>2. TreeIsPrefix'
    BY <1>1, <1>3 DEF IInv, Positions, TreeIsPrefix, IsPrefixOf
  <2>3. pass.next <= Len(chain) + 1
    BY DEF IInv, Positions
  <2> QED
    BY <1>1, <1>2, <1>3, <1>4, <2>1, <2>2, <2>3 DEF IInv, Positions
<1>15. Payments'
  <2>1. Has(pass.next, "output", known')
    BY <1>1 DEF IInv, Payments, new
  <2>2. Has(live'.cursor, "output", known')
    BY <1>8, <2>1 DEF Has
  <2>3. Has(disk.cursor, "output", known')
    BY <1>9 DEF IInv, Payments
  <2> QED
    BY <1>1, <1>3, <1>4, <2>2, <2>3 DEF Payments
<1>16. Salts'
  <2>1. ASSUME NEW n \in new, n.kind = "deposit"
        PROVE  n.id < fresh /\ \A r \in 0 .. n.id - 1 : Dep(r) \in known
    <3>1. PICK i \in Nat : At(n, i)
      BY <1>5, <1>6, <2>1
    <3>2. PICK l \in Ledgers : n \in Elements(chain[l].notes)
      BY <1>2, <3>1, Typed DEF At, IInv, Laid
    <3>3. PICK j \in 1 .. Len(chain[l].notes) : chain[l].notes[j] = n
      BY <3>2 DEF Elements
    <3>4. n.id < chain[l].id /\ chain[l].id \in 1 .. fresh
      BY <2>1, <3>3 DEF IInv, Built, Shape
    <3>5. n.id \in Nat
      BY <1>7, <2>1, Typed
    <3>6. n.id < fresh
      BY <1>2, <3>4, <3>5
    <3> QED
      BY <2>1, <3>2, <3>6 DEF IInv, Built, SaltsKnown
  <2> QED
    BY <1>1, <1>7, <2>1, SaltsGrow
<1>17. Counted'
  <2>1. /\ Position = pass.next /\ Position' = live'.cursor
        /\ Stored = known' /\ Stored' = known'
    BY <1>1, <1>3 DEF Position, Stored, new
  <2>2. errors = 0 => Has(disk.cursor, "deposit", known')
    BY <1>9 DEF IInv, Counted
  <2>3. errors = 0 =>
          \A l \in Ledgers : l < live'.cursor =>
             \A n \in Elements(chain[l].notes) : n.kind = "deposit" => n.id < live.count
    BY <1>8, <2>1 DEF IInv, Counted
  <2> QED
    BY <1>1, <1>2, <1>3, <1>4, <2>1, <2>2, <2>3 DEF IInv, Counted
<1>18. StoreBacked'
  <2>1. \A f \in pass.found : f[1] \in Elements(leaves)
    BY <1>6, Typed DEF At, Elements
  <2>2. known' \subseteq Elements(leaves)
    BY <1>1, <1>5, <2>1 DEF IInv, Backed, StoreBacked
  <2>3. Elements(leaves)' = Elements(leaves)
    BY <1>1 DEF Elements
  <2> QED
    BY <1>1, <1>4, <2>2, <2>3 DEF IInv, Backed, StoreBacked
<1>19. IndexTrue'
  <2>1. ASSUME NEW n \in known', n \notin TransferChange, leafIndex'[n] # None
        PROVE  leafIndex'[n] < Len(leaves) /\ leaves[leafIndex'[n] + 1] = n
    <3>1. CASE n \in known
      BY <1>1, <2>1, <3>1 DEF IInv, Backed, IndexTrue
    <3>2. CASE n \notin known
      BY <1>6, <1>10, <2>1, <3>2 DEF At
    <3> QED
      BY <3>1, <3>2
  <2> QED
    BY <1>1, <1>4, <2>1 DEF IndexTrue
<1>20. Backed'
  BY <1>1, <1>3, <1>4, <1>18, <1>19 DEF IInv, Backed
<1>21. Matches'
  <2>1. \A x : Closed(x) => Closed(x)'
    BY <1>1, <1>4 DEF Closed
  <2>2. Closed(live'.cursor)
    BY <1>1, <1>8 DEF IInv, Matches, Closed
  <2> QED
    BY <1>1, <1>3, <2>1, <2>2 DEF IInv, Matches, Closed
<1> QED
  BY <1>4, <1>11, <1>12, <1>13, <1>14, <1>15, <1>16, <1>17, <1>20, <1>21 DEF IInv

-----------------------------------------------------------------------------
(* Applying an event                                                       *)

LEMMA PrefixGrows ==
    ASSUME NEW S, NEW t \in Seq(S), NEW p \in Seq(S), NEW s \in Seq(S), IsPrefixOf(p, t),
           Len(p) + Len(s) <= Len(t), \A i \in 1 .. Len(s) : s[i] = t[Len(p) + i]
    PROVE  /\ p \o s \in Seq(S) /\ Len(p \o s) = Len(p) + Len(s)
           /\ IsPrefixOf(p \o s, t)
<1>1. Len(p) \in Nat /\ Len(s) \in Nat /\ Len(t) \in Nat
  OBVIOUS
<1>2. /\ p \o s \in Seq(S) /\ Len(p \o s) = Len(p) + Len(s)
      /\ \A i \in 1 .. Len(p) + Len(s) : (p \o s)[i] = IF i <= Len(p) THEN p[i] ELSE s[i - Len(p)]
  BY ConcatProperties
<1>3. \A i \in 1 .. Len(p) + Len(s) : (p \o s)[i] = t[i]
  <2>1. ASSUME NEW i \in 1 .. Len(p) + Len(s)
        PROVE  (p \o s)[i] = t[i]
    <3>1. CASE i <= Len(p)
      BY <1>1, <1>2, <2>1, <3>1 DEF IsPrefixOf
    <3>2. CASE i > Len(p)
      <4>1. i - Len(p) \in 1 .. Len(s) /\ Len(p) + (i - Len(p)) = i
        BY <1>1, <2>1, <3>2
      <4>2. (p \o s)[i] = s[i - Len(p)]
        BY <1>1, <1>2, <2>1, <3>2
      <4> QED
        BY <4>1, <4>2
    <3> QED
      BY <1>1, <3>1, <3>2
  <2> QED
    BY <2>1
<1> QED
  BY <1>2, <1>3 DEF IsPrefixOf

\* The rest of a sequence behind its first d elements.
LEMMA RestOf ==
    ASSUME NEW S, NEW s \in Seq(S), NEW d \in Nat
    PROVE  /\ SubSeq(s, d + 1, Len(s)) \in Seq(S)
           /\ Len(SubSeq(s, d + 1, Len(s))) = IF d < Len(s) THEN Len(s) - d ELSE 0
           /\ \A i \in 1 .. Len(s) - d : SubSeq(s, d + 1, Len(s))[i] = s[d + i]
<1>1. Len(s) \in Nat /\ d + 1 \in Int /\ Len(s) \in Int
  OBVIOUS
<1>2. \A i \in d + 1 .. Len(s) : s[i] \in S
  BY <1>1
<1> DEFINE m == d + 1
           n == Len(s)
<1>3. /\ SubSeq(s, m, n) \in Seq(S)
      /\ Len(SubSeq(s, m, n)) = IF m <= n THEN n - m + 1 ELSE 0
      /\ \A i \in 1 .. n - m + 1 : SubSeq(s, m, n)[i] = s[m + i - 1]
  <2>1. m \in Int /\ n \in Int /\ \A i \in m .. n : s[i] \in S
    BY <1>1, <1>2
  <2> HIDE DEF m, n
  <2> QED
    BY <2>1, SubSeqProperties
<1>4. n - m + 1 = Len(s) - d /\ \A i \in Nat : m + i - 1 = d + i
  BY <1>1
<1>5. \A i \in 1 .. Len(s) - d : SubSeq(s, m, n)[i] = s[d + i]
  BY <1>1, <1>3, <1>4
<1>6. Len(SubSeq(s, m, n)) = IF d < Len(s) THEN Len(s) - d ELSE 0
  BY <1>1, <1>3, <1>4
<1> QED
  BY <1>3, <1>5, <1>6

\* Reading the next ledger, the indexer gets to the end of its leaves and no
\* further, whether or not it had them already.
LEMMA Extended ==
    ASSUME IInv, Reading, pass.next \in Ledgers, NEW e, e = chain[pass.next]
    PROVE  LET new == NewLeaves(live.leaves, e)
               tree == live.leaves \o new
           IN  /\ tree \in Seq(Notes) /\ Len(live.leaves) <= Len(tree)
               /\ IsPrefixOf(tree, leaves) /\ End(pass.next) <= Len(tree)
               /\ ~ Indexed(e) => \A n \in Elements(new) : At(n, Len(live.leaves))
<1> DEFINE have == live.leaves
           new == NewLeaves(have, e)
           tree == have \o new
           L == Len(have)
           N == Len(e.notes)
<1>1. /\ have \in Seq(Notes) /\ L \in Nat /\ leaves \in Seq(Notes) /\ Len(leaves) \in Nat
      /\ e \in Events /\ e.notes \in Seq(Notes) /\ N \in Nat /\ e.base \in Nat
      /\ End(pass.next) = e.base + N /\ e.base + N <= Len(leaves)
      /\ pass.next \in Nat
  <2>1. have \in Seq(Notes) /\ L \in Nat
    BY DEF IInv, TypeOK, Trees
  <2>2. leaves \in Seq(Notes) /\ Len(leaves) \in Nat
    BY Typed
  <2>3. e \in Events /\ e.notes \in Seq(Notes) /\ N \in Nat /\ e.base \in Nat /\ pass.next \in Nat
    BY Typed
  <2>4. End(pass.next) = e.base + N
    BY DEF End
  <2>5. End(pass.next) <= Len(leaves)
    BY Typed
  <2> QED
    BY <2>1, <2>2, <2>3, <2>4, <2>5
<1>2. /\ L <= Len(leaves) /\ \A i \in 1 .. L : have[i] = leaves[i]
  BY DEF IInv, Positions, TreeIsPrefix, IsPrefixOf
<1>3. e.base <= L
  <2>1. CASE pass.next = 1
    BY <1>1, <2>1 DEF IInv, Laid
  <2>2. CASE pass.next # 1
    <3>1. pass.next - 1 \in Ledgers /\ pass.next - 1 < pass.next
      BY <1>1, <2>2, Typed DEF Ledgers
    <3>2. e.base = End(pass.next - 1)
      BY <2>2 DEF IInv, Laid
    <3> QED
      BY <3>1, <3>2 DEF IInv, Positions, Covers
  <2> QED
    BY <2>1, <2>2
<1>4. \A i \in 1 .. N : leaves[e.base + i] = e.notes[i]
  BY DEF IInv, Laid
<1>5. Shape(e)
  BY DEF IInv, Built
<1> HIDE DEF L, N
<1>6. ASSUME NEW s \in Seq(Notes), NEW k \in Nat, Len(s) = k, L + k <= Len(leaves),
             \A i \in 1 .. k : s[i] = leaves[L + i]
      PROVE  /\ have \o s \in Seq(Notes) /\ Len(have \o s) = L + k
             /\ IsPrefixOf(have \o s, leaves)
  <2>1. IsPrefixOf(have, leaves)
    BY DEF IInv, Positions, TreeIsPrefix
  <2> HIDE DEF have
  <2> QED
    BY <1>1, <1>6, <2>1, PrefixGrows DEF L
<1>0. new = <<>> => /\ tree \in Seq(Notes) /\ Len(tree) = L /\ IsPrefixOf(tree, leaves)
                    /\ Elements(new) = {}
  <2>1. have \o <<>> = have
    BY <1>1, ConcatEmptySeq
  <2> QED
    BY <1>1, <1>2, <2>1 DEF IsPrefixOf, Elements, L
<1>7. CASE Indexed(e)
  <2>1. new = SubSeq(e.notes, L - e.base + 1, N)
    BY <1>7 DEF NewLeaves, L, N
  <2>2. CASE L < e.base + N
    <3> DEFINE k == e.base + N - L
    <3>1. /\ new \in Seq(Notes) /\ Len(new) = k /\ k \in Nat
          /\ \A i \in 1 .. k : new[i] = e.notes[L - e.base + i]
      <4> DEFINE d == L - e.base
      <4>1. d \in Nat /\ d < N /\ N - d = k /\ k \in Nat
        <5>1. \A b, x, y \in Nat : b <= x /\ x < b + y =>
                /\ x - b \in Nat /\ x - b < y /\ y - (x - b) = b + y - x /\ b + y - x \in Nat
          OBVIOUS
        <5>2. e.base \in Nat /\ L \in Nat /\ N \in Nat
          BY <1>1
        <5> QED
          BY <1>3, <2>2, <5>1, <5>2
      <4>2. new = SubSeq(e.notes, d + 1, Len(e.notes))
        BY <2>1 DEF N
      <4>3. e.notes \in Seq(Notes) /\ N = Len(e.notes)
        BY <1>1 DEF N
      <4> HIDE DEF d, k, new
      <4>4. /\ new \in Seq(Notes) /\ Len(new) = k
            /\ \A i \in 1 .. k : new[i] = e.notes[d + i]
        BY <4>1, <4>2, <4>3, RestOf
      <4> QED
        BY <4>1, <4>4 DEF d
    <3>2. \A i \in 1 .. k : L - e.base + i \in 1 .. N /\ e.base + (L - e.base + i) = L + i
      <4>1. \A b, l, n, i \in Nat : b <= l /\ 1 <= i /\ i <= b + n - l =>
              l - b + i \in 1 .. n /\ b + (l - b + i) = l + i
        OBVIOUS
      <4>2. e.base \in Nat /\ L \in Nat /\ N \in Nat
        BY <1>1
      <4>3. k \in Nat /\ k = e.base + N - L
        BY <3>1
      <4>4. \A i \in 1 .. k : i \in Nat /\ 1 <= i /\ i <= e.base + N - L
        BY <4>3
      <4> QED
        BY <1>3, <4>1, <4>2, <4>4
    <3>3. \A i \in 1 .. k : new[i] = leaves[L + i]
      BY <1>4, <3>1, <3>2
    <3>4. L + k = e.base + N
      BY <1>1
    <3> HIDE DEF k, new
    <3>5. /\ tree \in Seq(Notes) /\ Len(tree) = e.base + N /\ IsPrefixOf(tree, leaves)
      BY <1>1, <1>6, <3>1, <3>3, <3>4
    <3> QED
      BY <1>1, <1>7, <2>2, <3>5 DEF new, L
  <2>3. CASE L >= e.base + N
    <3>1. new = <<>>
      <4>1. L - e.base + 1 \in Int /\ N \in Int /\ N < L - e.base + 1
        BY <1>1, <1>3, <2>3
      <4> HIDE DEF new
      <4> QED
        BY <2>1, <4>1, SubSeqEmpty
    <3>2. tree \in Seq(Notes) /\ Len(tree) = L /\ IsPrefixOf(tree, leaves)
      BY <1>0, <3>1
    <3> QED
      BY <1>1, <1>7, <2>3, <3>2 DEF L
  <2>4. L < e.base + N \/ L >= e.base + N
    BY <1>1
  <2> HIDE DEF have, new, tree
  <2> QED
    BY <2>2, <2>3, <2>4 DEF have, new, tree
<1>8. CASE ~ Indexed(e) /\ Elements(e.notes) \subseteq Elements(have)
  <2>1. new = <<>>
    BY <1>8 DEF NewLeaves
  <2>2. tree \in Seq(Notes) /\ Len(tree) = L /\ IsPrefixOf(tree, leaves) /\ Elements(new) = {}
    BY <1>0, <2>1
  <2>3. e.base + N <= L
    <3>1. CASE N = 0
      BY <1>1, <1>3, <3>1
    <3>2. CASE N = 1
      <4>1. e.notes[1] \in Elements(have) /\ e.notes[1].kind # "deposit"
        BY <1>5, <1>8, <3>2 DEF Shape, Indexed, Elements, N
      <4>2. PICK j \in 1 .. L : have[j] = e.notes[1]
        BY <4>1 DEF Elements, L
      <4>3. leaves[e.base + 1] = e.notes[1] /\ leaves[j] = e.notes[1]
        BY <1>2, <1>4, <3>2, <4>2
      <4>4. j \in 1 .. Len(leaves) /\ e.base + 1 \in 1 .. Len(leaves)
        BY <1>1, <1>2, <3>2
      <4>5. j = e.base + 1
        BY <4>1, <4>3, <4>4 DEF IInv, Laid
      <4> QED
        BY <3>2, <4>5
    <3>3. N <= 1
      BY <1>5, <1>8 DEF Shape, N
    <3> QED
      BY <1>1, <3>1, <3>2, <3>3
  <2> QED
    BY <1>1, <2>2, <2>3 DEF L
<1>9. CASE ~ Indexed(e) /\ ~ (Elements(e.notes) \subseteq Elements(have))
  <2>1. new = e.notes
    BY <1>9 DEF NewLeaves
  <2>2. N = 1 /\ e.notes[1] \notin Elements(have)
    <3>1. N <= 1
      BY <1>5, <1>9 DEF Shape, N
    <3>2. PICK i \in 1 .. N : e.notes[i] \notin Elements(have)
      BY <1>9 DEF Elements, N
    <3>3. N = 1 /\ i = 1
      BY <1>1, <3>1, <3>2
    <3> QED
      BY <3>2, <3>3
  <2>3. L = e.base
    <3>1. leaves[e.base + 1] = e.notes[1]
      BY <1>4, <2>2
    <3>2. \A i \in 1 .. L : have[i] # e.notes[1]
      BY <2>2 DEF Elements, L
    <3>3. e.base + 1 \notin 1 .. L
      BY <1>2, <3>1, <3>2
    <3>4. \A b, n \in Nat : b <= n /\ b + 1 \notin 1 .. n => n = b
      OBVIOUS
    <3>5. e.base \in Nat /\ L \in Nat
      BY <1>1
    <3> QED
      BY <1>3, <3>3, <3>4, <3>5
  <2>4. /\ tree \in Seq(Notes) /\ Len(tree) = L + N /\ IsPrefixOf(tree, leaves)
    <3>1. new \in Seq(Notes) /\ Len(new) = N
      BY <1>1, <2>1 DEF N
    <3>2. L + N <= Len(leaves)
      BY <1>1, <2>3
    <3>3. \A i \in 1 .. N : new[i] = leaves[L + i]
      BY <1>4, <2>1, <2>3
    <3>4. N \in Nat
      BY <1>1
    <3> HIDE DEF new, have
    <3> QED
      BY <1>6, <3>1, <3>2, <3>3, <3>4
  <2>5. \A n \in Elements(new) : At(n, L)
    BY <1>1, <1>4, <2>1, <2>2, <2>3 DEF Elements, At, N
  <2> QED
    BY <1>1, <2>3, <2>4, <2>5 DEF L
<1> QED
  BY <1>7, <1>8, <1>9

\* What is recognised is there; payments always are recognised, and of deposits
\* the one with the next salt.
LEMMA Recognising ==
    ASSUME IInv, NEW l \in Ledgers, NEW e, e = chain[l]
    PROVE  /\ Recognised(e) \subseteq Notes \X Nat
           /\ \A f \in Recognised(e) : At(f[1], f[2])
           /\ \A n \in Elements(e.notes) : n.kind = "output" => n \in NotesOf(Recognised(e))
           /\ CountAfter(e) \in {live.count, live.count + 1}
           /\ Dep(live.count) \in Elements(e.notes) =>
                CountAfter(e) = live.count + 1
           /\ CountAfter(e) = live.count + 1 =>
                /\ Dep(live.count) \in Elements(e.notes)
                /\ Dep(live.count) \in NotesOf(Recognised(e))
<1>1. /\ e \in Events /\ e.base \in Nat /\ e.notes \in Seq(Notes) /\ Len(e.notes) \in Nat
      /\ e.base + Len(e.notes) <= Len(leaves) /\ Len(leaves) \in Nat
      /\ live.count \in Nat
  <2>1. live.count \in Nat
    BY BoundsAssumption DEF IInv, TypeOK, Ids
  <2>2. e \in Events /\ e.base \in Nat /\ e.notes \in Seq(Notes) /\ Len(e.notes) \in Nat
    BY Typed
  <2>3. e.base + Len(e.notes) <= Len(leaves) /\ Len(leaves) \in Nat
    BY Typed DEF End
  <2> QED
    BY <2>1, <2>2, <2>3
<1>2. Shape(e) /\ \A i \in 1 .. Len(e.notes) : leaves[e.base + i] = e.notes[i]
  BY DEF IInv, Built, Laid
<1> DEFINE Mine(j) == CASE e.type = "deposit" -> e.notes[j] = Dep(live.count)
                        [] e.type \in {"transfer", "order_matched"} -> e.notes[j].kind = "output"
                        [] OTHER -> FALSE
<1>3. \A f : f \in Recognised(e) <=>
        \E i \in 1 .. Len(e.notes) : Mine(i) /\ f = <<e.notes[i], e.base + i - 1>>
  BY DEF Recognised
<1>4. \A i \in 1 .. Len(e.notes) : /\ e.notes[i] \in Notes /\ e.base + i - 1 \in Nat
                                 /\ e.base + i - 1 + 1 = e.base + i /\ e.base + i - 1 < Len(leaves)
  BY <1>1
<1>5. /\ e.type = "deposit" => \A i : Mine(i) <=> e.notes[i] = Dep(live.count)
      /\ e.type \in {"transfer", "order_matched"} => \A i : Mine(i) <=> e.notes[i].kind = "output"
      /\ ~ (e.type \in {"deposit", "transfer", "order_matched"}) => \A i : ~ Mine(i)
  OBVIOUS
<1> HIDE DEF Mine
<1>6. ASSUME NEW f \in Recognised(e)
      PROVE  f \in Notes \X Nat /\ At(f[1], f[2])
  <2>1. PICK i \in 1 .. Len(e.notes) : f = <<e.notes[i], e.base + i - 1>>
    BY <1>3
  <2> QED
    BY <1>2, <1>4, <2>1 DEF At
<1>7. ASSUME NEW n \in Elements(e.notes), n.kind = "output"
      PROVE  n \in NotesOf(Recognised(e))
  <2>1. PICK i \in 1 .. Len(e.notes) : e.notes[i] = n
    BY DEF Elements
  <2>2. Mine(i)
    BY <1>2, <1>5, <1>7, <2>1 DEF Shape
  <2>3. <<n, e.base + i - 1>> \in Recognised(e)
    BY <1>3, <2>1, <2>2
  <2> QED
    BY <2>3 DEF NotesOf
<1>8. CASE e.type = "deposit" /\ e.notes[1] = Dep(live.count)
  <2>1. Len(e.notes) = 1
    BY <1>2, <1>8 DEF Shape
  <2>2. Recognised(e) = {<<e.notes[1], e.base>>}
    <3>1. \A f : f \in Recognised(e) <=> f = <<e.notes[1], e.base>>
      <4>1. 1 .. Len(e.notes) = {1} /\ e.base + 1 - 1 = e.base
        BY <1>1, <2>1
      <4> QED
        BY <1>3, <1>5, <1>8, <4>1
    <3> QED
      BY <3>1
  <2>3. CountAfter(e) = live.count + 1
    BY <1>8, <2>2, FS_Singleton DEF CountAfter
  <2>4. Dep(live.count) \in Elements(e.notes)
    BY <1>8, <2>1 DEF Elements
  <2>5. Dep(live.count) \in NotesOf(Recognised(e))
    BY <1>8, <2>2 DEF NotesOf
  <2> QED
    BY <1>6, <1>7, <2>3, <2>4, <2>5
<1>9. CASE ~ (e.type = "deposit" /\ e.notes[1] = Dep(live.count))
  <2>1. Dep(live.count) \notin Elements(e.notes)
    BY <1>2, <1>9 DEF Shape, Elements, Dep
  <2>2. CountAfter(e) = live.count
    <3>1. CASE e.type = "deposit"
      <4>1. Recognised(e) = {}
        BY <1>3, <1>5, <2>1, <3>1 DEF Elements
      <4> QED
        BY <1>1, <3>1, <4>1, FS_EmptySet DEF CountAfter
    <3>2. CASE e.type # "deposit"
      BY <3>2 DEF CountAfter
    <3> QED
      BY <3>1, <3>2
  <2> QED
    BY <1>1, <1>6, <1>7, <2>1, <2>2
<1> QED
  BY <1>8, <1>9

LEMMA ApplyEventKeeps ==
    ASSUME IInv, applyEvent
    PROVE  IInv'
<1>1. PICK e : e = chain[pass.next]
  OBVIOUS
<1> DEFINE mine == Recognised(e)
           watch == live.watch \cup NotesOf(mine)
           spent == watch \cap Published(e)
           new == NewLeaves(live.leaves, e)
           tree == live.leaves \o new
<1>2. /\ UNCHANGED <<chain, leaves, mempool, fresh, op, known, marked, disk, reloads, errors>>
      /\ Reading /\ pass.next \in Ledgers
      /\ live' = [live EXCEPT !.leaves = tree, !.count = CountAfter(e), !.watch = watch \ spent]
      /\ pass' = [pass EXCEPT !.next = pass.next + 1, !.found = pass.found \cup mine,
                              !.spent = pass.spent \cup spent]
      /\ leafIndex' = BackFill(e)
      /\ orders' = orders \cup IF e.type = "order_matched" THEN e.opens ELSE {}
      /\ open' = OpenAfter(e)
  BY <1>1 DEF applyEvent, network, counters, Reading
<1>3. /\ pass.next \in Nat /\ fresh \in Nat /\ Len(chain) \in Nat /\ Len(leaves) \in Nat
      /\ e \in Events /\ Shape(e)
      /\ live.cursor \in Nat /\ disk.cursor \in Nat /\ pass.latest \in Nat
      /\ live.count \in Nat /\ live.count <= fresh /\ Len(live.leaves) \in Nat
  <2>1. live.cursor \in Nat /\ disk.cursor \in Nat /\ pass.latest \in Nat /\ pass.next \in Nat
    BY DEF IInv, TypeOK
  <2>2. fresh \in Nat /\ Len(chain) \in Nat /\ Len(leaves) \in Nat /\ e \in Events
    BY <1>1, <1>2, Typed
  <2>3. live.count \in Nat /\ live.count <= fresh
    BY BoundsAssumption DEF IInv, TypeOK, Counted, Ids
  <2>4. Shape(e)
    BY <1>1, <1>2 DEF IInv, Built
  <2>5. Len(live.leaves) \in Nat
    BY DEF IInv, TypeOK, Trees
  <2> QED
    BY <2>1, <2>2, <2>3, <2>4, <2>5
<1>4. /\ tree \in Seq(Notes) /\ Len(live.leaves) <= Len(tree) /\ Len(tree) \in Nat
      /\ IsPrefixOf(tree, leaves) /\ End(pass.next) <= Len(tree)
      /\ ~ Indexed(e) => \A n \in Elements(new) : At(n, Len(live.leaves))
  <2>1. Reading /\ pass.next \in Ledgers
    BY <1>2
  <2>2. /\ tree \in Seq(Notes) /\ Len(live.leaves) <= Len(tree)
        /\ IsPrefixOf(tree, leaves) /\ End(pass.next) <= Len(tree)
        /\ ~ Indexed(e) => \A n \in Elements(new) : At(n, Len(live.leaves))
    BY <1>1, <2>1, Extended
  <2> HIDE DEF tree
  <2> QED
    BY <2>2
<1>5. /\ mine \subseteq Notes \X Nat
      /\ \A f \in mine : At(f[1], f[2])
      /\ \A n \in Elements(e.notes) : n.kind = "output" => n \in NotesOf(mine)
      /\ CountAfter(e) \in {live.count, live.count + 1}
      /\ Dep(live.count) \in Elements(e.notes) => CountAfter(e) = live.count + 1
      /\ CountAfter(e) = live.count + 1 =>
           Dep(live.count) \in Elements(e.notes) /\ Dep(live.count) \in NotesOf(mine)
  BY <1>1, <1>2, Recognising
<1>6. /\ NotesOf(mine) \subseteq Notes
      /\ NotesOf(pass.found \cup mine) = NotesOf(pass.found) \cup NotesOf(mine)
  BY <1>5 DEF NotesOf
<1>7. /\ Published(e) \subseteq e.burns /\ e.burns \subseteq Notes /\ e.burns \subseteq Burnt
  BY <1>1, <1>2, <1>3 DEF Published, Events, Burnt
<1>8. /\ Laid' /\ Ledgers' = Ledgers /\ Burnt' = Burnt /\ TransferChange' = TransferChange
      /\ \A x, k, S : Has(x, k, S)' <=> Has(x, k, S)
      /\ \A s, x : Covers(s, x)' <=> Covers(s, x)
      /\ \A n, i : At(n, i)' <=> At(n, i)
  BY <1>2, ChainStays
<1> HIDE DEF mine, watch, spent, new, tree
<1>9. /\ CountAfter(e) \in Nat /\ CountAfter(e) <= fresh
  <2>1. CASE CountAfter(e) = live.count
    BY <1>3, <2>1
  <2>2. CASE CountAfter(e) = live.count + 1
    <3>1. PICK i \in 1 .. Len(e.notes) : e.notes[i] = Dep(live.count)
      BY <1>5, <2>2 DEF Elements
    <3>2. live.count < e.id /\ e.id \in 1 .. fresh
      BY <1>3, <3>1 DEF Shape, Dep
    <3>3. \A c, f \in Nat : \A d \in 1 .. f : c < d => c + 1 \in Nat /\ c + 1 <= f
      OBVIOUS
    <3>4. live.count \in Nat /\ fresh \in Nat
      BY <1>3
    <3> QED
      BY <2>2, <3>2, <3>3, <3>4
  <2> QED
    BY <1>5, <2>1, <2>2
<1>10. /\ live'.leaves = tree /\ live'.cursor = live.cursor /\ live'.count = CountAfter(e)
       /\ pass'.pc = "read" /\ pass'.latest = pass.latest /\ pass'.next = pass.next + 1
       /\ pass'.found = pass.found \cup mine /\ pass'.spent = pass.spent \cup spent
       /\ Reading'
  BY <1>2 DEF IInv, TypeOK, Reading
<1>11. /\ orders \subseteq orders'
       /\ orders' \subseteq orders \cup e.opens
       /\ e.type # "order_matched" => orders' = orders
       /\ open' \subseteq open \cup (e.opens \ orders)
       /\ e.type = "order_matched" => open' \cap e.closes \subseteq e.opens \ orders
       /\ open' \subseteq orders'
  BY <1>2 DEF OpenAfter, IInv, TypeOK
<1>12. e.opens \subseteq Ids /\ e.opens \subseteq {e.id} /\ e.id \in 0 .. fresh
  BY <1>3 DEF Shape, Events
<1>13. TypeOK'
  <2>1. spent \subseteq Notes /\ watch \subseteq Notes
    BY <1>6, <1>7 DEF spent, watch, IInv, TypeOK
  <2>2. live' \in [leaves : Trees, cursor : Nat, count : Ids, watch : SUBSET Notes]
    <3>0. fresh \in Ids /\ MaxTx \in Nat
      BY BoundsAssumption DEF IInv, TypeOK
    <3>1. CountAfter(e) \in Ids /\ tree \in Trees
      BY <1>4, <1>9, <3>0 DEF Ids, Trees
    <3>2. watch \ spent \in SUBSET Notes
      BY <2>1
    <3>3. live \in [leaves : Trees, cursor : Nat, count : Ids, watch : SUBSET Notes]
      BY DEF IInv, TypeOK
    <3> QED
      BY <1>2, <3>1, <3>2, <3>3
  <2>3. pass' \in [pc : {"idle", "read", "leaves", "cursor"}, latest : Nat,
                   next : Nat, found : SUBSET (Notes \X Nat), spent : SUBSET Notes]
    <3>1. /\ pass.next + 1 \in Nat /\ pass.found \cup mine \in SUBSET (Notes \X Nat)
          /\ pass.spent \cup spent \in SUBSET Notes
      BY <1>3, <1>5, <2>1 DEF IInv, TypeOK
    <3>2. pass \in [pc : {"idle", "read", "leaves", "cursor"}, latest : Nat,
                    next : Nat, found : SUBSET (Notes \X Nat), spent : SUBSET Notes]
      BY DEF IInv, TypeOK
    <3> QED
      BY <1>2, <3>1, <3>2
  <2>4. leafIndex' \in [known' -> Nat \cup {None}]
    BY <1>2, <1>3 DEF BackFill, IInv, TypeOK
  <2>5. orders' \subseteq Ids
    BY <1>11, <1>12 DEF IInv, TypeOK
  <2> QED
    BY <1>2, <1>11, <2>2, <2>3, <2>4, <2>5 DEF IInv, TypeOK
<1>14. Built'
  <2>1. /\ \A x : Shape(x) => Shape(x)'
        /\ \A x : SaltsKnown(x) => SaltsKnown(x)'
    BY <1>2, <1>3, <1>11, ShapeStays, SaltsStayKnown
  <2>2. orders' \subseteq 0 .. fresh
    BY <1>11, <1>12 DEF IInv, Built
  <2>3. op # NoOp => op.opens \cap orders' = {}
    <3>1. ASSUME op # NoOp, e.type = "order_matched"
          PROVE  e.opens \cap op.opens = {}
      <4>1. op.opens \subseteq {op.id} /\ op.type # "order_matched"
        BY <3>1 DEF IInv, Built, Shape, Own
      <4>2. e.id # op.id
        BY <1>1, <1>2, <3>1, <4>1 DEF IInv, Once, SameButBase
      <4> QED
        BY <1>12, <4>1, <4>2
    <3> QED
      BY <1>11, <3>1 DEF IInv, Built
  <2> QED
    BY <1>2, <1>8, <2>1, <2>2, <2>3 DEF IInv, Built, Own
<1>15. Once'
  BY <1>2, <1>8 DEF IInv, Once, SameButBase
<1>16. Positions'
  <2>1. \A x \in Nat : Covers(live.leaves, x) => Covers(tree, x)
    BY <1>3, <1>4, Typed DEF Covers
  <2>2. Covers(tree, live.cursor)
    BY <1>3, <2>1 DEF IInv, Positions
  <2>3. Covers(tree, pass.next + 1)
    <3>1. Covers(tree, pass.next)
      BY <1>2, <1>3, <2>1 DEF IInv, Positions
    <3>2. \A l \in Ledgers : l < pass.next + 1 => l < pass.next \/ l = pass.next
      BY <1>3, Typed
    <3> QED
      BY <1>4, <3>1, <3>2 DEF Covers
  <2>4. TreeIsPrefix'
    BY <1>2, <1>4, <1>10 DEF IInv, Positions, TreeIsPrefix, IsPrefixOf
  <2>5. pass.next + 1 <= Len(chain) + 1 /\ pass.next + 1 > 0
    BY <1>2, <1>3, Typed
  <2> QED
    BY <1>2, <1>8, <1>10, <2>2, <2>3, <2>4, <2>5 DEF IInv, Positions, Reading
<1>17. \A l \in Ledgers : l < pass.next + 1 => l < pass.next \/ l = pass.next
  BY <1>3, Typed
<1>19. Stored = known \cup NotesOf(pass.found) /\ Stored' = Stored \cup NotesOf(mine)
  BY <1>2, <1>6, <1>10 DEF Stored, NotesOf
<1>20. Payments'
  <2>1. Has(pass.next + 1, "output", Stored')
    BY <1>1, <1>2, <1>5, <1>17, <1>19 DEF IInv, Payments, Has
  <2>2. (known \cup NotesOf(pass.found))' = Stored'
    BY <1>10 DEF Stored
  <2> QED
    BY <1>2, <1>8, <1>10, <2>1, <2>2 DEF IInv, Payments
<1>21. Salts'
  BY <1>2 DEF IInv, Salts
<1>22. Counted'
  <2>1. Position = pass.next /\ Position' = pass.next + 1
    BY <1>2, <1>10 DEF Position
  <2>2. ASSUME errors = 0, NEW l \in Ledgers, l < pass.next + 1,
               NEW n \in Elements(chain[l].notes), n.kind = "deposit"
        PROVE  n.id < CountAfter(e)
    <3>1. n \in Notes /\ n.id \in Nat /\ n = Dep(n.id)
      BY <2>2, Typed DEF Dep, Notes
    <3>2. CASE l < pass.next
      <4>1. n.id < live.count
        BY <2>1, <2>2, <3>2 DEF IInv, Counted
      <4> QED
        BY <1>3, <1>5, <3>1, <4>1
    <3>3. CASE l = pass.next
      <4>1. n.id <= live.count
        <5>1. SUFFICES ASSUME n.id > live.count PROVE FALSE
          BY <1>3, <3>1
        <5>0. live.count \in 0 .. n.id - 1
          BY <1>3, <3>1, <5>1
        <5>2. PICK k \in 1 .. l - 1 : Dep(live.count) \in Elements(chain[k].notes)
          BY <2>2, <5>0 DEF IInv, Laid
        <5>3. k \in Ledgers /\ k < pass.next
          BY <3>3, Typed DEF Ledgers
        <5>4. Dep(live.count).id < live.count
          BY <2>1, <2>2, <5>2, <5>3 DEF IInv, Counted, Dep
        <5> QED
          BY <1>3, <5>4 DEF Dep
      <4>2. n.id = live.count => CountAfter(e) = live.count + 1
        BY <1>1, <1>5, <2>2, <3>1, <3>3
      <4> QED
        BY <1>3, <1>5, <3>1, <4>1, <4>2
    <3> QED
      BY <1>17, <2>2, <3>2, <3>3
  <2>3. ASSUME errors = 0, NEW r \in 0 .. CountAfter(e) - 1
        PROVE  Dep(r) \in Stored'
    <3>1. r \in 0 .. live.count - 1 \/ (r = live.count /\ CountAfter(e) = live.count + 1)
      BY <1>3, <1>5
    <3> QED
      BY <1>5, <1>19, <2>3, <3>1 DEF IInv, Counted
  <2>4. errors = 0 => live.cursor <= pass.next + 1
    BY <1>3, <2>1 DEF IInv, Counted
  <2> QED
    BY <1>2, <1>8, <1>9, <1>10, <2>1, <2>2, <2>3, <2>4 DEF IInv, Counted
<1>23. Backed'
  <2>1. StoreBacked'
    BY <1>2, <1>8 DEF IInv, Backed, StoreBacked, Elements
  <2>2. ASSUME NEW n \in known, n \notin TransferChange, leafIndex'[n] # None
        PROVE  leafIndex'[n] < Len(leaves) /\ leaves[leafIndex'[n] + 1] = n
    <3>1. leafIndex'[n] = IF ~ Indexed(e) /\ n \in Elements(new) /\ leafIndex[n] = None
                          THEN Len(live.leaves) ELSE leafIndex[n]
      BY <1>2 DEF BackFill, new
    <3> QED
      BY <1>4, <2>2, <3>1 DEF IInv, Backed, IndexTrue, At
  <2>3. IndexTrue'
    BY <1>2, <1>8, <2>2 DEF IndexTrue
  <2>4. \A f \in pass'.found : At(f[1], f[2])
    BY <1>5, <1>10 DEF IInv, Backed
  <2>5. pass'.spent \subseteq Burnt
    BY <1>7, <1>10 DEF spent, IInv, Backed
  <2> QED
    BY <1>8, <2>1, <2>3, <2>4, <2>5 DEF Backed
<1>24. Matches'
  <2>1. \A k \in Ledgers : chain[k].type = "order_matched" => chain[k].closes \subseteq orders
    BY DEF IInv, Built, Shape
  <2>2. \A x : Closed(x) => Closed(x)'
    BY <1>2, <1>8, <1>11, <2>1 DEF Closed
  <2>3. \A x : x = pass.next + 1 => Closed(x)'
    <3>1. ASSUME NEW l \in Ledgers, l < pass.next + 1, chain[l].type = "order_matched"
          PROVE  chain[l].closes \cap open' = {}
      <4>1. CASE l < pass.next
        BY <1>2, <1>11, <2>1, <3>1, <4>1 DEF IInv, Matches, Closed
      <4>2. CASE l = pass.next
        BY <1>1, <1>11, <2>1, <3>1, <4>2
      <4> QED
        BY <1>17, <3>1, <4>1, <4>2
    <3> QED
      BY <1>2, <1>8, <3>1 DEF Closed
  <2> QED
    BY <1>2, <1>10, <2>2, <2>3 DEF IInv, Matches
<1> QED
  BY <1>8, <1>13, <1>14, <1>15, <1>16, <1>20, <1>21, <1>22, <1>23, <1>24 DEF IInv

-----------------------------------------------------------------------------
(* The theorems                                                            *)

LEMMA StepKeeps == IInv /\ [Next]_vars => IInv'
<1> SUFFICES ASSUME IInv, [Next]_vars PROVE IInv'
  OBVIOUS
<1>1. CASE UNCHANGED vars
  BY <1>1, GiveUpKeeps DEF vars
<1>2. CASE Chain
  <2>1. ASSUME NEW t \in mempool, apply(t) \/ expire(t)
        PROVE  IInv'
    BY <2>1, ApplyKeeps, ExpireKeeps
  <2>2. ASSUME NEW t \in OthersTx, others(t)
        PROVE  IInv'
    BY <2>2, OthersKeep
  <2> QED
    BY <1>2, <2>1, <2>2 DEF Chain
<1>3. CASE Sync
  BY <1>3, SyncIndexerKeeps, ApplyEventKeeps, GetEventsFailsKeeps, PersistKeeps, SaveLeavesKeeps,
     SaveIndexCursorKeeps, ReloadKeeps, ReconcileKeeps DEF Sync
<1>4. CASE Operation
  <2>1. CASE give_up
    BY <2>1, GiveUpKeeps DEF give_up
  <2>2. CASE \E l \in Ledgers : confirm(l)
    BY <2>2, ConfirmKeeps
  <2> QED
    BY <1>4, <2>1, <2>2, OperationsKeep DEF Operation
<1> QED
  BY <1>1, <1>2, <1>3, <1>4 DEF Next

LEMMA Always == Spec => []IInv
BY StartsWell, StepKeeps, PTL DEF Spec

\* The state keeps its types: an operation never stores an index, a cursor or
\* an order that the code could not hold.
THEOREM WalletTyped == Spec => []TypeOK
BY Always, InvariantSuffices, PTL

\* The indexer's tree (lib/indexer.ts, insertLeaf and appendLeaf) is a prefix
\* of the pool's, in memory and in the store, wherever passes fail and tabs
\* are reloaded.
THEOREM TreeAlwaysPrefix == Spec => []TreeIsPrefix
BY Always, InvariantSuffices, PTL

\* The stored cursor (indexer-service.ts, saveLeaves before saveIndexCursor)
\* never skips a leaf, so that insertLeaf never throws.
THEOREM NeverAGap == Spec => []NoGap
BY Always, InvariantSuffices, PTL

\* No payment below the stored cursor is lost, and no deposit unless a pass was
\* cut short (indexer.ts, sync: the salt counter moves before notes are stored).
THEOREM RecoveredAlways == Spec => []Recovered
BY Always, InvariantSuffices, PTL

\* Every stored note is in the pool, and every one marked spent is spent.
THEOREM StoreAlwaysBacked == Spec => []StoreBacked
BY Always, InvariantSuffices, PTL

\* A stored index is where the pool has the note, except for the guessed index
\* of a transfer's change.
THEOREM IndexAlwaysTrue == Spec => []IndexTrue
BY Always, InvariantSuffices, PTL

\* An order that was matched in a ledger that was read is not open.
THEOREM MatchedNeverOpen == Spec => []MatchedNotOpen
BY Always, InvariantSuffices, PTL
=============================================================================
