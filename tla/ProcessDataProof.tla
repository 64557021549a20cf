-------------------------- MODULE ProcessDataProof --------------------------
(***************************************************************************)
(* The process data of the board, for every sequence of remaps, every      *)
(* process data and every value of the constants that the theorems allow.  *)
(*                                                                         *)
(* What a fold computes is had from a function of the set of positions it  *)
(* has gone through: its values at 1 .. k are the running sums, bytes or   *)
(* objects (Adding, Packing, Handing), and induction on k, by the least    *)
(* counterexample, says what they are.  The maps come first: what APPD     *)
(* moves and puts is the splice that was asked for.  Then the bytes: what  *)
(* is published, held by the link layer, sent and handed up.               *)
(***************************************************************************)
EXTENDS ProcessData, FiniteSetTheorems, WellFoundedInduction, TLAPS

(* A non-empty set of natural numbers has a least element.                  *)
LEMMA Least ==
  ASSUME NEW T, T \subseteq Nat, T # {}
  PROVE  \E m \in T : \A k \in T : m <= k
<1> DEFINE R == {ss \in Nat \X Nat : ss[1] < ss[2]}
<1>1. IsWellFoundedOn(R, Nat)
  BY NatLessThanWellFounded DEF OpToRel
<1>2. \A x, y \in Nat : <<y, x>> \in R <=> y < x
  OBVIOUS
<1> HIDE DEF R
<1>3. PICK m \in T : \A k \in T : ~ (<<k, m>> \in R)
  BY <1>1, WFMin
<1>4. ASSUME NEW k \in T PROVE m <= k
  <2>1. ~ (<<k, m>> \in R)
    BY <1>3
  <2> QED BY <2>1, <1>2
<1> QED BY <1>4

(* Induction up to a number, for a set in place of a predicate.             *)
LEMMA Induct ==
  ASSUME NEW n \in Nat, NEW T, 0 \in T, \A k \in 0 .. n - 1 : k \in T => k + 1 \in T
  PROVE  0 .. n \subseteq T
<1> SUFFICES ASSUME (0 .. n) \ T # {} PROVE FALSE
  OBVIOUS
<1>1. PICK m \in (0 .. n) \ T : \A k \in (0 .. n) \ T : m <= k
  BY Least, (0 .. n) \ T \subseteq Nat
<1>2. m # 0
  BY <1>1
<1>3. m - 1 \in 0 .. n - 1 /\ m - 1 \in T
  BY <1>1, <1>2
<1> QED BY <1>1, <1>3

(* A non-empty set of numbers up to n has a greatest element.               *)
LEMMA Greatest ==
  ASSUME NEW n \in Nat, NEW s \in SUBSET (1 .. n), s # {}
  PROVE  Max(s) \in s /\ \A k \in s : k <= Max(s)
<1>0. \A k \in s : k \in 1 .. n /\ k \in Int
  OBVIOUS
<1> DEFINE T == {n - k : k \in s}
<1>1. T \subseteq Nat /\ T # {}
  <2>1. \A k \in s : n - k \in Nat
    BY <1>0
  <2>2. PICK k \in s : TRUE
    OBVIOUS
  <2>3. n - k \in T
    BY <2>2
  <2> QED BY <2>1, <2>3
<1>2. PICK d \in T : \A e \in T : d <= e
  BY <1>1, Least
<1>3. n - d \in s /\ \A k \in s : n - d >= k
  <2>1. PICK j \in s : d = n - j
    BY <1>2
  <2>2. ASSUME NEW k \in s PROVE j >= k
    <3>1. n - j <= n - k
      BY <2>1, <1>2
    <3>2. j \in Int /\ k \in Int
      BY <1>0
    <3> QED BY <3>1, <3>2
  <2> QED BY <2>1, <2>2
<1>4. \E m \in s : \A k \in s : m >= k
  BY <1>3
<1>5. Max(s) \in s /\ \A k \in s : Max(s) >= k
  BY <1>4 DEF Max
<1> QED BY <1>5

(* The greatest of 1 .. k.                                                  *)
LEMMA MaxOfInterval ==
  ASSUME NEW n \in Nat, NEW k \in 1 .. n
  PROVE  Max(1 .. k) = k /\ (1 .. k) \ {k} = 1 .. k - 1
<1>1. Max(1 .. k) \in 1 .. k /\ \A j \in 1 .. k : j <= Max(1 .. k)
  BY Greatest, 1 .. k \in SUBSET (1 .. n), k \in 1 .. k
<1> QED BY <1>1

(* A fold over the numbers up to n exists: there is a function on the sets  *)
(* of numbers that takes the greatest element of each of them last.  F[k]   *)
(* is what the k-th step does with a value of A.                            *)
FoldOf(it, n, A, base, F) ==
  /\ it \in [SUBSET (1 .. n) -> A]
  /\ \A s \in SUBSET (1 .. n) : it[s] = IF s = {} THEN base ELSE F[Max(s)][it[s \ {Max(s)}]]

(* Such a function exists, for every n.                                     *)
LEMMA FoldExists ==
  ASSUME NEW n \in Nat, NEW A, NEW base \in A, NEW F \in [1 .. n -> [A -> A]]
  PROVE  \E it : FoldOf(it, n, A, base, F)
<1> DEFINE Good(m, it) == \A s \in SUBSET (1 .. m) :
                            it[s] = IF s = {} THEN base ELSE F[Max(s)][it[s \ {Max(s)}]]
           T == {m \in 0 .. n : \E it \in [SUBSET (1 .. m) -> A] : Good(m, it)}
<1>1. 0 \in T
  <2>1. SUBSET (1 .. 0) = {{}}
    OBVIOUS
  <2> DEFINE it == [s \in SUBSET (1 .. 0) |-> base]
  <2>2. it \in [SUBSET (1 .. 0) -> A] /\ Good(0, it)
    BY <2>1
  <2> HIDE DEF it, Good
  <2>3. \E g \in [SUBSET (1 .. 0) -> A] : Good(0, g)
    BY <2>2
  <2>4. 0 \in 0 .. n
    OBVIOUS
  <2> QED BY <2>3, <2>4
<1>2. ASSUME NEW m \in 0 .. n - 1, m \in T PROVE m + 1 \in T
  <2>1. PICK it \in [SUBSET (1 .. m) -> A] : Good(m, it)
    BY <1>2
  <2> DEFINE next == [s \in SUBSET (1 .. m + 1) |->
                        IF m + 1 \in s THEN F[m + 1][it[s \ {m + 1}]] ELSE it[s]]
  <2>2. \A s \in SUBSET (1 .. m + 1) : s \ {m + 1} \in SUBSET (1 .. m)
    OBVIOUS
  <2>3. \A s \in SUBSET (1 .. m + 1) : m + 1 \notin s => s \in SUBSET (1 .. m)
    OBVIOUS
  <2>4. next \in [SUBSET (1 .. m + 1) -> A]
    BY <2>2, <2>3
  <2>5. ASSUME NEW s \in SUBSET (1 .. m + 1)
        PROVE  next[s] = IF s = {} THEN base ELSE F[Max(s)][next[s \ {Max(s)}]]
    <3>1. CASE m + 1 \in s
      <4>1. Max(s) = m + 1
        <5>1. Max(s) \in s /\ \A k \in s : k <= Max(s)
          BY <3>1, Greatest, m + 1 \in Nat
        <5>2. Max(s) \in 1 .. m + 1
          BY <5>1
        <5> QED BY <5>1, <5>2, <3>1
      <4>2. next[s \ {m + 1}] = it[s \ {m + 1}]
        BY <2>2, s \ {m + 1} \in SUBSET (1 .. m + 1)
      <4> QED BY <3>1, <4>1, <4>2
    <3>2. CASE m + 1 \notin s /\ s # {}
      <4>1. s \in SUBSET (1 .. m) /\ next[s] = it[s]
        BY <3>2, <2>3
      <4>2. it[s] = F[Max(s)][it[s \ {Max(s)}]]
        BY <4>1, <3>2, <2>1
      <4>3. next[s \ {Max(s)}] = it[s \ {Max(s)}]
        BY <3>2
      <4> QED BY <4>1, <4>2, <4>3, <3>2
    <3>3. CASE s = {}
      BY <3>3, <2>1, s \in SUBSET (1 .. m)
    <3> QED BY <3>1, <3>2, <3>3
  <2> HIDE DEF next
  <2>6. Good(m + 1, next)
    BY <2>5
  <2> HIDE DEF Good
  <2>7. m + 1 \in 0 .. n
    OBVIOUS
  <2> QED BY <2>4, <2>6, <2>7
<1> HIDE DEF T
<1>3. n \in T
  <2>1. 0 .. n \subseteq T
    BY <1>1, <1>2, Induct
  <2> QED BY <2>1
<1>4. PICK it \in [SUBSET (1 .. n) -> A] : Good(n, it)
  BY <1>3 DEF T
<1>5. FoldOf(it, n, A, base, F)
  BY <1>4 DEF FoldOf
<1> QED BY <1>5

(* The values a fold goes through: h[k] is the one after the first k steps. *)
Run(h, n, A, base, F) ==
  /\ h \in [0 .. n -> A]
  /\ h[0] = base
  /\ \A k \in 1 .. n : h[k] = F[k][h[k - 1]]

(* A function on sets of numbers that takes the greatest of them last, as   *)
(* far as it stays in A, goes through such values.                          *)
Follows(it, n, A, base, F) ==
  /\ it[{}] = base
  /\ \A s \in SUBSET (1 .. n) :
       s # {} /\ it[s \ {Max(s)}] \in A => it[s] = F[Max(s)][it[s \ {Max(s)}]]

Whole(it, n) == it[1 .. n]

(* It ends with the last of them.                                           *)
LEMMA RunOf ==
  ASSUME NEW n \in Nat, NEW A, NEW base \in A, NEW F \in [1 .. n -> [A -> A]],
         NEW it, Follows(it, n, A, base, F)
  PROVE  \E h : Run(h, n, A, base, F) /\ h[n] = Whole(it, n)
<1> DEFINE T == {k \in 0 .. n : it[1 .. k] \in A}
           h == [k \in 0 .. n |-> it[1 .. k]]
<1>1. ASSUME NEW k \in 1 .. n, it[1 .. k - 1] \in A
      PROVE  it[1 .. k] = F[k][it[1 .. k - 1]] /\ it[1 .. k] \in A
  <2>1. Max(1 .. k) = k /\ (1 .. k) \ {k} = 1 .. k - 1
    BY MaxOfInterval
  <2>2. 1 .. k \in SUBSET (1 .. n) /\ 1 \in 1 .. k
    OBVIOUS
  <2>3. it[1 .. k] = F[k][it[1 .. k - 1]]
    BY <1>1, <2>1, <2>2 DEF Follows
  <2> QED BY <1>1, <2>3
<1>2. it[1 .. 0] = base
  BY 1 .. 0 = {} DEF Follows
<1>3. 0 .. n \subseteq T
  <2>1. 0 \in T
    BY <1>2
  <2>2. ASSUME NEW k \in 0 .. n - 1, k \in T PROVE k + 1 \in T
    <3>1. k + 1 \in 1 .. n /\ k + 1 - 1 = k /\ k + 1 \in 0 .. n
      OBVIOUS
    <3> QED BY <1>1, <2>2, <3>1
  <2> HIDE DEF T
  <2> QED BY <2>1, <2>2, Induct
<1>4. h \in [0 .. n -> A]
  BY <1>3
<1>5. ASSUME NEW k \in 1 .. n PROVE h[k] = F[k][h[k - 1]]
  <2>1. k \in 0 .. n /\ k - 1 \in 0 .. n
    OBVIOUS
  <2>2. it[1 .. k - 1] \in A
    BY <1>3, <2>1
  <2> QED BY <1>1, <2>1, <2>2
<1>6. h[0] = base /\ h[n] = Whole(it, n)
  BY <1>2 DEF Whole
<1> HIDE DEF h
<1>7. Run(h, n, A, base, F)
  BY <1>4, <1>5, <1>6 DEF Run
<1> QED BY <1>6, <1>7

-----------------------------------------------------------------------------
(* The objects.                                                             *)
Mappable == [adi : Adi, elements : 0 .. 1]
Values   == [Adi -> Int]

(* Objects have one byte or two, and ranges are ranges of numbers.          *)
LEMMA Instances ==
  /\ Adi = 1 .. 5
  /\ \A adi \in Adi : /\ Size(adi) \in 1 .. 2
                      /\ appd_asInstance[adi].min \in Int /\ appd_asInstance[adi].max \in Int
                      /\ appd_asInstance[adi].set \in BOOLEAN
<1>1. Adi = 1 .. 5
  BY DEF Adi, appd_asInstance
<1>2. ASSUME NEW adi \in Adi
      PROVE  /\ Size(adi) \in 1 .. 2
             /\ appd_asInstance[adi].min \in Int /\ appd_asInstance[adi].max \in Int
             /\ appd_asInstance[adi].set \in BOOLEAN
  <2>1. CASE adi = 1
    <3>1. appd_asInstance[1] = [size |-> 2, set |-> FALSE, min |-> 65036, max |-> 500]
      BY DEF appd_asInstance
    <3> QED BY <2>1, <3>1 DEF Size
  <2>2. CASE adi = 2
    <3>1. appd_asInstance[2] = [size |-> 2, set |-> FALSE, min |-> -40, max |-> 125]
      BY DEF appd_asInstance
    <3> QED BY <2>2, <3>1 DEF Size
  <2>3. CASE adi = 3
    <3>1. appd_asInstance[3] = [size |-> 2, set |-> TRUE, min |-> 0, max |-> 500]
      BY DEF appd_asInstance
    <3> QED BY <2>3, <3>1 DEF Size
  <2>4. CASE adi = 4
    <3>1. appd_asInstance[4] = [size |-> 1, set |-> TRUE, min |-> 0, max |-> 1]
      BY DEF appd_asInstance
    <3> QED BY <2>4, <3>1 DEF Size
  <2>5. CASE adi = 5
    <3>1. appd_asInstance[5] = [size |-> 1, set |-> TRUE, min |-> 0, max |-> 6]
      BY DEF appd_asInstance
    <3> QED BY <2>5, <3>1 DEF Size
  <2> QED BY <1>1, <2>1, <2>2, <2>3, <2>4, <2>5
<1> QED BY <1>1, <1>2

(* An item has the bytes of its object, or none.                            *)
LEMMA ItemSizes ==
  ASSUME NEW item \in Mappable
  PROVE  /\ ItemSize(item) \in 0 .. 2
         /\ item.elements # 0 => ItemSize(item) = Size(item.adi)
         /\ item.elements = 0 => ItemSize(item) = 0
<1>1. item.adi \in Adi /\ item.elements \in {0, 1}
  BY DEF Mappable
<1>2. Size(item.adi) \in 1 .. 2
  BY <1>1, Instances
<1> QED BY <1>1, <1>2 DEF ItemSize

(* A value is encoded in the bytes of its object.                           *)
LEMMA EncodedType ==
  ASSUME NEW adi \in Adi, NEW v \in Int
  PROVE  Encoded(adi, v) \in Seq(Int) /\ Len(Encoded(adi, v)) = Size(adi)
<1>1. Size(adi) \in {1, 2}
  BY Instances
<1>2. v % 256 \in Int /\ (v % 65536) \div 256 \in Int
  BY SMT
<1> DEFINE a == v % 256
           b == (v % 65536) \div 256
<1>3. a \in Int /\ b \in Int
  BY <1>2
<1>4. /\ Size(adi) = 2 => Encoded(adi, v) = <<b, a>>
      /\ Size(adi) # 2 => Encoded(adi, v) = <<v>>
  BY SMT DEF Encoded
<1> HIDE DEF a, b
<1>5. <<b, a>> \in Seq(Int) /\ Len(<<b, a>>) = 2 /\ <<v>> \in Seq(Int) /\ Len(<<v>>) = 1
  BY <1>3
<1> QED BY <1>1, <1>4, <1>5

(* Bytes that are numbers decode to a number.                               *)
LEMMA DecodedType ==
  ASSUME NEW buffer, NEW o \in Nat, NEW adi \in Adi,
         \A i \in 1 .. Size(adi) : buffer[o + i] \in Int
  PROVE  Decoded(buffer, o, adi) \in Int
<1>1. Size(adi) \in {1, 2}
  BY Instances
<1>2. appd_asInstance[adi].min \in Int
  BY Instances
<1>3. CASE Size(adi) = 2
  <2> DEFINE n == 256 * buffer[o + 1] + buffer[o + 2]
  <2>1. n \in Int
    BY <1>3
  <2>2. Decoded(buffer, o, adi) = Signed(adi, n)
    BY <1>3 DEF Decoded
  <2> HIDE DEF n
  <2>3. Signed(adi, n) \in Int
    BY <1>2, <2>1 DEF Signed
  <2> QED BY <2>2, <2>3
<1>4. CASE Size(adi) = 1
  BY <1>4 DEF Decoded
<1> QED BY <1>1, <1>3, <1>4

(* Only the bytes of the object matter.                                     *)
LEMMA DecodedSame ==
  ASSUME NEW a, NEW b, NEW o \in Nat, NEW adi \in Adi,
         \A i \in 1 .. Size(adi) : a[o + i] = b[o + i]
  PROVE  Decoded(a, o, adi) = Decoded(b, o, adi)
<1>1. Size(adi) \in {1, 2}
  BY Instances
<1>2. CASE Size(adi) = 2
  <2>1. a[o + 1] = b[o + 1] /\ a[o + 2] = b[o + 2]
    BY <1>2
  <2> QED BY <1>2, <2>1 DEF Decoded
<1>3. CASE Size(adi) = 1
  <2>1. a[o + 1] = b[o + 1]
    BY <1>3
  <2> QED BY <1>3, <2>1 DEF Decoded
<1> QED BY <1>1, <1>2, <1>3

(* appd_UpdateAdiVal changes one object, to a value in its range.           *)
LEMMA Updated ==
  ASSUME NEW val \in Values, NEW adi \in Adi, NEW v \in Int
  PROVE  /\ appd_UpdateAdiVal(val, adi, v) \in Values
         /\ \A x \in Adi : appd_UpdateAdiVal(val, adi, v)[x] =
                             IF x = adi /\ InRange(adi, v) THEN v ELSE val[x]
BY DEF appd_UpdateAdiVal, Values

-----------------------------------------------------------------------------
(* The bytes of a layout, item by item: h[k] is the sum of the first k.     *)
Adding(h, q) ==
  /\ h \in [0 .. Len(q) -> Nat]
  /\ h[0] = 0
  /\ \A k \in 1 .. Len(q) : h[k] = h[k - 1] + ItemSize(q[k])
  /\ h[Len(q)] = Bytes(q)

(* Bytes goes through such sums.                                            *)
LEMMA AddingExists ==
  ASSUME NEW q \in Seq(Mappable)
  PROVE  \E h : Adding(h, q)
<1> DEFINE n == Len(q)
           F == [k \in 1 .. n |-> [v \in Nat |-> v + ItemSize(q[k])]]
           Iter(it) == it = [s \in SUBSET (1 .. n) |->
                               IF s = {} THEN 0
                               ELSE LET x == Max(s) IN it[s \ {x}] + ItemSize(q[x])]
           it == CHOOSE it : Iter(it)
<1>1. n \in Nat /\ DOMAIN q = 1 .. n /\ \A k \in 1 .. n : q[k] \in Mappable
  OBVIOUS
<1>2. 0 \in Nat /\ \A v \in Nat, x \in Mappable : v + ItemSize(x) \in Nat
  BY ItemSizes
<1>3. F \in [1 .. n -> [Nat -> Nat]]
  BY <1>1, <1>2
<1>4. Bytes(q) = Whole(it, n)
  BY <1>1 DEF Whole, Bytes, FoldLeft, MapThenFoldSet
<1> HIDE DEF n
<1>5. \E g : Iter(g)
  <2> HIDE DEF F
  <2>0. PICK g : FoldOf(g, n, Nat, 0, F)
    BY <1>1, <1>2, <1>3, FoldExists
  <2>1. /\ g \in [SUBSET (1 .. n) -> Nat]
        /\ \A s \in SUBSET (1 .. n) :
             g[s] = IF s = {} THEN 0 ELSE F[Max(s)][g[s \ {Max(s)}]]
    BY <2>0 DEF FoldOf
  <2>2. ASSUME NEW s \in SUBSET (1 .. n), s # {}
        PROVE  g[s] = g[s \ {Max(s)}] + ItemSize(q[Max(s)])
    <3>1. Max(s) \in 1 .. n /\ s \ {Max(s)} \in SUBSET (1 .. n)
      BY <1>1, <2>2, Greatest
    <3>2. g[s \ {Max(s)}] \in Nat
      BY <2>1, <3>1
    <3>3. F[Max(s)][g[s \ {Max(s)}]] = g[s \ {Max(s)}] + ItemSize(q[Max(s)])
      BY <3>1, <3>2 DEF F
    <3> QED BY <2>1, <2>2, <3>3
  <2>3. g[{}] = 0
    BY <2>1
  <2>4. g = [s \in SUBSET (1 .. n) |-> g[s]]
    BY <2>1
  <2>5. Iter(g)
    BY <2>2, <2>3, <2>4
  <2> HIDE DEF Iter
  <2> QED BY <2>5
<1>6. Iter(it)
  <2> HIDE DEF Iter
  <2> QED BY <1>5
<1> HIDE DEF it
<1>7. it[{}] = 0
  BY <1>6
<1>8. ASSUME NEW s \in SUBSET (1 .. n), s # {}, it[s \ {Max(s)}] \in Nat
      PROVE  it[s] = F[Max(s)][it[s \ {Max(s)}]]
  <2>1. Max(s) \in 1 .. n
    BY <1>1, <1>8, Greatest
  <2>2. it[s] = it[s \ {Max(s)}] + ItemSize(q[Max(s)])
    BY <1>6, <1>8
  <2> QED BY <1>8, <2>1, <2>2
<1> HIDE DEF F, Iter
<1>9. PICK h : Run(h, n, Nat, 0, F) /\ h[n] = Whole(it, n)
  <2>1. Follows(it, n, Nat, 0, F)
    BY <1>7, <1>8 DEF Follows
  <2> QED BY <1>1, <1>2, <1>3, <2>1, RunOf
<1>10. /\ h \in [0 .. n -> Nat] /\ h[0] = 0
       /\ \A k \in 1 .. n : h[k] = F[k][h[k - 1]]
  BY <1>9 DEF Run
<1>11. ASSUME NEW k \in 1 .. n PROVE h[k] = h[k - 1] + ItemSize(q[k])
  <2>1. k - 1 \in 0 .. n
    BY <1>1
  <2>2. h[k - 1] \in Nat
    BY <1>10, <2>1
  <2> QED BY <1>10, <2>2 DEF F
<1>12. Adding(h, q)
  BY <1>4, <1>9, <1>10, <1>11 DEF Adding, n
<1> QED BY <1>12
(* The bytes APPD_ProcessDataChanged packs, item by item.                   *)
Pack(bytes, item, val) ==
  IF item.elements = 0 THEN bytes ELSE bytes \o Encoded(item.adi, val[item.adi])

Packing(h, q, val) ==
  /\ h \in [0 .. Len(q) -> Seq(Int)]
  /\ h[0] = <<>>
  /\ \A k \in 1 .. Len(q) : h[k] = Pack(h[k - 1], q[k], val)
  /\ h[Len(q)] = Packed(q, val)

(* An item adds its bytes.                                                  *)
LEMMA PackType ==
  ASSUME NEW val \in Values, NEW bytes \in Seq(Int), NEW item \in Mappable
  PROVE  /\ Pack(bytes, item, val) \in Seq(Int)
         /\ Len(Pack(bytes, item, val)) = Len(bytes) + ItemSize(item)
<1>1. item.adi \in Adi
  BY DEF Mappable
<1>2. val[item.adi] \in Int
  BY <1>1 DEF Values
<1>3. /\ Encoded(item.adi, val[item.adi]) \in Seq(Int)
      /\ Len(Encoded(item.adi, val[item.adi])) = Size(item.adi)
  BY <1>1, <1>2, EncodedType
<1>4. CASE item.elements = 0
  BY <1>4, ItemSizes DEF Pack
<1>5. CASE item.elements # 0
  <2> DEFINE e == Encoded(item.adi, val[item.adi])
  <2>1. Pack(bytes, item, val) = bytes \o e
    BY <1>5 DEF Pack
  <2>2. e \in Seq(Int) /\ Len(e) = ItemSize(item)
    BY <1>3, <1>5, ItemSizes
  <2>3. ItemSize(item) \in Int
    BY ItemSizes
  <2> HIDE DEF e
  <2>4. bytes \o e \in Seq(Int) /\ Len(bytes \o e) = Len(bytes) + Len(e)
    BY <2>2
  <2> QED BY <2>1, <2>2, <2>3, <2>4
<1> QED BY <1>4, <1>5

(* Packed goes through such bytes.                                          *)
LEMMA PackingExists ==
  ASSUME NEW q \in Seq(Mappable), NEW val \in Values
  PROVE  \E h : Packing(h, q, val)
<1> DEFINE n == Len(q)
           F == [k \in 1 .. n |-> [v \in Seq(Int) |-> Pack(v, q[k], val)]]
           Iter(it) == it = [s \in SUBSET (1 .. n) |->
                               IF s = {} THEN <<>>
                               ELSE LET x == Max(s) IN Pack(it[s \ {x}], q[x], val)]
           it == CHOOSE it : Iter(it)
<1>1. n \in Nat /\ DOMAIN q = 1 .. n /\ \A k \in 1 .. n : q[k] \in Mappable
  OBVIOUS
<1>2. <<>> \in Seq(Int) /\ \A v \in Seq(Int), x \in Mappable : Pack(v, x, val) \in Seq(Int)
  BY PackType
<1>3. F \in [1 .. n -> [Seq(Int) -> Seq(Int)]]
  BY <1>1, <1>2
<1>4. Packed(q, val) = Whole(it, n)
  BY <1>1 DEF Whole, Packed, Pack, FoldLeft, MapThenFoldSet
<1> HIDE DEF n
<1>5. \E g : Iter(g)
  <2> HIDE DEF F
  <2>0. PICK g : FoldOf(g, n, Seq(Int), <<>>, F)
    BY <1>1, <1>2, <1>3, FoldExists
  <2>1. /\ g \in [SUBSET (1 .. n) -> Seq(Int)]
        /\ \A s \in SUBSET (1 .. n) :
             g[s] = IF s = {} THEN <<>> ELSE F[Max(s)][g[s \ {Max(s)}]]
    BY <2>0 DEF FoldOf
  <2>2. ASSUME NEW s \in SUBSET (1 .. n), s # {}
        PROVE  g[s] = Pack(g[s \ {Max(s)}], q[Max(s)], val)
    <3>1. Max(s) \in 1 .. n /\ s \ {Max(s)} \in SUBSET (1 .. n)
      BY <1>1, <2>2, Greatest
    <3>2. g[s \ {Max(s)}] \in Seq(Int)
      BY <2>1, <3>1
    <3>3. F[Max(s)][g[s \ {Max(s)}]] = Pack(g[s \ {Max(s)}], q[Max(s)], val)
      BY <3>1, <3>2 DEF F
    <3> QED BY <2>1, <2>2, <3>3
  <2>3. g[{}] = <<>>
    BY <2>1
  <2>4. g = [s \in SUBSET (1 .. n) |-> g[s]]
    BY <2>1
  <2>5. Iter(g)
    BY <2>2, <2>3, <2>4
  <2> HIDE DEF Iter
  <2> QED BY <2>5
<1>6. Iter(it)
  <2> HIDE DEF Iter
  <2> QED BY <1>5
<1> HIDE DEF it
<1>7. it[{}] = <<>>
  BY <1>6
<1>8. ASSUME NEW s \in SUBSET (1 .. n), s # {}, it[s \ {Max(s)}] \in Seq(Int)
      PROVE  it[s] = F[Max(s)][it[s \ {Max(s)}]]
  <2>1. Max(s) \in 1 .. n
    BY <1>1, <1>8, Greatest
  <2>2. it[s] = Pack(it[s \ {Max(s)}], q[Max(s)], val)
    BY <1>6, <1>8
  <2> QED BY <1>8, <2>1, <2>2
<1> HIDE DEF F, Iter
<1>9. PICK h : Run(h, n, Seq(Int), <<>>, F) /\ h[n] = Whole(it, n)
  <2>1. Follows(it, n, Seq(Int), <<>>, F)
    BY <1>7, <1>8 DEF Follows
  <2> QED BY <1>1, <1>2, <1>3, <2>1, RunOf
<1>10. /\ h \in [0 .. n -> Seq(Int)] /\ h[0] = <<>>
       /\ \A k \in 1 .. n : h[k] = F[k][h[k - 1]]
  BY <1>9 DEF Run
<1>11. ASSUME NEW k \in 1 .. n PROVE h[k] = Pack(h[k - 1], q[k], val)
  <2>1. k - 1 \in 0 .. n
    BY <1>1
  <2>2. h[k - 1] \in Seq(Int)
    BY <1>10, <2>1
  <2> QED BY <1>10, <2>2 DEF F
<1>12. Packing(h, q, val)
  BY <1>4, <1>9, <1>10, <1>11 DEF Packing, n
<1> QED BY <1>12

-----------------------------------------------------------------------------
(* The objects after each item of the read process data: h[k] after k.      *)
Hand(val, item, buffer, o) ==
  IF item.elements = 0 THEN val
  ELSE appd_UpdateAdiVal(val, item.adi, Decoded(buffer, o, item.adi))

HandAt(val, q, k, buffer) == Hand(val, q[k], buffer, Offset(q, k))

Readable(q, buffer) ==
  \A k \in 1 .. Len(q) :
    /\ Offset(q, k) \in Nat
    /\ \A i \in 1 .. ItemSize(q[k]) : buffer[Offset(q, k) + i] \in Int

Handing(h, q, buffer) ==
  /\ h \in [0 .. Len(q) -> Values]
  /\ h[0] = value
  /\ \A k \in 1 .. Len(q) : h[k] = HandAt(h[k - 1], q, k, buffer)
  /\ h[Len(q)] = NewReadProcessData(q, buffer)

(* An item changes its object only, to what its bytes say.                  *)
LEMMA HandType ==
  ASSUME NEW q \in Seq(Mappable), NEW buffer, Readable(q, buffer), NEW val \in Values,
         NEW k \in 1 .. Len(q)
  PROVE  /\ HandAt(val, q, k, buffer) \in Values
         /\ q[k].adi \in Adi
         /\ q[k].elements # 0 => Decoded(buffer, Offset(q, k), q[k].adi) \in Int
         /\ \A x \in Adi :
              HandAt(val, q, k, buffer)[x] =
                IF /\ q[k] = Item(x)
                   /\ InRange(x, Decoded(buffer, Offset(q, k), x))
                THEN Decoded(buffer, Offset(q, k), x) ELSE val[x]
<1> DEFINE item == q[k]
           o == Offset(q, k)
           v == Decoded(buffer, o, item.adi)
<1>1. item \in Mappable
  OBVIOUS
<1>2. item.adi \in Adi /\ item.elements \in {0, 1}
      /\ item = [adi |-> item.adi, elements |-> item.elements]
  BY <1>1 DEF Mappable
<1>3. o \in Nat /\ \A i \in 1 .. ItemSize(item) : buffer[o + i] \in Int
  BY DEF Readable
<1>4. HandAt(val, q, k, buffer) = Hand(val, item, buffer, o)
  BY DEF HandAt
<1>5. v \in Int \/ item.elements = 0
  <2> SUFFICES ASSUME item.elements # 0 PROVE v \in Int
    OBVIOUS
  <2>1. ItemSize(item) = Size(item.adi)
    BY <1>1, ItemSizes
  <2> HIDE DEF item, o
  <2> QED BY <1>2, <1>3, <2>1, DecodedType
<1> HIDE DEF item, o
<1>6. CASE item.elements = 0
  <2>1. Hand(val, item, buffer, o) = val
    BY <1>6 DEF Hand
  <2>2. \A x \in Adi : item # Item(x)
    BY <1>6 DEF Item
  <2> QED BY <1>2, <1>4, <1>6, <2>1, <2>2 DEF item, o
<1>7. CASE item.elements = 1
  <2>1. Hand(val, item, buffer, o) = appd_UpdateAdiVal(val, item.adi, v)
    BY <1>7 DEF Hand
  <2>2. \A x \in Adi : item = Item(x) <=> x = item.adi
    BY <1>2, <1>7 DEF Item
  <2>3. v \in Int
    BY <1>5, <1>7
  <2>4. \A x \in Adi : item = Item(x) => v = Decoded(buffer, o, x)
    BY <2>2
  <2> HIDE DEF v
  <2>5. /\ appd_UpdateAdiVal(val, item.adi, v) \in Values
        /\ \A x \in Adi : appd_UpdateAdiVal(val, item.adi, v)[x] =
                            IF x = item.adi /\ InRange(item.adi, v) THEN v ELSE val[x]
    BY <1>2, <2>3, Updated
  <2>6. \A x \in Adi :
          appd_UpdateAdiVal(val, item.adi, v)[x] =
            IF item = Item(x) /\ InRange(x, Decoded(buffer, o, x))
            THEN Decoded(buffer, o, x) ELSE val[x]
    BY <2>2, <2>4, <2>5
  <2> QED BY <1>2, <1>4, <2>1, <2>3, <2>5, <2>6 DEF item, o, v
<1> QED BY <1>2, <1>6, <1>7

(* NewReadProcessData goes through such values.                             *)
LEMMA HandingExists ==
  ASSUME NEW q \in Seq(Mappable), NEW buffer, value \in Values, Readable(q, buffer)
  PROVE  \E h : Handing(h, q, buffer)
<1> DEFINE n == Len(q)
           d == [i \in DOMAIN q |-> i]
           F == [k \in 1 .. n |-> [v \in Values |-> HandAt(v, q, k, buffer)]]
           Iter(it) == it = [s \in SUBSET (1 .. n) |->
                               IF s = {} THEN value
                               ELSE LET x == Max(s) IN HandAt(it[s \ {x}], q, d[x], buffer)]
           it == CHOOSE it : Iter(it)
<1>1. n \in Nat /\ DOMAIN q = 1 .. n /\ \A k \in 1 .. n : q[k] \in Mappable
  OBVIOUS
<1>2. value \in Values /\ \A v \in Values, x \in 1 .. n : HandAt(v, q, x, buffer) \in Values
  BY HandType
<1>3. F \in [1 .. n -> [Values -> Values]]
  BY <1>1, <1>2
<1>12. DOMAIN d = 1 .. n /\ \A k \in 1 .. n : d[k] = k
  BY <1>1
<1>4. NewReadProcessData(q, buffer) = Whole(it, n)
  BY <1>1, <1>12 DEF Whole, NewReadProcessData, FoldLeftDomain, HandAt, Hand, FoldLeft,
                     MapThenFoldSet
<1> HIDE DEF n, d
<1>5. \E g : Iter(g)
  <2> HIDE DEF F
  <2>0. PICK g : FoldOf(g, n, Values, value, F)
    BY <1>1, <1>2, <1>3, FoldExists
  <2>1. /\ g \in [SUBSET (1 .. n) -> Values]
        /\ \A s \in SUBSET (1 .. n) :
             g[s] = IF s = {} THEN value ELSE F[Max(s)][g[s \ {Max(s)}]]
    BY <2>0 DEF FoldOf
  <2>2. ASSUME NEW s \in SUBSET (1 .. n), s # {}
        PROVE  g[s] = HandAt(g[s \ {Max(s)}], q, Max(s), buffer)
    <3>1. Max(s) \in 1 .. n /\ s \ {Max(s)} \in SUBSET (1 .. n)
      BY <1>1, <2>2, Greatest
    <3>2. g[s \ {Max(s)}] \in Values
      BY <2>1, <3>1
    <3>3. F[Max(s)][g[s \ {Max(s)}]] = HandAt(g[s \ {Max(s)}], q, Max(s), buffer)
      BY <3>1, <3>2 DEF F
    <3> QED BY <2>1, <2>2, <3>3
  <2>3. g[{}] = value
    BY <2>1
  <2>4. g = [s \in SUBSET (1 .. n) |-> g[s]]
    BY <2>1
  <2>a. ASSUME NEW s \in SUBSET (1 .. n), s # {} PROVE d[Max(s)] = Max(s)
    <3>1. Max(s) \in 1 .. n
      BY <1>1, <2>a, Greatest
    <3> QED BY <1>12, <3>1
  <2>5. Iter(g)
    BY <2>a, <2>2, <2>3, <2>4
  <2> HIDE DEF Iter
  <2> QED BY <2>5
<1>6. Iter(it)
  <2> HIDE DEF Iter
  <2> QED BY <1>5
<1> HIDE DEF it
<1>7. it[{}] = value
  BY <1>6
<1>8. ASSUME NEW s \in SUBSET (1 .. n), s # {}, it[s \ {Max(s)}] \in Values
      PROVE  it[s] = F[Max(s)][it[s \ {Max(s)}]]
  <2>1. Max(s) \in 1 .. n
    BY <1>1, <1>8, Greatest
  <2>2. it[s] = HandAt(it[s \ {Max(s)}], q, Max(s), buffer)
    BY <1>6, <1>8, <2>1, <1>12
  <2> QED BY <1>8, <2>1, <2>2
<1> HIDE DEF F, Iter
<1>9. PICK h : Run(h, n, Values, value, F) /\ h[n] = Whole(it, n)
  <2>1. Follows(it, n, Values, value, F)
    BY <1>7, <1>8 DEF Follows
  <2> QED BY <1>1, <1>2, <1>3, <2>1, RunOf
<1>10. /\ h \in [0 .. n -> Values] /\ h[0] = value
       /\ \A k \in 1 .. n : h[k] = F[k][h[k - 1]]
  BY <1>9 DEF Run
<1>11. ASSUME NEW k \in 1 .. n PROVE h[k] = HandAt(h[k - 1], q, k, buffer)
  <2>1. k - 1 \in 0 .. n
    BY <1>1
  <2>2. h[k - 1] \in Values
    BY <1>10, <2>1
  <2> QED BY <1>10, <2>2 DEF F
<1>13. Handing(h, q, buffer)
  BY <1>4, <1>9, <1>10, <1>11 DEF Handing, n
<1> QED BY <1>13

(* The first items of a layout have the bytes summed up so far.             *)
LEMMA BytesOfFirst ==
  ASSUME NEW q \in Seq(Mappable), NEW h, Adding(h, q), NEW m \in 0 .. Len(q)
  PROVE  /\ SubSeq(q, 1, m) \in Seq(Mappable)
         /\ Bytes(SubSeq(q, 1, m)) = h[m]
<1> DEFINE p == SubSeq(q, 1, m)
<1>1. p \in Seq(Mappable) /\ Len(p) = m /\ \A k \in 1 .. m : p[k] = q[k]
  OBVIOUS
<1> HIDE DEF p
<1>2. PICK g : Adding(g, p)
  BY <1>1, AddingExists
<1> DEFINE T == {k \in 0 .. m : g[k] = h[k]}
<1>3. 0 \in T
  BY <1>2 DEF Adding
<1>4. ASSUME NEW k \in 0 .. m - 1, k \in T PROVE k + 1 \in T
  <2>1. k + 1 \in 1 .. m /\ k + 1 \in 1 .. Len(q) /\ k + 1 - 1 = k /\ k + 1 \in 0 .. m
    OBVIOUS
  <2>2. g[k + 1] = g[k] + ItemSize(p[k + 1])
    BY <1>1, <1>2, <2>1 DEF Adding
  <2>3. h[k + 1] = h[k] + ItemSize(q[k + 1])
    BY <2>1 DEF Adding
  <2> QED BY <1>1, <1>4, <2>1, <2>2, <2>3
<1>5. m \in T
  <2> HIDE DEF T
  <2>1. 0 .. m \subseteq T
    BY <1>3, <1>4, Induct
  <2> QED BY <2>1
<1> QED BY <1>1, <1>2, <1>5 DEF Adding, p

(* A layout has two bytes for an item at most.                              *)
LEMMA BytesType ==
  ASSUME NEW q \in Seq(Mappable)
  PROVE  Bytes(q) \in Nat /\ Bytes(q) <= 2 * Len(q)
<1>1. PICK h : Adding(h, q)
  BY AddingExists
<1> DEFINE T == {k \in 0 .. Len(q) : h[k] <= 2 * k}
<1>2. h \in [0 .. Len(q) -> Nat] /\ h[Len(q)] = Bytes(q) /\ Len(q) \in 0 .. Len(q)
  BY <1>1 DEF Adding
<1>3. 0 \in T
  BY <1>1 DEF Adding
<1>4. ASSUME NEW k \in 0 .. Len(q) - 1, k \in T PROVE k + 1 \in T
  <2>1. k + 1 \in 1 .. Len(q) /\ k + 1 - 1 = k /\ k \in 0 .. Len(q) /\ k + 1 \in 0 .. Len(q)
    OBVIOUS
  <2>2. h[k + 1] = h[k] + ItemSize(q[k + 1])
    BY <1>1, <2>1 DEF Adding
  <2>3. ItemSize(q[k + 1]) \in 0 .. 2
    BY <2>1, ItemSizes
  <2>4. h[k] \in Nat
    BY <1>2, <2>1
  <2> QED BY <1>4, <2>1, <2>2, <2>3, <2>4
<1>5. Len(q) \in T
  <2> HIDE DEF T
  <2>1. 0 .. Len(q) \subseteq T
    BY <1>3, <1>4, Induct
  <2> QED BY <1>2, <2>1
<1> QED BY <1>2, <1>5

(* Two layouts one after the other have the bytes of both.                  *)
LEMMA BytesOfBoth ==
  ASSUME NEW a \in Seq(Mappable), NEW b \in Seq(Mappable)
  PROVE  Bytes(a \o b) = Bytes(a) + Bytes(b)
<1> DEFINE q == a \o b
           n == Len(a)
<1>1. /\ q \in Seq(Mappable) /\ n \in Nat /\ Len(q) = n + Len(b) /\ SubSeq(q, 1, n) = a
      /\ \A k \in 1 .. Len(b) : q[n + k] = b[k]
  <2>1. q \in Seq(Mappable) /\ n \in Nat /\ Len(q) = n + Len(b)
    OBVIOUS
  <2>2. SubSeq(q, 1, n) = a
    OBVIOUS
  <2>3. \A k \in 1 .. Len(b) : q[n + k] = b[k]
    OBVIOUS
  <2> QED BY <2>1, <2>2, <2>3
<1> HIDE DEF q, n
<1>2. PICK h : Adding(h, q)
  BY <1>1, AddingExists
<1>3. PICK g : Adding(g, b)
  BY AddingExists
<1>4. h[n] = Bytes(a) /\ Bytes(a) \in Nat
  <2>1. n \in 0 .. Len(q)
    BY <1>1
  <2>2. Bytes(SubSeq(q, 1, n)) = h[n]
    BY <1>1, <1>2, <2>1, BytesOfFirst
  <2> QED BY <1>1, <2>2, BytesType
<1> DEFINE T == {k \in 0 .. Len(b) : h[n + k] = h[n] + g[k]}
<1>5. 0 \in T
  <2>1. g[0] = 0
    BY <1>3 DEF Adding
  <2> QED BY <1>1, <1>4, <2>1
<1>6. ASSUME NEW k \in 0 .. Len(b) - 1, k \in T PROVE k + 1 \in T
  <2>1. /\ k + 1 \in 1 .. Len(b) /\ k + 1 - 1 = k /\ k \in 0 .. Len(b) /\ k + 1 \in 0 .. Len(b)
        /\ n + (k + 1) \in 1 .. Len(q) /\ n + (k + 1) - 1 = n + k
    BY <1>1
  <2>2. h[n + (k + 1)] = h[n + k] + ItemSize(q[n + (k + 1)])
    <3> DEFINE m == n + (k + 1)
    <3>0. k \in Int /\ n \in Int
      BY <1>1
    <3>1. m \in 1 .. Len(q) /\ m - 1 = n + k
      BY <2>1, <3>0
    <3> HIDE DEF m
    <3>2. h[m] = h[m - 1] + ItemSize(q[m])
      BY <1>2, <3>1 DEF Adding
    <3> QED BY <3>1, <3>2 DEF m
  <2>3. g[k + 1] = g[k] + ItemSize(b[k + 1]) /\ g[k] \in Nat
    <3>1. g[k + 1] = g[k + 1 - 1] + ItemSize(b[k + 1])
      BY <1>3, <2>1 DEF Adding
    <3>2. g \in [0 .. Len(b) -> Nat]
      BY <1>3 DEF Adding
    <3> QED BY <2>1, <3>1, <3>2
  <2>4. ItemSize(b[k + 1]) \in 0 .. 2 /\ q[n + (k + 1)] = b[k + 1]
    BY <1>1, <2>1, ItemSizes
  <2> QED BY <1>4, <1>6, <2>1, <2>2, <2>3, <2>4
<1>7. Len(b) \in T
  <2> DEFINE m == Len(b)
  <2>0. m \in Nat /\ m \in 0 .. m
    OBVIOUS
  <2>1. 0 \in T /\ \A k \in 0 .. m - 1 : k \in T => k + 1 \in T
    BY <1>5, <1>6
  <2> HIDE DEF T, m
  <2>2. 0 .. m \subseteq T
    BY <2>0, <2>1, Induct
  <2> QED BY <2>0, <2>2 DEF m
<1>8. h[Len(q)] = Bytes(q) /\ g[Len(b)] = Bytes(b)
  BY <1>2, <1>3 DEF Adding
<1> QED BY <1>1, <1>4, <1>7, <1>8 DEF q

(* The bytes of an item lie within those of its layout.                     *)
LEMMA Offsets ==
  ASSUME NEW q \in Seq(Mappable), NEW k \in 1 .. Len(q)
  PROVE  Offset(q, k) \in Nat /\ Offset(q, k) + ItemSize(q[k]) <= Bytes(q)
<1> DEFINE a == SubSeq(q, 1, k - 1)
           c == SubSeq(q, 1, k)
           b == SubSeq(q, k + 1, Len(q))
<1>1. PICK h : Adding(h, q)
  BY AddingExists
<1>2. k \in 0 .. Len(q) /\ k - 1 \in 0 .. Len(q)
  OBVIOUS
<1>3. Bytes(c) = h[k] /\ Bytes(a) = h[k - 1] /\ c \in Seq(Mappable) /\ a \in Seq(Mappable)
  BY <1>1, <1>2, BytesOfFirst
<1>4. q = c \o b /\ b \in Seq(Mappable)
  OBVIOUS
<1> HIDE DEF a, b, c
<1>5. Bytes(q) = Bytes(c) + Bytes(b)
  BY <1>3, <1>4, BytesOfBoth
<1>6. Bytes(a) \in Nat /\ Bytes(b) \in Nat /\ ItemSize(q[k]) \in 0 .. 2
  BY <1>3, <1>4, BytesType, ItemSizes, q[k] \in Mappable
<1>7. h[k] = h[k - 1] + ItemSize(q[k])
  BY <1>1 DEF Adding
<1> QED BY <1>3, <1>5, <1>6, <1>7 DEF Offset, a

(* As many bytes are packed as the layout has.                              *)
LEMMA PackedType ==
  ASSUME NEW q \in Seq(Mappable), NEW val \in Values
  PROVE  Packed(q, val) \in Seq(Int) /\ Len(Packed(q, val)) = Bytes(q)
<1>1. PICK h : Adding(h, q)
  BY AddingExists
<1>2. PICK g : Packing(g, q, val)
  BY PackingExists
<1> DEFINE T == {k \in 0 .. Len(q) : Len(g[k]) = h[k]}
<1>3. /\ g \in [0 .. Len(q) -> Seq(Int)] /\ g[Len(q)] = Packed(q, val)
      /\ h[Len(q)] = Bytes(q) /\ Len(q) \in 0 .. Len(q)
  BY <1>1, <1>2 DEF Adding, Packing
<1>4. 0 \in T
  BY <1>1, <1>2 DEF Adding, Packing
<1>5. ASSUME NEW k \in 0 .. Len(q) - 1, k \in T PROVE k + 1 \in T
  <2>1. k + 1 \in 1 .. Len(q) /\ k + 1 - 1 = k /\ k \in 0 .. Len(q) /\ k + 1 \in 0 .. Len(q)
    OBVIOUS
  <2>2. h[k + 1] = h[k] + ItemSize(q[k + 1])
    BY <1>1, <2>1 DEF Adding
  <2>3. g[k + 1] = Pack(g[k], q[k + 1], val)
    BY <1>2, <2>1 DEF Packing
  <2>4. g[k] \in Seq(Int) /\ q[k + 1] \in Mappable
    BY <1>3, <2>1
  <2>5. Len(Pack(g[k], q[k + 1], val)) = Len(g[k]) + ItemSize(q[k + 1])
    BY <2>4, PackType
  <2> QED BY <1>5, <2>1, <2>2, <2>3, <2>5
<1>6. Len(q) \in T
  <2> DEFINE m == Len(q)
  <2>0. m \in Nat
    OBVIOUS
  <2>1. 0 \in T /\ \A k \in 0 .. m - 1 : k \in T => k + 1 \in T
    BY <1>4, <1>5
  <2> HIDE DEF T, m
  <2>2. 0 .. m \subseteq T
    BY <2>0, <2>1, Induct
  <2> QED BY <1>3, <2>2 DEF m
<1> QED BY <1>3, <1>6

-----------------------------------------------------------------------------
(* One sequence after another, element by element.                          *)
IsBoth(q, a, b, S) ==
  /\ q \in Seq(S) /\ Len(q) = Len(a) + Len(b)
  /\ \A i \in 1 .. Len(a) : q[i] = a[i]
  /\ \A i \in Len(a) + 1 .. Len(a) + Len(b) : q[i] = b[i - Len(a)]

(* A concatenation is such a sequence.                                      *)
LEMMA Both ==
  ASSUME NEW S, NEW a \in Seq(S), NEW b \in Seq(S)
  PROVE  IsBoth(a \o b, a, b, S)
<1>1. a \o b \in Seq(S) /\ Len(a \o b) = Len(a) + Len(b)
  OBVIOUS
<1>2. ASSUME NEW i \in 1 .. Len(a) PROVE (a \o b)[i] = a[i]
  OBVIOUS
<1>3. ASSUME NEW i \in Len(a) + 1 .. Len(a) + Len(b) PROVE (a \o b)[i] = b[i - Len(a)]
  OBVIOUS
<1> QED BY <1>1, <1>2, <1>3 DEF IsBoth

(* appd_RemapProcessDataCommand makes the map that was asked for: what it   *)
(* moves and what it puts there is the splice, as long as a map that gets   *)
(* longer gets longer at its end.                                           *)
LEMMA MapIsSpliced ==
  ASSUME NEW S, NEW map \in [1 .. NUMBER_OF_INSTANCES -> S],
         NEW n \in 0 .. NUMBER_OF_INSTANCES, NEW start \in Nat, NEW remove \in Nat,
         NEW items \in Seq(S), start + remove <= n,
         n - remove + Len(items) <= NUMBER_OF_INSTANCES,
         Len(items) > remove => start + remove = n
  PROVE  SubSeq(Put(Moved(map, n, start, remove, Len(items)), start, items),
                1, n + Len(items) - remove)
           = Splice(SubSeq(map, 1, n), start, remove, items)
<1> DEFINE add  == Len(items)
           m    == n + add - remove
           made == Put(Moved(map, n, start, remove, add), start, items)
           l    == SubSeq(map, 1, n)
           a    == SubSeq(l, 1, start)
           c    == SubSeq(l, start + remove + 1, Len(l))
<1>0. NUMBER_OF_INSTANCES \in Nat
  BY DEF NUMBER_OF_INSTANCES
<1>1. add \in Nat /\ m \in Nat /\ m <= NUMBER_OF_INSTANCES /\ start + add <= m
  BY <1>0
<1>2. map \in Seq(S) /\ Len(map) = NUMBER_OF_INSTANCES /\ DOMAIN map = 1 .. NUMBER_OF_INSTANCES
  BY <1>0
<1>3. l \in Seq(S) /\ Len(l) = n /\ \A i \in 1 .. n : l[i] = map[i]
  BY <1>2
<1> HIDE DEF l
<1>4. /\ a \in Seq(S) /\ Len(a) = start /\ \A i \in 1 .. start : a[i] = l[i]
      /\ c \in Seq(S) /\ Len(c) = n - start - remove
      /\ \A i \in 1 .. n - start - remove : c[i] = l[start + remove + i]
  BY <1>3
<1> HIDE DEF a, c
<1> DEFINE both == a \o items
           all  == both \o c
<1>5. /\ both \in Seq(S) /\ Len(both) = start + add
      /\ \A i \in 1 .. start : both[i] = a[i]
      /\ \A i \in start + 1 .. start + add : both[i] = items[i - start]
  <2>1. IsBoth(both, a, items, S)
    BY <1>4, Both
  <2> HIDE DEF both
  <2> QED BY <1>4, <2>1 DEF IsBoth
<1> HIDE DEF both
<1>6. /\ all \in Seq(S) /\ Len(all) = m
      /\ \A i \in 1 .. start + add : all[i] = both[i]
      /\ \A i \in start + add + 1 .. m : all[i] = c[i - (start + add)]
  <2>1. IsBoth(all, both, c, S)
    BY <1>4, <1>5, Both
  <2>2. start + add + (n - start - remove) = m
    BY <1>1
  <2> HIDE DEF all, add, m
  <2> QED BY <1>4, <1>5, <2>1, <2>2 DEF IsBoth
<1> HIDE DEF all
<1>7. /\ DOMAIN made = 1 .. NUMBER_OF_INSTANCES
      /\ \A i \in 1 .. NUMBER_OF_INSTANCES :
           made[i] = IF i \in start + 1 .. start + add THEN items[i - start]
                     ELSE Moved(map, n, start, remove, add)[i]
  BY <1>2 DEF Put, Moved
<1>8. ASSUME NEW i \in 1 .. start PROVE Moved(map, n, start, remove, add)[i] = map[i]
  <2>1. /\ i \in 1 .. NUMBER_OF_INSTANCES
        /\ i \notin start + add + 1 .. n - (remove - add)
        /\ i \notin start + remove + 1 .. n
    BY <1>0, <1>1
  <2> QED BY <1>2, <2>1 DEF Moved
<1>9. ASSUME NEW i \in start + add + 1 .. m
      PROVE  Moved(map, n, start, remove, add)[i] = map[i + remove - add]
  <2>1. i \in 1 .. NUMBER_OF_INSTANCES /\ remove >= add
    BY <1>0, <1>1
  <2>2. CASE remove > add
    BY <1>2, <2>1, <2>2 DEF Moved
  <2>3. CASE remove = add
    BY <1>2, <2>1, <2>3 DEF Moved
  <2> QED BY <1>1, <2>1, <2>2, <2>3
<1> DEFINE first == SubSeq(made, 1, m)
<1>10. DOMAIN first = 1 .. m /\ \A i \in 1 .. m : first[i] = made[i]
  BY <1>0, <1>1, <1>7
<1>11. ASSUME NEW i \in 1 .. m PROVE first[i] = all[i]
  <2>1. CASE i <= start
    <3>1. i \in 1 .. start /\ i \in 1 .. start + add /\ i \notin start + 1 .. start + add
          /\ i \in 1 .. NUMBER_OF_INSTANCES /\ i \in 1 .. n
      BY <1>0, <1>1, <2>1
    <3>2. first[i] = map[i]
      BY <1>7, <1>8, <1>10, <3>1
    <3>3. all[i] = a[i] /\ a[i] = l[i]
      BY <1>4, <1>5, <1>6, <3>1
    <3> QED BY <1>3, <3>1, <3>2, <3>3
  <2>2. CASE start < i /\ i <= start + add
    <3>1. i \in start + 1 .. start + add /\ i \in 1 .. start + add
          /\ i \in 1 .. NUMBER_OF_INSTANCES
      BY <1>0, <1>1, <2>2
    <3>2. first[i] = items[i - start]
      BY <1>7, <1>10, <3>1
    <3> QED BY <1>5, <1>6, <3>1, <3>2
  <2>3. CASE start + add < i
    <3>1. i \in start + add + 1 .. m /\ i \notin start + 1 .. start + add
          /\ i \in 1 .. NUMBER_OF_INSTANCES
      BY <1>0, <1>1, <2>3
    <3>2. first[i] = map[i + remove - add]
      BY <1>7, <1>9, <1>10, <3>1
    <3>3. all[i] = c[i - (start + add)]
      BY <1>6, <3>1
    <3>4. /\ i - (start + add) \in 1 .. n - start - remove
          /\ start + remove + (i - (start + add)) = i + remove - add
          /\ i + remove - add \in 1 .. n
      BY <1>1, <3>1
    <3>5. c[i - (start + add)] = l[i + remove - add]
      BY <1>4, <3>4
    <3> QED BY <1>3, <3>2, <3>3, <3>4, <3>5
  <2> QED BY <1>1, <2>1, <2>2, <2>3
<1>12. DOMAIN all = 1 .. m
  BY <1>1, <1>6
<1>13. first = all
  <2>1. all = [i \in 1 .. m |-> all[i]]
    BY <1>6, <1>12
  <2>2. first = [i \in 1 .. m |-> made[i]]
    BY <1>0, <1>1, <1>7
  <2> QED BY <1>10, <1>11, <2>1, <2>2
<1> QED BY <1>13 DEF Splice, all, both, a, c, l

(* The bytes of a splice.                                                   *)
Removable(l, start, remove) == start \in Nat /\ remove \in Nat /\ start + remove <= Len(l)

IsSplice(q, l, start, remove, items) ==
  /\ q \in Seq(Mappable)
  /\ Len(q) = Len(l) - remove + Len(items)
  /\ Bytes(q) = Bytes(l) - Bytes(SubSeq(l, start + 1, start + remove)) + Bytes(items)

(* Removing and adding items takes and gives their bytes.                   *)
LEMMA SplicedBytes ==
  ASSUME NEW l \in Seq(Mappable), NEW items \in Seq(Mappable),
         NEW start, NEW remove, Removable(l, start, remove)
  PROVE  IsSplice(Splice(l, start, remove, items), l, start, remove, items)
<1>0. start \in Nat /\ remove \in Nat /\ start + remove <= Len(l)
  BY DEF Removable
<1> DEFINE a == SubSeq(l, 1, start)
           b == SubSeq(l, start + 1, start + remove)
           c == SubSeq(l, start + remove + 1, Len(l))
<1>1. /\ a \in Seq(Mappable) /\ b \in Seq(Mappable) /\ c \in Seq(Mappable)
      /\ Len(a) = start /\ Len(b) = remove /\ Len(c) = Len(l) - start - remove
  BY <1>0
<1>2. l = (a \o b) \o c
  <2> DEFINE p == a \o b
             q == p \o c
  <2>1. \A i \in 1 .. start : a[i] = l[i]
    BY <1>0
  <2>2. \A i \in 1 .. remove : b[i] = l[start + i]
    BY <1>0
  <2>3. \A i \in 1 .. Len(l) - start - remove : c[i] = l[start + remove + i]
    BY <1>0
  <2> HIDE DEF a, b, c
  <2>4. IsBoth(p, a, b, Mappable)
    BY <1>1, Both
  <2> HIDE DEF p
  <2>5. /\ p \in Seq(Mappable) /\ Len(p) = start + remove
        /\ \A i \in 1 .. start : p[i] = l[i]
        /\ \A i \in start + 1 .. start + remove : p[i] = b[i - start]
    BY <1>0, <1>1, <2>1, <2>4 DEF IsBoth
  <2>6. \A i \in 1 .. start + remove : p[i] = l[i]
    <3>1. ASSUME NEW i \in start + 1 .. start + remove PROVE p[i] = l[i]
      <4>1. i - start \in 1 .. remove /\ start + (i - start) = i
        BY <1>0
      <4> QED BY <2>2, <2>5, <4>1
    <3>2. \A i \in 1 .. start + remove : i \in 1 .. start \/ i \in start + 1 .. start + remove
      BY <1>0
    <3> QED BY <2>5, <3>1, <3>2
  <2>7. IsBoth(q, p, c, Mappable)
    BY <1>1, <2>5, Both
  <2> HIDE DEF q
  <2>8. /\ q \in Seq(Mappable) /\ Len(q) = Len(p) + Len(c)
        /\ \A i \in 1 .. Len(p) : q[i] = p[i]
        /\ \A i \in Len(p) + 1 .. Len(p) + Len(c) : q[i] = c[i - Len(p)]
    BY <2>7 DEF IsBoth
  <2>9. Len(q) = Len(l)
    BY <1>0, <1>1, <2>5, <2>8
  <2>10. ASSUME NEW i \in 1 .. Len(l) PROVE q[i] = l[i]
    <3>1. CASE i <= start + remove
      BY <2>5, <2>6, <2>8, <3>1
    <3>2. CASE i > start + remove
      <4> DEFINE j == i - (start + remove)
      <4>1. j \in 1 .. Len(l) - start - remove /\ start + remove + j = i
        BY <1>0, <3>2
      <4>2. q[i] = c[j]
        <5>1. i \in Len(p) + 1 .. Len(p) + Len(c) /\ i - Len(p) = j
          BY <1>0, <1>1, <2>5, <3>2
        <5> QED BY <2>8, <5>1
      <4> HIDE DEF j
      <4> QED BY <2>3, <4>1, <4>2
    <3> QED BY <1>0, <3>1, <3>2
  <2>11. l = q
    <3> DEFINE n == Len(l)
    <3>1. l = [i \in 1 .. n |-> l[i]] /\ q = [i \in 1 .. n |-> q[i]]
      BY <2>8, <2>9
    <3> HIDE DEF n
    <3>2. \A i \in 1 .. n : q[i] = l[i]
      BY <2>10 DEF n
    <3> QED BY <3>1, <3>2
  <2> QED BY <2>11 DEF p, q
<1>3. Splice(l, start, remove, items) = (a \o items) \o c
  BY DEF Splice
<1> HIDE DEF a, b, c
<1>4. Bytes(l) = Bytes(a) + Bytes(b) + Bytes(c)
  <2>1. a \o b \in Seq(Mappable)
    BY <1>1
  <2>2. Bytes(l) = Bytes(a \o b) + Bytes(c)
    BY <1>1, <1>2, <2>1, BytesOfBoth
  <2> QED BY <1>1, <2>2, BytesOfBoth
<1> DEFINE d == a \o items
<1>5. d \in Seq(Mappable) /\ Len(d) = Len(a) + Len(items)
  BY <1>1, Both DEF IsBoth
<1>6. Bytes(d) = Bytes(a) + Bytes(items)
  BY <1>1, BytesOfBoth
<1> HIDE DEF d
<1>7. d \o c \in Seq(Mappable) /\ Len(d \o c) = Len(d) + Len(c)
  BY <1>1, <1>5, Both DEF IsBoth
<1>8. Bytes(d \o c) = Bytes(d) + Bytes(c)
  BY <1>1, <1>5, BytesOfBoth
<1>9. Bytes(a) \in Nat /\ Bytes(b) \in Nat /\ Bytes(c) \in Nat /\ Bytes(items) \in Nat
  BY <1>1, BytesType
<1>10. Bytes(d \o c) = Bytes(l) - Bytes(b) + Bytes(items)
  BY <1>4, <1>6, <1>8, <1>9
<1>11. Len(d \o c) = Len(l) - remove + Len(items)
  BY <1>0, <1>1, <1>5, <1>7
<1> QED BY <1>3, <1>7, <1>10, <1>11 DEF b, d, IsSplice

(* The removed items of a map are those of its layout.                      *)
LEMMA SameRemoved ==
  ASSUME NEW S, NEW map \in [1 .. NUMBER_OF_INSTANCES -> S],
         NEW n \in 0 .. NUMBER_OF_INSTANCES, NEW start \in Nat, NEW remove \in Nat,
         start + remove <= n
  PROVE  SubSeq(map, start + 1, start + remove)
           = SubSeq(SubSeq(map, 1, n), start + 1, start + remove)
<1>0. NUMBER_OF_INSTANCES \in Nat
  BY DEF NUMBER_OF_INSTANCES
<1>1. map \in Seq(S) /\ Len(map) = NUMBER_OF_INSTANCES
  BY <1>0
<1> DEFINE l == SubSeq(map, 1, n)
<1>2. l \in Seq(S) /\ Len(l) = n /\ \A i \in 1 .. n : l[i] = map[i]
  BY <1>1
<1> HIDE DEF l
<1>3. SubSeq(map, start + 1, start + remove) = [i \in 1 .. remove |-> map[start + i]]
  BY <1>1
<1>4. SubSeq(l, start + 1, start + remove) = [i \in 1 .. remove |-> l[start + i]]
  BY <1>2
<1>5. \A i \in 1 .. remove : l[start + i] = map[start + i]
  BY <1>2
<1> QED BY <1>3, <1>4, <1>5 DEF l

-----------------------------------------------------------------------------
(* Read process data that is handed up.  Good items name the object and     *)
(* hold a value in its range; the last of them counts.                      *)
Says(q, bytes, k) == Decoded(bytes, Offset(q, k), q[k].adi)

Good(q, bytes, adi) ==
  {k \in DOMAIN q : q[k] = Item(adi) /\ InRange(adi, Says(q, bytes, k))}

Alike(a, b, n) == \A i \in 1 .. n : a[i] = b[i]

Holds(a, n) == \A i \in 1 .. n : a[i] \in Int

(* Bytes up to the length of the layout can be read.                        *)
LEMMA HoldsReadable ==
  ASSUME NEW q \in Seq(Mappable), NEW buffer, Holds(buffer, Bytes(q))
  PROVE  Readable(q, buffer)
<1>1. ASSUME NEW k \in 1 .. Len(q)
      PROVE  /\ Offset(q, k) \in Nat
             /\ \A i \in 1 .. ItemSize(q[k]) : buffer[Offset(q, k) + i] \in Int
  <2>1. Offset(q, k) \in Nat /\ Offset(q, k) + ItemSize(q[k]) <= Bytes(q)
    BY Offsets
  <2>2. ItemSize(q[k]) \in 0 .. 2 /\ Bytes(q) \in Nat
    BY ItemSizes, BytesType, q[k] \in Mappable
  <2>3. \A i \in 1 .. ItemSize(q[k]) : Offset(q, k) + i \in 1 .. Bytes(q)
    BY <2>1, <2>2
  <2> QED BY <2>1, <2>3 DEF Holds
<1> QED BY <1>1 DEF Readable

(* Two buffers alike up to there say the same.                              *)
LEMMA SaysSame ==
  ASSUME NEW q \in Seq(Mappable), NEW a, NEW b, Alike(a, b, Bytes(q)),
         NEW k \in 1 .. Len(q), q[k].elements # 0
  PROVE  Says(q, a, k) = Says(q, b, k)
<1>1. Offset(q, k) \in Nat /\ Offset(q, k) + ItemSize(q[k]) <= Bytes(q)
  BY Offsets
<1>2. ItemSize(q[k]) \in 0 .. 2 /\ Bytes(q) \in Nat /\ ItemSize(q[k]) = Size(q[k].adi)
  BY ItemSizes, BytesType, q[k] \in Mappable
<1>3. q[k].adi \in Adi
  <2>1. q[k] \in Mappable
    OBVIOUS
  <2> QED BY <2>1 DEF Mappable
<1>4. ASSUME NEW i \in 1 .. Size(q[k].adi) PROVE a[Offset(q, k) + i] = b[Offset(q, k) + i]
  <2>1. Offset(q, k) + i \in 1 .. Bytes(q)
    BY <1>1, <1>2
  <2> QED BY <2>1 DEF Alike
<1> QED BY <1>1, <1>3, <1>4, DecodedSame DEF Says

(* What NewReadProcessData does to each object.                             *)
HandsRight(q, bytes, new) ==
  \A adi \in Adi :
    \/ Good(q, bytes, adi) = {} /\ new[adi] = value[adi]
    \/ \E m \in Good(q, bytes, adi) :
         (\A j \in Good(q, bytes, adi) : j <= m) /\ new[adi] = Says(q, bytes, m)

(* The last good item counts, for every object.                             *)
LEMMA ReadRight ==
  ASSUME NEW q \in Seq(Mappable), NEW buffer, NEW bytes, value \in Values,
         Holds(buffer, Bytes(q)), Alike(buffer, bytes, Bytes(q))
  PROVE  /\ NewReadProcessData(q, buffer) \in Values
         /\ HandsRight(q, bytes, NewReadProcessData(q, buffer))
<1>1. Readable(q, buffer)
  BY HoldsReadable
<1>2. PICK h : Handing(h, q, buffer)
  BY <1>1, HandingExists
<1> DEFINE n == Len(q)
<1>3. n \in Nat /\ n \in 0 .. n /\ DOMAIN q = 1 .. n
  OBVIOUS
<1>4. h \in [0 .. n -> Values] /\ h[n] = NewReadProcessData(q, buffer) /\ h[0] = value
  BY <1>2 DEF Handing
<1>5. ASSUME NEW adi \in Adi, NEW k \in 1 .. n
      PROVE  h[k][adi] = IF k \in Good(q, bytes, adi) THEN Says(q, bytes, k) ELSE h[k - 1][adi]
  <2>1. k - 1 \in 0 .. n /\ h[k - 1] \in Values
    BY <1>4
  <2>2. h[k] = HandAt(h[k - 1], q, k, buffer)
    BY <1>2 DEF Handing
  <2>3. h[k][adi] = IF /\ q[k] = Item(adi)
                       /\ InRange(adi, Decoded(buffer, Offset(q, k), adi))
                    THEN Decoded(buffer, Offset(q, k), adi) ELSE h[k - 1][adi]
    BY <1>1, <2>1, <2>2, HandType
  <2>4. CASE q[k] = Item(adi)
    <3>1. q[k].adi = adi /\ q[k].elements # 0
      BY <2>4 DEF Item
    <3>2. Decoded(buffer, Offset(q, k), adi) = Says(q, bytes, k)
      BY <3>1, SaysSame DEF Says
    <3>3. k \in Good(q, bytes, adi) <=> InRange(adi, Says(q, bytes, k))
      BY <1>3, <2>4 DEF Good
    <3> QED BY <2>3, <2>4, <3>2, <3>3
  <2>5. CASE q[k] # Item(adi)
    BY <2>3, <2>5 DEF Good
  <2> QED BY <2>4, <2>5
<1>6. ASSUME NEW adi \in Adi
      PROVE  \/ Good(q, bytes, adi) = {} /\ h[n][adi] = value[adi]
             \/ \E m \in Good(q, bytes, adi) :
                  (\A j \in Good(q, bytes, adi) : j <= m) /\ h[n][adi] = Says(q, bytes, m)
  <2> DEFINE G == Good(q, bytes, adi)
             At(k) == \/ (\A j \in G : k < j) /\ h[k][adi] = value[adi]
                      \/ \E m \in G : /\ m <= k /\ (\A j \in G : j <= k => j <= m)
                                      /\ h[k][adi] = Says(q, bytes, m)
             T == {k \in 0 .. n : At(k)}
  <2>1. G \subseteq 1 .. n
    BY <1>3 DEF Good
  <2>2. \A k \in 1 .. n : h[k][adi] = IF k \in G THEN Says(q, bytes, k) ELSE h[k - 1][adi]
    BY <1>5
  <2> HIDE DEF G, n
  <2>3. At(0)
    BY <1>4, <2>1
  <2>4. ASSUME NEW k \in 0 .. n - 1, At(k) PROVE At(k + 1)
    <3>0. k \in Int /\ k + 1 \in 1 .. n /\ k + 1 - 1 = k
      BY <1>3
    <3>1. CASE k + 1 \in G
      <4>1. h[k + 1][adi] = Says(q, bytes, k + 1)
        BY <2>2, <3>0, <3>1
      <4> QED BY <3>0, <3>1, <4>1
    <3>2. CASE k + 1 \notin G
      <4>1. h[k + 1][adi] = h[k][adi]
        BY <2>2, <3>0, <3>2
      <4>2. \A j \in G : k < j => k + 1 < j
        BY <2>1, <3>0, <3>2
      <4>3. \A j \in G : j <= k + 1 => j <= k
        BY <2>1, <3>0, <3>2
      <4>4. CASE (\A j \in G : k < j) /\ h[k][adi] = value[adi]
        BY <4>1, <4>2, <4>4
      <4>5. ASSUME NEW m \in G, m <= k, \A j \in G : j <= k => j <= m,
                   h[k][adi] = Says(q, bytes, m)
            PROVE  At(k + 1)
        <5>1. m <= k + 1
          BY <2>1, <3>0, <4>5
        <5> QED BY <4>1, <4>3, <4>5, <5>1
      <4> QED BY <2>4, <4>4, <4>5
    <3> QED BY <3>1, <3>2
  <2> HIDE DEF At
  <2>5. 0 \in T /\ \A k \in 0 .. n - 1 : k \in T => k + 1 \in T
    <3>1. \A k \in 0 .. n - 1 : k + 1 \in 0 .. n
      BY <1>3
    <3> QED BY <1>3, <2>3, <2>4, <3>1
  <2> HIDE DEF T
  <2>6. n \in T
    <3>1. 0 .. n \subseteq T
      BY <1>3, <2>5, Induct
    <3> QED BY <1>3, <3>1
  <2>7. At(n)
    BY <2>6 DEF T
  <2>8. \A j \in G : j <= n /\ ~(n < j)
    BY <1>3, <2>1
  <2>9. CASE (\A j \in G : n < j) /\ h[n][adi] = value[adi]
    BY <2>8, <2>9 DEF G
  <2>10. ASSUME NEW m \in G, \A j \in G : j <= n => j <= m, h[n][adi] = Says(q, bytes, m)
         PROVE  \E i \in G : (\A j \in G : j <= i) /\ h[n][adi] = Says(q, bytes, i)
    BY <2>8, <2>10
  <2> QED BY <2>7, <2>9, <2>10 DEF At, G
<1>7. NewReadProcessData(q, buffer) \in Values
  BY <1>3, <1>4
<1> HIDE DEF n
<1>8. HandsRight(q, bytes, h[n])
  BY <1>6 DEF HandsRight
<1> QED BY <1>4, <1>7, <1>8

-----------------------------------------------------------------------------
(* The maps: their types, that they agree, and that the size announced for  *)
(* a new layout is the size APPD has for it.                                *)
Layouts == {s \in Seq(Mappable) : Len(s) <= NUMBER_OF_INSTANCES}
Entries == [adi : Nat, elements : Nat]
Maps    == [1 .. NUMBER_OF_INSTANCES -> Entries]

MapsTyped ==
  /\ psMaps \in [Area -> Maps]
  /\ iNbrMaps \in [Area -> 0 .. NUMBER_OF_INSTANCES]
  /\ pdSize \in [Area -> Nat] /\ iPdLength \in [Area -> Nat]
  /\ fRemapping \in [Area -> BOOLEAN]
  /\ layout \in [Area -> Layouts]
  /\ newLayout \in [area : Area \cup {"none"}, items : Layouts, size : Nat]
  /\ remapArea \in Area

Announced ==
  newLayout.area \in Area => newLayout.size = pdSize[newLayout.area]

MapsRight == MapsTyped /\ MapsAgree /\ Announced

mapVars == <<psMaps, iNbrMaps, pdSize, iPdLength, fRemapping, layout, newLayout, remapArea>>

(* What the other proofs need of the maps.                                  *)
LEMMA MapFacts ==
  ASSUME MapsRight, NEW area \in Area
  PROVE  /\ Mapped(area) = Agreed(area) /\ Mapped(area) \in Seq(Mappable)
         /\ layout[area] \in Seq(Mappable)
         /\ iPdLength[area] = Bytes(layout[area]) /\ iPdLength[area] \in 0 .. PdLen - 2
         /\ Bytes(Mapped(area)) \in 0 .. PdLen - 2
         /\ fRemapping[area] \in BOOLEAN
         /\ ~fRemapping[area] => Mapped(area) = layout[area]
<1>1. Mapped(area) = Agreed(area) /\ iPdLength[area] = Bytes(layout[area])
  BY DEF MapsRight, MapsAgree
<1>2. layout[area] \in Layouts /\ newLayout.items \in Layouts /\ fRemapping[area] \in BOOLEAN
  BY DEF MapsRight, MapsTyped
<1>3. Agreed(area) \in Layouts
  BY <1>2 DEF Agreed
<1>4. layout[area] \in Seq(Mappable) /\ Len(layout[area]) <= 5
      /\ Agreed(area) \in Seq(Mappable) /\ Len(Agreed(area)) <= 5
  BY <1>2, <1>3 DEF Layouts, NUMBER_OF_INSTANCES
<1>5. Bytes(layout[area]) \in 0 .. PdLen - 2 /\ Bytes(Agreed(area)) \in 0 .. PdLen - 2
  <2>1. ASSUME NEW q \in Seq(Mappable), Len(q) <= 5 PROVE Bytes(q) \in 0 .. PdLen - 2
    <3>1. Bytes(q) \in Nat /\ Bytes(q) <= 2 * Len(q) /\ Len(q) \in Nat
      BY BytesType
    <3> QED BY <2>1, <3>1 DEF PdLen
  <2> QED BY <1>4, <2>1
<1>6. ~fRemapping[area] => Agreed(area) = layout[area]
  BY DEF MapsRight, MapsAgree, Agreed
<1> QED BY <1>1, <1>2, <1>4, <1>5, <1>6

(* A step that leaves them alone.                                           *)
LEMMA MapsKept ==
  ASSUME MapsRight, UNCHANGED mapVars
  PROVE  MapsRight'
BY DEF MapsRight, MapsTyped, MapsAgree, Announced, Mapped, Agreed, mapVars

(* The type of a map a remap makes.                                         *)
LEMMA MadeType ==
  ASSUME NEW map \in Maps, NEW n \in 0 .. NUMBER_OF_INSTANCES, NEW start \in Nat,
         NEW remove \in Nat, NEW items \in Seq(Entries)
  PROVE  Put(Moved(map, n, start, remove, Len(items)), start, items) \in Maps
<1> DEFINE add == Len(items)
<1>0. NUMBER_OF_INSTANCES = 5 /\ add \in Nat /\ Unused \in Entries
  BY DEF NUMBER_OF_INSTANCES, Unused, Entries
<1>1. /\ DOMAIN map = 1 .. NUMBER_OF_INSTANCES
      /\ \A i \in 1 .. NUMBER_OF_INSTANCES : map[i] \in Entries
  BY DEF Maps
<1>2. ASSUME NEW i \in 1 .. NUMBER_OF_INSTANCES
      PROVE  Moved(map, n, start, remove, add)[i] \in Entries
  <2>1. CASE remove > add /\ i \in start + add + 1 .. n - (remove - add)
    <3>1. i + remove - add \in 1 .. NUMBER_OF_INSTANCES
      BY <1>0, <2>1
    <3>2. Moved(map, n, start, remove, add)[i] = map[i + remove - add]
      BY <1>1, <2>1 DEF Moved
    <3> QED BY <1>1, <3>1, <3>2
  <2>2. CASE remove < add /\ i \in start + remove + 1 .. n
    <3>1. ~(remove > add)
      BY <1>0, <2>2
    <3>2. Moved(map, n, start, remove, add)[i] =
            IF i > add - remove THEN map[i - (add - remove)] ELSE Unused
      BY <1>1, <2>2, <3>1 DEF Moved
    <3>3. i > add - remove => i - (add - remove) \in 1 .. NUMBER_OF_INSTANCES
      BY <1>0, <2>2
    <3> QED BY <1>0, <1>1, <3>2, <3>3
  <2>3. CASE /\ ~(remove > add /\ i \in start + add + 1 .. n - (remove - add))
             /\ ~(remove < add /\ i \in start + remove + 1 .. n)
    <3>1. Moved(map, n, start, remove, add)[i] = map[i]
      BY <1>1, <2>3 DEF Moved
    <3> QED BY <1>1, <3>1
  <2> QED BY <2>1, <2>2, <2>3
<1> DEFINE made == Moved(map, n, start, remove, add)
<1>3. DOMAIN made = 1 .. NUMBER_OF_INSTANCES
  BY <1>1 DEF Moved
<1> HIDE DEF made
<1>4. Put(made, start, items) =
        [i \in 1 .. NUMBER_OF_INSTANCES |->
           IF i \in start + 1 .. start + add THEN items[i - start] ELSE made[i]]
  BY <1>3 DEF Put
<1>5. ASSUME NEW i \in 1 .. NUMBER_OF_INSTANCES, i \in start + 1 .. start + add
      PROVE  items[i - start] \in Entries
  <2>1. i - start \in 1 .. add
    BY <1>0, <1>5
  <2> QED BY <2>1
<1> QED BY <1>2, <1>4, <1>5 DEF Maps, made

(* A map is a sequence.                                                     *)
LEMMA MapSeq ==
  ASSUME NEW map \in Maps
  PROVE  map \in Seq(Entries) /\ Len(map) = 5
<1>1. map \in [1 .. NUMBER_OF_INSTANCES -> Entries]
  BY DEF Maps
<1>2. NUMBER_OF_INSTANCES \in Nat
  BY DEF NUMBER_OF_INSTANCES
<1>3. map \in Seq(Entries) /\ Len(map) = NUMBER_OF_INSTANCES
  BY <1>1, <1>2
<1> QED BY <1>3 DEF NUMBER_OF_INSTANCES

(* What a remap command the driver accepts asks for.                        *)
RemapAsked(start, remove, items) ==
  /\ newLayout = None
  /\ start \in Nat /\ remove \in Nat /\ items \in Items
  /\ start + remove <= iNbrMaps[remapArea]
  /\ \A k \in DOMAIN items : Known(items[k])
  /\ Asks(remapArea, start, remove, items)
  /\ Accepted(remapArea, start, remove, items)

(* Items that APPD knows can be mapped.                                     *)
LEMMA KnownItems ==
  ASSUME NEW items \in Items, \A k \in DOMAIN items : Known(items[k])
  PROVE  items \in Seq(Mappable) /\ items \in Seq(Entries)
<1>1. PICK m \in 0 .. MaxAdd : items \in [1 .. m -> [adi : MapAdis, elements : 0 .. 2]]
  BY DEF Items
<1>2. m \in Nat
  BY <1>1, ProcessDataAssumption DEF ProcessDataAssumption
<1>3. ASSUME NEW k \in 1 .. m PROVE items[k] \in Mappable /\ items[k] \in Entries
  <2>1. items[k] \in [adi : MapAdis, elements : 0 .. 2] /\ Known(items[k])
    BY <1>1
  <2>2. /\ items[k] = [adi |-> items[k].adi, elements |-> items[k].elements]
        /\ items[k].adi \in Adi /\ items[k].elements \in 0 .. 1
    BY <2>1 DEF Known
  <2>3. items[k].adi \in Nat
    BY <2>2, Instances
  <2>4. items[k].elements \in Nat
    BY <2>2
  <2> QED BY <2>2, <2>3, <2>4 DEF Mappable, Entries
<1> QED BY <1>1, <1>2, <1>3

(* A remap: the map becomes the layout the module is about to use.          *)
LEMMA MapsRemapped ==
  ASSUME MapsRight, Inserts = FALSE, NEW start, NEW remove, NEW items,
         RemapAsked(start, remove, items)
  PROVE  /\ MapsRight'
         /\ newLayout'.area = remapArea
         /\ newLayout'.size = NewSize(remapArea, start, remove, items)
<1> DEFINE area == remapArea
           add  == Len(items)
           n    == iNbrMaps[area]
           l    == layout[area]
           new  == Splice(l, start, remove, items)
           made == Put(Moved(psMaps[area], n, start, remove, add), start, items)
<1>1. /\ newLayout = None /\ start \in Nat /\ remove \in Nat /\ items \in Items
      /\ start + remove <= n
      /\ \A k \in DOMAIN items : Known(items[k])
      /\ Asks(area, start, remove, items)
      /\ Accepted(area, start, remove, items)
  BY DEF RemapAsked
<1>2. /\ area \in Area /\ n \in 0 .. NUMBER_OF_INSTANCES /\ psMaps[area] \in Maps
      /\ pdSize[area] \in Nat /\ l \in Layouts
  BY DEF MapsRight, MapsTyped
<1>3. /\ NUMBER_OF_INSTANCES = 5 /\ MaxItems <= 5 /\ MaxItems \in Nat
      /\ n - remove + add <= MaxItems
      /\ add > remove => start + remove = n
  BY <1>1, ProcessDataAssumption DEF NUMBER_OF_INSTANCES, Asks, ProcessDataAssumption
<1>4. items \in Seq(Mappable) /\ items \in Seq(Entries) /\ add \in Nat
  <2>1. items \in Seq(Mappable) /\ items \in Seq(Entries)
    BY <1>1, KnownItems
  <2> QED BY <2>1
<1>5. /\ Mapped(area) = l /\ pdSize[area] = Bytes(l) /\ l \in Seq(Mappable)
      /\ Len(l) = n /\ SubSeq(psMaps[area], 1, n) = l
  <2>1. Agreed(area) = l
    BY <1>1, <1>2 DEF Agreed, None, Area
  <2>2. Mapped(area) = l /\ pdSize[area] = Bytes(l)
    BY <1>2, <2>1 DEF MapsRight, MapsAgree
  <2>3. l \in Seq(Mappable)
    BY <1>2 DEF Layouts
  <2>4. SubSeq(psMaps[area], 1, n) = l
    BY <2>2 DEF Mapped
  <2>5. psMaps[area] \in Seq(Entries) /\ Len(psMaps[area]) = 5
    BY <1>2, MapSeq
  <2>6. Len(SubSeq(psMaps[area], 1, n)) = n
    BY <1>2, <1>3, <2>5
  <2> QED BY <2>2, <2>3, <2>4, <2>6
<1> HIDE DEF l
<1>6. SubSeq(made, 1, n + add - remove) = new
  <2> DEFINE map == psMaps[area]
  <2>1. map \in [1 .. NUMBER_OF_INSTANCES -> Entries]
    BY <1>2 DEF Maps
  <2> HIDE DEF map, n
  <2>2. /\ n - remove + Len(items) <= NUMBER_OF_INSTANCES
        /\ Len(items) > remove => start + remove = n
    BY <1>1, <1>2, <1>3, <1>4
  <2>3. SubSeq(Put(Moved(map, n, start, remove, Len(items)), start, items),
               1, n + Len(items) - remove)
          = Splice(SubSeq(map, 1, n), start, remove, items)
    BY <1>1, <1>2, <1>4, <2>1, <2>2, MapIsSpliced
  <2> QED BY <1>5, <2>3 DEF map, n
<1>7. made \in Maps
  BY <1>1, <1>2, <1>4, MadeType
<1>8. /\ new \in Seq(Mappable) /\ Len(new) = n - remove + add
      /\ Bytes(new) = Bytes(l) - Bytes(SubSeq(l, start + 1, start + remove)) + Bytes(items)
  <2>1. Removable(l, start, remove)
    BY <1>1, <1>5 DEF Removable
  <2> HIDE DEF new
  <2>2. IsSplice(Splice(l, start, remove, items), l, start, remove, items)
    BY <1>4, <1>5, <2>1, SplicedBytes
  <2> QED BY <1>5, <2>2 DEF IsSplice, new
<1>9. SubSeq(psMaps[area], start + 1, start + remove) = SubSeq(l, start + 1, start + remove)
  <2> DEFINE map == psMaps[area]
  <2>1. map \in [1 .. NUMBER_OF_INSTANCES -> Entries]
    BY <1>2 DEF Maps
  <2> HIDE DEF map, n
  <2>2. SubSeq(map, start + 1, start + remove)
          = SubSeq(SubSeq(map, 1, n), start + 1, start + remove)
    BY <1>1, <1>2, <2>1, SameRemoved
  <2> QED BY <1>5, <2>2 DEF map, n
<1>10. NewSize(area, start, remove, items) = Bytes(new) /\ Bytes(new) \in Nat
  <2>1. NewSize(area, start, remove, items) = Bytes(new)
    BY <1>5, <1>8, <1>9 DEF NewSize
  <2> QED BY <1>8, <2>1, BytesType
<1>11. new \in Layouts
  BY <1>1, <1>2, <1>3, <1>4, <1>8 DEF Layouts
<1> HIDE DEF made, new
<1>12. /\ psMaps' = [psMaps EXCEPT ![area] = made]
       /\ iNbrMaps' = [iNbrMaps EXCEPT ![area] = n + add - remove]
       /\ pdSize' = [pdSize EXCEPT ![area] = Bytes(new)]
       /\ fRemapping' = [fRemapping EXCEPT ![area] = TRUE]
       /\ newLayout'.area = area /\ newLayout'.items = new /\ newLayout'.size = Bytes(new)
       /\ newLayout' = [area |-> area, size |-> Bytes(new), items |-> new]
       /\ UNCHANGED <<iPdLength, layout, remapArea>>
  <2>1. /\ psMaps' = [psMaps EXCEPT ![area] = made]
        /\ iNbrMaps' = [iNbrMaps EXCEPT ![area] = n + add - remove]
        /\ pdSize' = [pdSize EXCEPT ![area] = Bytes(new)]
        /\ fRemapping' = [fRemapping EXCEPT ![area] = TRUE]
        /\ newLayout' = [area |-> area, size |-> pdSize'[area], items |-> new]
        /\ UNCHANGED <<iPdLength, layout, remapArea>>
    BY <1>1, <1>10 DEF Accepted, RemapProcessData, made, new, l
  <2>2. pdSize'[area] = Bytes(new)
    BY <1>2, <2>1 DEF MapsRight, MapsTyped
  <2> QED BY <2>1, <2>2
<1>13. n + add - remove \in 0 .. NUMBER_OF_INSTANCES
  <2> HIDE DEF n, add
  <2> QED BY <1>1, <1>2, <1>3, <1>4
<1>14. MapsTyped'
  <2>1. MapsTyped
    BY DEF MapsRight
  <2>2. newLayout' \in [area : Area \cup {"none"}, items : Layouts, size : Nat]
    BY <1>2, <1>10, <1>11, <1>12
  <2> HIDE DEF area, n, add
  <2> QED BY <1>2, <1>7, <1>10, <1>12, <1>13, <2>1, <2>2 DEF MapsTyped
<1>15. MapsAgree'
  <2>1. ASSUME NEW a \in Area
        PROVE  /\ Mapped(a)' = Agreed(a)' /\ pdSize'[a] = Bytes(Agreed(a)')
               /\ iPdLength'[a] = Bytes(layout'[a])
               /\ fRemapping'[a] = (newLayout'.area = a)
    <3>0. /\ Mapped(a) = Agreed(a) /\ pdSize[a] = Bytes(Agreed(a))
          /\ iPdLength[a] = Bytes(layout[a]) /\ fRemapping[a] = (newLayout.area = a)
      BY DEF MapsRight, MapsAgree
    <3>1. CASE a = area
      <4>1. Agreed(a)' = new
        BY <1>12, <3>1 DEF Agreed
      <4>2. Mapped(a)' = SubSeq(psMaps'[a], 1, iNbrMaps'[a])
        BY DEF Mapped
      <4>3. /\ psMaps'[a] = made /\ iNbrMaps'[a] = n + add - remove /\ pdSize'[a] = Bytes(new)
            /\ fRemapping'[a] = TRUE
        BY <1>2, <1>12, <3>1 DEF MapsRight, MapsTyped
      <4> QED BY <1>6, <1>12, <3>0, <3>1, <4>1, <4>2, <4>3
    <3>2. CASE a # area
      <4>1. Agreed(a)' = layout[a] /\ Agreed(a) = layout[a] /\ newLayout.area # a
        BY <1>1, <1>12, <3>2 DEF Agreed, None, Area
      <4>2. psMaps'[a] = psMaps[a] /\ iNbrMaps'[a] = iNbrMaps[a] /\ pdSize'[a] = pdSize[a]
            /\ fRemapping'[a] = fRemapping[a]
        BY <1>12, <3>2 DEF MapsRight, MapsTyped
      <4>3. Mapped(a)' = Mapped(a)
        BY <4>2 DEF Mapped
      <4> QED BY <1>12, <3>0, <3>2, <4>1, <4>2, <4>3
    <3> QED BY <3>1, <3>2
  <2> QED BY <2>1 DEF MapsAgree
<1>16. Announced'
  <2>1. pdSize'[area] = Bytes(new)
    BY <1>2, <1>12 DEF MapsRight, MapsTyped
  <2> QED BY <1>12, <2>1 DEF Announced
<1> QED BY <1>10, <1>12, <1>14, <1>15, <1>16 DEF MapsRight

(* The switch: the layout is the map's.                                     *)
LEMMA MapsSwitched ==
  ASSUME MapsRight, LayoutSwitched
  PROVE  MapsRight'
<1> DEFINE area == newLayout.area
<1>1. newLayout # None /\ newLayout \in [area : Area \cup {"none"}, items : Layouts, size : Nat]
  BY DEF MapsRight, MapsTyped, LayoutSwitched
<1>2. /\ newLayout' = None
      /\ iPdLength' = [iPdLength EXCEPT ![area] = newLayout.size]
      /\ fRemapping' = [fRemapping EXCEPT ![area] = FALSE]
      /\ layout' = [layout EXCEPT ![area] = newLayout.items]
      /\ UNCHANGED <<psMaps, iNbrMaps, pdSize, remapArea>>
  BY DEF LayoutSwitched, appd
<1>3. /\ None \in [area : Area \cup {"none"}, items : Layouts, size : Nat]
      /\ None.area = "none"
  BY DEF None, Layouts, NUMBER_OF_INSTANCES
<1>4. newLayout.items \in Layouts /\ newLayout.size \in Nat
  BY <1>1
<1>5. MapsTyped'
  BY <1>2, <1>3, <1>4 DEF MapsRight, MapsTyped
<1>6. ASSUME NEW a \in Area
      PROVE  /\ Mapped(a)' = Agreed(a)' /\ pdSize'[a] = Bytes(Agreed(a)')
             /\ iPdLength'[a] = Bytes(layout'[a])
             /\ fRemapping'[a] = (newLayout'.area = a)
  <2>0. /\ Mapped(a) = Agreed(a) /\ pdSize[a] = Bytes(Agreed(a))
        /\ iPdLength[a] = Bytes(layout[a]) /\ fRemapping[a] = (newLayout.area = a)
    BY DEF MapsRight, MapsAgree
  <2>1. Mapped(a)' = Mapped(a) /\ Agreed(a)' = layout'[a] /\ newLayout'.area # a
    BY <1>2, <1>3 DEF Mapped, Agreed, Area
  <2>2. CASE a = area
    <3>1. Agreed(a) = newLayout.items /\ newLayout.size = pdSize[a]
      BY <2>2 DEF Agreed, MapsRight, Announced
    <3>2. iPdLength'[a] = newLayout.size /\ fRemapping'[a] = FALSE
          /\ layout'[a] = newLayout.items
      BY <1>2, <2>2 DEF MapsRight, MapsTyped
    <3> QED BY <1>2, <2>0, <2>1, <3>1, <3>2
  <2>3. CASE a # area
    <3>1. Agreed(a) = layout[a]
      BY <2>3 DEF Agreed
    <3>2. iPdLength'[a] = iPdLength[a] /\ fRemapping'[a] = fRemapping[a]
          /\ layout'[a] = layout[a]
      BY <1>2, <2>3 DEF MapsRight, MapsTyped
    <3> QED BY <1>2, <2>0, <2>1, <2>3, <3>1, <3>2
  <2> QED BY <2>2, <2>3
<1>7. MapsAgree'
  BY <1>6 DEF MapsAgree
<1>8. Announced'
  BY <1>2, <1>3 DEF Announced, Area
<1> QED BY <1>5, <1>7, <1>8 DEF MapsRight

(* The maps of the set-up.                                                  *)
LEMMA MapsInit ==
  ASSUME Init
  PROVE  MapsRight
<1> DEFINE r == InitialMaps["read"]
           w == InitialMaps["write"]
<1>1. /\ InitialMaps = [read |-> r, write |-> w]
      /\ r = <<Item(3), Item(4)>> /\ w = <<Item(1)>>
  BY DEF InitialMaps
<1>2. /\ Item(3) \in Mappable /\ Item(4) \in Mappable /\ Item(1) \in Mappable
      /\ Item(3) \in Entries /\ Item(4) \in Entries /\ Item(1) \in Entries
      /\ Unused \in Entries
  BY Instances DEF Item, Mappable, Entries, Unused
<1>3. /\ r \in Seq(Mappable) /\ Len(r) = 2 /\ w \in Seq(Mappable) /\ Len(w) = 1
      /\ r[1] = Item(3) /\ r[2] = Item(4) /\ w[1] = Item(1)
  BY <1>1, <1>2
<1> HIDE DEF r, w
<1>4. ASSUME NEW a \in Area
      PROVE  /\ InitialMaps[a] \in Seq(Mappable) /\ Len(InitialMaps[a]) \in 1 .. 2
             /\ \A i \in 1 .. Len(InitialMaps[a]) : InitialMaps[a][i] \in Entries
  <2>1. CASE a = "read"
    <3>1. InitialMaps[a] = r
      BY <1>1, <2>1
    <3>2. ASSUME NEW i \in 1 .. Len(r) PROVE r[i] \in Entries
      <4>1. i = 1 \/ i = 2
        BY <1>3
      <4> QED BY <1>2, <1>3, <4>1
    <3>3. Len(InitialMaps[a]) \in 1 .. 2
      BY <1>3, <3>1
    <3> QED BY <1>3, <3>1, <3>2, <3>3
  <2>2. CASE a = "write"
    <3>1. InitialMaps[a] = w
      BY <1>1, <2>2
    <3>2. ASSUME NEW i \in 1 .. Len(w) PROVE w[i] \in Entries
      <4>1. i = 1
        BY <1>3
      <4> QED BY <1>2, <1>3, <4>1
    <3>3. Len(InitialMaps[a]) \in 1 .. 2
      BY <1>3, <3>1
    <3> QED BY <1>3, <3>1, <3>2, <3>3
  <2> QED BY <2>1, <2>2 DEF Area
<1>5. ASSUME NEW a \in Area
      PROVE  /\ Array(InitialMaps[a]) \in Maps
             /\ SubSeq(Array(InitialMaps[a]), 1, Len(InitialMaps[a])) = InitialMaps[a]
  <2> DEFINE q == InitialMaps[a]
             map == Array(q)
  <2>1. q \in Seq(Mappable) /\ Len(q) \in 1 .. 2 /\ \A i \in 1 .. Len(q) : q[i] \in Entries
    BY <1>4
  <2> HIDE DEF q
  <2>2. /\ DOMAIN map = 1 .. 5 /\ map \in Maps
        /\ \A i \in 1 .. 5 : map[i] = IF i <= Len(q) THEN q[i] ELSE Unused
    BY <1>2, <2>1 DEF Array, Maps, NUMBER_OF_INSTANCES
  <2> HIDE DEF map
  <2>3. map \in Seq(Entries) /\ Len(map) = 5
    BY <2>2, MapSeq
  <2>4. SubSeq(map, 1, Len(q)) = [i \in 1 .. Len(q) |-> map[i]]
    BY <2>1, <2>3
  <2>5. q = [i \in 1 .. Len(q) |-> q[i]]
    BY <2>1
  <2>6. \A i \in 1 .. Len(q) : map[i] = q[i]
    BY <2>1, <2>2
  <2>7. SubSeq(map, 1, Len(q)) = q
    BY <2>4, <2>5, <2>6
  <2> QED BY <2>2, <2>7 DEF map, q
<1>6. \A a \in Area : Bytes(InitialMaps[a]) \in Nat
  BY <1>4, BytesType
<1>7. /\ psMaps = [a \in Area |-> Array(InitialMaps[a])]
      /\ iNbrMaps = [a \in Area |-> Len(InitialMaps[a])]
      /\ pdSize = [a \in Area |-> Bytes(InitialMaps[a])]
      /\ iPdLength = pdSize
      /\ fRemapping = [a \in Area |-> FALSE]
      /\ layout = InitialMaps /\ newLayout = None /\ remapArea \in Area
  BY DEF Init
<1>8. /\ None \in [area : Area \cup {"none"}, items : Layouts, size : Nat]
      /\ None.area = "none"
  BY DEF None, Layouts, NUMBER_OF_INSTANCES
<1>9. layout \in [Area -> Layouts]
  <2>1. layout = [read |-> r, write |-> w]
    BY <1>1, <1>7
  <2>2. r \in Layouts /\ w \in Layouts
    <3>1. Len(r) <= 5 /\ Len(w) <= 5
      BY <1>3
    <3> QED BY <1>3, <3>1 DEF Layouts, NUMBER_OF_INSTANCES
  <2> QED BY <2>1, <2>2 DEF Area
<1>10. MapsTyped
  BY <1>4, <1>5, <1>6, <1>7, <1>8, <1>9 DEF MapsTyped, NUMBER_OF_INSTANCES
<1>11. ASSUME NEW a \in Area
       PROVE  /\ Mapped(a) = Agreed(a) /\ pdSize[a] = Bytes(Agreed(a))
              /\ iPdLength[a] = Bytes(layout[a]) /\ fRemapping[a] = (newLayout.area = a)
  <2>1. Agreed(a) = InitialMaps[a] /\ newLayout.area # a
    BY <1>7, <1>8 DEF Agreed, Area
  <2>2. Mapped(a) = InitialMaps[a]
    BY <1>5, <1>7 DEF Mapped
  <2> QED BY <1>7, <2>1, <2>2
<1>12. MapsAgree
  BY <1>11 DEF MapsAgree
<1>13. Announced
  BY <1>7, <1>8 DEF Announced, Area
<1> QED BY <1>10, <1>12, <1>13 DEF MapsRight

(* A step leaves the maps alone, remaps one or switches a layout.           *)
LEMMA MapSteps ==
  ASSUME [Next]_vars
  PROVE  \/ UNCHANGED <<mapVars, value, pdBuffer, fNewWritePdAvailable, txPd, spd, published>>
         \/ TestSuiteJob /\ UNCHANGED mapVars
         \/ SendTelegram /\ UNCHANGED mapVars
         \/ AnswerReceived /\ UNCHANGED mapVars
         \/ SetValue /\ UNCHANGED mapVars
         \/ \E start, remove, items : RemapAsked(start, remove, items)
         \/ LayoutSwitched
<1>1. CASE TestSuiteJob
  BY <1>1 DEF TestSuiteJob, mapVars, appd, module
<1>2. CASE SendTelegram
  BY <1>2 DEF SendTelegram, mapVars, appd, module
<1>3. CASE AnswerReceived
  BY <1>3 DEF AnswerReceived, mapVars, appd, module
<1>4. CASE SetValue
  BY <1>4 DEF SetValue, mapVars, appd, aplink, module
<1>5. CASE RemapCommand
  <2>1. PICK start \in 0 .. iNbrMaps[remapArea] + 1, remove \in 0 .. iNbrMaps[remapArea] + 1,
             items \in Items :
               \E dataSize : appd_RemapProcessDataCommand(remapArea, start, remove, items, dataSize)
    BY <1>5 DEF RemapCommand
  <2>2. PICK dataSize : appd_RemapProcessDataCommand(remapArea, start, remove, items, dataSize)
    BY <2>1
  <2>3. CASE Refused
    BY <2>3 DEF Refused, mapVars, appd, aplink, module
  <2>4. CASE /\ Acceptable(remapArea, start, remove, items, dataSize)
             /\ Asks(remapArea, start, remove, items)
             /\ Accepted(remapArea, start, remove, items)
    <3>1. newLayout = None /\ start \in Nat /\ remove \in Nat
      BY <1>5 DEF RemapCommand
    <3>2. start + remove <= iNbrMaps[remapArea] /\ \A k \in DOMAIN items : Known(items[k])
      BY <2>4 DEF Acceptable
    <3>3. RemapAsked(start, remove, items)
      BY <2>4, <3>1, <3>2 DEF RemapAsked
    <3> QED BY <3>3
  <2> QED BY <2>2, <2>3, <2>4 DEF appd_RemapProcessDataCommand
<1>6. CASE LayoutSwitched
  BY <1>6
<1>7. CASE UNCHANGED vars
  BY <1>7 DEF vars, mapVars, appd, aplink, module
<1> QED BY <1>1, <1>2, <1>3, <1>4, <1>5, <1>6, <1>7 DEF Next

(* Every step keeps the maps right.                                         *)
LEMMA MapsStep ==
  ASSUME MapsRight, Inserts = FALSE, [Next]_vars
  PROVE  MapsRight'
<1>1. CASE UNCHANGED mapVars
  BY <1>1, MapsKept
<1>2. CASE \E start, remove, items : RemapAsked(start, remove, items)
  <2>1. PICK start, remove, items : RemapAsked(start, remove, items)
    BY <1>2
  <2> QED BY <2>1, MapsRemapped
<1>3. CASE LayoutSwitched
  BY <1>3, MapsSwitched
<1> QED BY <1>1, <1>2, <1>3, MapSteps

(* As long as the module inserts no items before others, whatever maps it   *)
(* asks for, the map APPD walks is the layout the module has or is about to *)
(* use, and outside a remap the link layer exchanges its bytes              *)
(* (appd.c:1223-1436).                                                      *)
THEOREM MapsAlwaysAgree ==
  ASSUME Inserts = FALSE
  PROVE  Spec => []MapsAgree
<1>1. Init => MapsRight
  BY MapsInit
<1>2. MapsRight /\ [Next]_vars => MapsRight'
  BY MapsStep
<1>3. MapsRight => MapsAgree
  BY DEF MapsRight
<1> QED BY <1>1, <1>2, <1>3, PTL DEF Spec

-----------------------------------------------------------------------------
(* The bytes: the types of the buffers, the objects and the counter.        *)
Buffers == [1 .. PdLen -> Int]

BytesTyped ==
  /\ value \in Values
  /\ pdBuffer \in [Area -> Buffers] /\ txPd \in Buffers
  /\ fNewWritePdAvailable \in BOOLEAN
  /\ spd \in Nat
  /\ published \in Seq(Int)

(* A copy of the first bytes.                                               *)
LEMMA CopiedFirst ==
  ASSUME NEW to \in Buffers, NEW from, NEW n \in 0 .. PdLen, Holds(from, n)
  PROVE  /\ Copied(to, from, n) \in Buffers
         /\ Alike(Copied(to, from, n), from, n)
<1>0. PdLen = 12
  BY DEF PdLen
<1>1. DOMAIN to = 1 .. PdLen /\ \A i \in 1 .. PdLen : to[i] \in Int
  BY DEF Buffers
<1>2. \A i \in 1 .. PdLen : i <= n => from[i] \in Int
  BY <1>0 DEF Holds
<1>3. \A i \in 1 .. n : i \in 1 .. PdLen /\ i <= n
  BY <1>0
<1> QED BY <1>1, <1>2, <1>3 DEF Copied, Buffers, Alike

(* Buffers that are alike on what was copied hold the same afterwards.      *)
LEMMA AlikeLess ==
  ASSUME NEW a, NEW b, NEW n \in Nat, NEW m \in Nat, m <= n, Alike(a, b, n)
  PROVE  Alike(a, b, m)
<1>1. \A i \in 1 .. m : i \in 1 .. n
  OBVIOUS
<1> QED BY <1>1 DEF Alike

(* The bytes of a command's data are numbers.                               *)
LEMMA ByteInt == \A b \in Byte : b \in Int
BY ProcessDataAssumption DEF ProcessDataAssumption

(* A command to an instance.                                                *)
LEMMA SetRight ==
  ASSUME BytesTyped, SetValue
  PROVE  /\ value' \in Values
         /\ \A adi \in Adi : value'[adi] # value[adi] =>
              InRange(adi, value'[adi]) /\ appd_asInstance[adi].set
<1>0. value \in Values
  BY DEF BytesTyped
<1>1. PICK adi \in SetAdis, n \in 1 .. 2 : \E data \in [1 .. n -> Byte] :
        appd_InstanceCommand(adi, data)
  BY DEF SetValue
<1>2. PICK data \in [1 .. n -> Byte] : appd_InstanceCommand(adi, data)
  BY <1>1
<1>3. adi \in Adi
  BY ProcessDataAssumption DEF ProcessDataAssumption
<1>4. CASE appd_asInstance[adi].set /\ Len(data) = Size(adi)
  <2> DEFINE v == Decoded(data, 0, adi)
  <2>1. value' = appd_UpdateAdiVal(value, adi, v)
    BY <1>2, <1>4 DEF appd_InstanceCommand
  <2>2. v \in Int
    <3>1. Len(data) = n
      OBVIOUS
    <3>2. \A i \in 1 .. n : data[i] \in Int
      BY ByteInt
    <3>3. \A i \in 1 .. Size(adi) : data[0 + i] \in Int
      BY <1>4, <3>1, <3>2
    <3> QED BY <1>3, <3>3, DecodedType
  <2> HIDE DEF v
  <2>3. /\ appd_UpdateAdiVal(value, adi, v) \in Values
        /\ \A x \in Adi : appd_UpdateAdiVal(value, adi, v)[x] =
                            IF x = adi /\ InRange(adi, v) THEN v ELSE value[x]
    BY <1>0, <1>3, <2>2, Updated
  <2> QED BY <1>4, <2>1, <2>3
<1>5. CASE ~(appd_asInstance[adi].set /\ Len(data) = Size(adi))
  BY <1>0, <1>2, <1>5 DEF appd_InstanceCommand
<1> QED BY <1>4, <1>5

(* An answer: its bytes go into the buffer as long as the read layout       *)
(* stays, and those that are handed up reach their objects.                 *)
LEMMA AnswerRight ==
  ASSUME MapsRight, BytesTyped, AnswerReceived
  PROVE  /\ value' \in Values
         /\ pdBuffer' \in [Area -> Buffers] /\ pdBuffer'["write"] = pdBuffer["write"]
         /\ UNCHANGED <<txPd, fNewWritePdAvailable, spd, published>>
         /\ \/ value' = value /\ given' = <<>>
            \/ Restless = TRUE
            \/ HandsRight(layout["read"], given', value')
<1> DEFINE n == iPdLength["read"]
           q == Mapped("read")
           old == pdBuffer["read"]
<1>0. "read" \in Area /\ "write" \in Area
  BY DEF Area
<1>1. /\ q \in Seq(Mappable) /\ Bytes(q) \in 0 .. PdLen - 2
      /\ n = Bytes(layout["read"]) /\ n \in 0 .. PdLen - 2
      /\ fRemapping["read"] \in BOOLEAN
      /\ ~fRemapping["read"] => q = layout["read"]
  BY <1>0, MapFacts
<1>2. /\ pdBuffer \in [Area -> Buffers] /\ value \in Values /\ old \in Buffers /\ PdLen = 12
  BY <1>0 DEF BytesTyped, PdLen
<1>3. PICK bytes \in [1 .. Bytes(layout["read"]) -> Byte],
           state \in {"PROCESS_ACTIVE", "WAIT_PROCESS"} :
             /\ ~Restless /\ fRemapping["read"] => state = ABCC_eAbccState
             /\ PutProcessData(bytes, state)
             /\ given' = IF HandsUp(bytes, state) THEN bytes ELSE <<>>
  BY DEF AnswerReceived
<1>4. UNCHANGED <<txPd, fNewWritePdAvailable, spd, published>>
  BY DEF AnswerReceived
<1> HIDE DEF q, n
<1>5. Holds(bytes, n)
  BY <1>1, <1>3, ByteInt DEF Holds
<1> DEFINE new == ReadBuffer(bytes)
<1>6. /\ new \in Buffers
      /\ ~fRemapping["read"] => Alike(new, bytes, n)
      /\ fRemapping["read"] => new = old
  <2>1. n \in 0 .. PdLen
    BY <1>1, <1>2
  <2>2. Copied(old, bytes, n) \in Buffers /\ Alike(Copied(old, bytes, n), bytes, n)
    BY <1>2, <1>5, <2>1, CopiedFirst
  <2> QED BY <1>1, <1>2, <2>2 DEF ReadBuffer, n
<1>7. pdBuffer' = [pdBuffer EXCEPT !["read"] = new]
  BY <1>3 DEF PutProcessData
<1> HIDE DEF new
<1>8. /\ pdBuffer' \in [Area -> Buffers] /\ pdBuffer'["write"] = pdBuffer["write"]
      /\ pdBuffer'["read"] = new
  BY <1>0, <1>2, <1>6, <1>7
<1>9. CASE ~HandsUp(bytes, state)
  <2>1. value' = value /\ given' = <<>>
    BY <1>3, <1>9 DEF PutProcessData
  <2> QED BY <1>2, <1>4, <1>8, <2>1
<1>10. CASE HandsUp(bytes, state)
  <2>1. PICK junk \in Byte :
          value' = NewReadProcessData(q, [i \in 1 .. PdLen |->
                                            IF i <= n THEN pdBuffer'["read"][i] ELSE junk])
    BY <1>3, <1>10 DEF PutProcessData, q, n
  <2> DEFINE buf == [i \in 1 .. PdLen |-> IF i <= n THEN new[i] ELSE junk]
  <2>2. value' = NewReadProcessData(q, buf)
    BY <1>8, <2>1
  <2>3. \A i \in 1 .. PdLen : buf[i] \in Int
    BY <1>6, ByteInt DEF Buffers
  <2>4. Holds(buf, Bytes(q)) /\ Alike(buf, buf, Bytes(q))
    <3>1. \A i \in 1 .. Bytes(q) : i \in 1 .. PdLen
      BY <1>1, <1>2
    <3> QED BY <2>3, <3>1 DEF Holds, Alike
  <2>5. \A i \in 1 .. n : buf[i] = new[i]
    BY <1>1, <1>2
  <2> HIDE DEF buf
  <2>6. value' \in Values
    <3>1. NewReadProcessData(q, buf) \in Values
      BY <1>1, <1>2, <2>4, ReadRight
    <3> QED BY <2>2, <3>1
  <2>7. Restless = FALSE => HandsRight(layout["read"], given', value')
    <3> SUFFICES ASSUME Restless = FALSE PROVE HandsRight(layout["read"], given', value')
      OBVIOUS
    <3>1. ~fRemapping["read"]
      <4>1. SUFFICES ASSUME fRemapping["read"] PROVE FALSE
        OBVIOUS
      <4>2. state = ABCC_eAbccState /\ ReadBuffer(bytes) = pdBuffer["read"]
        BY <1>3, <1>6, <4>1 DEF new
      <4> QED BY <1>10, <4>2 DEF HandsUp
    <3>2. q = layout["read"] /\ Alike(buf, bytes, Bytes(q))
      BY <1>1, <1>6, <2>5, <3>1 DEF Alike
    <3>3. HandsRight(q, bytes, NewReadProcessData(q, buf))
      BY <1>1, <1>2, <2>4, <3>2, ReadRight
    <3>4. given' = bytes
      BY <1>3, <1>10
    <3> QED BY <2>2, <3>2, <3>3, <3>4
  <2>8. Restless \in BOOLEAN
    BY ProcessDataAssumption DEF ProcessDataAssumption
  <2> QED BY <1>4, <1>8, <2>6, <2>7, <2>8
<1> QED BY <1>9, <1>10

(* The test job: what is published is what the link layer holds, outside a  *)
(* switch of the write layout, and it is signalled unless it held it.       *)
LEMMA TestRight ==
  ASSUME MapsRight, BytesTyped, TestSuiteJob
  PROVE  /\ value' \in Values /\ spd' = spd + 1
         /\ pdBuffer' \in [Area -> Buffers] /\ published' \in Seq(Int)
         /\ UNCHANGED <<txPd, iPdLength, fRemapping>>
         /\ fNewWritePdAvailable' = TRUE
            \/ UNCHANGED <<pdBuffer, fNewWritePdAvailable>>
         /\ ~fRemapping["write"] =>
              /\ Len(published') = iPdLength["write"]
              /\ Alike(pdBuffer'["write"], published', iPdLength["write"])
<1> DEFINE n == iPdLength["write"]
           q == Mapped("write")
           old == pdBuffer["write"]
           val == value'
           packed == Packed(q, val)
<1>0. "read" \in Area /\ "write" \in Area
  BY DEF Area
<1>1. /\ q \in Seq(Mappable) /\ Bytes(q) \in 0 .. PdLen - 2
      /\ n = Bytes(layout["write"]) /\ n \in 0 .. PdLen - 2
      /\ ~fRemapping["write"] => q = layout["write"]
  BY <1>0, MapFacts
<1>2. /\ pdBuffer \in [Area -> Buffers] /\ value \in Values /\ old \in Buffers /\ PdLen = 12
      /\ spd \in Nat
  BY <1>0 DEF BytesTyped, PdLen
<1>3. /\ spd' = spd + 1 /\ val = [value EXCEPT ![3] = spd] /\ ProcessDataChanged(val)
      /\ UNCHANGED <<txPd, iPdLength, fRemapping>>
  BY DEF TestSuiteJob
<1>4. val \in Values
  <2>0. value \in [Adi -> Int] /\ spd \in Int
    BY <1>2 DEF Values
  <2>1. [value EXCEPT ![3] = spd] \in [Adi -> Int]
    BY <2>0
  <2> QED BY <1>3, <2>1 DEF Values
<1>5. PICK junk \in Byte :
        LET abData == [i \in 1 .. PdLen |-> IF i <= Len(packed) THEN packed[i] ELSE junk]
        IN  /\ IF Differs(old, abData, n)
               THEN /\ pdBuffer' = [pdBuffer EXCEPT !["write"] = Copied(@, abData, n)]
                    /\ fNewWritePdAvailable' = TRUE
               ELSE UNCHANGED <<pdBuffer, fNewWritePdAvailable>>
            /\ published' = packed
  BY <1>3 DEF ProcessDataChanged
<1> HIDE DEF q, n, val
<1>6. packed \in Seq(Int) /\ Len(packed) = Bytes(q)
  BY <1>1, <1>4, PackedType
<1> DEFINE abData == [i \in 1 .. PdLen |-> IF i <= Len(packed) THEN packed[i] ELSE junk]
<1> HIDE DEF packed
<1>7. /\ \A i \in 1 .. PdLen : abData[i] \in Int
      /\ \A i \in 1 .. PdLen : i <= Len(packed) => abData[i] = packed[i]
  BY <1>6, ByteInt
<1>8. /\ IF Differs(old, abData, n)
         THEN /\ pdBuffer' = [pdBuffer EXCEPT !["write"] = Copied(old, abData, n)]
              /\ fNewWritePdAvailable' = TRUE
         ELSE UNCHANGED <<pdBuffer, fNewWritePdAvailable>>
      /\ published' = packed
  BY <1>5
<1> HIDE DEF abData
<1>9. \A i \in 1 .. n : i \in 1 .. PdLen
  BY <1>1, <1>2
<1>10. /\ pdBuffer' \in [Area -> Buffers] /\ Alike(pdBuffer'["write"], abData, n)
       /\ fNewWritePdAvailable' = TRUE \/ UNCHANGED <<pdBuffer, fNewWritePdAvailable>>
  <2>1. CASE Differs(old, abData, n)
    <3>1. Holds(abData, n)
      BY <1>7, <1>9 DEF Holds
    <3>3. n \in 0 .. PdLen
      BY <1>1, <1>2
    <3>2. Copied(old, abData, n) \in Buffers /\ Alike(Copied(old, abData, n), abData, n)
      BY <1>2, <3>1, <3>3, CopiedFirst
    <3> QED BY <1>0, <1>2, <1>8, <2>1, <3>2
  <2>2. CASE ~Differs(old, abData, n)
    <3>1. Alike(old, abData, n)
      BY <2>2 DEF Differs, Alike
    <3> QED BY <1>2, <1>8, <2>2, <3>1
  <2> QED BY <2>1, <2>2
<1>11. ASSUME ~fRemapping["write"]
       PROVE  Len(packed) = n /\ Alike(pdBuffer'["write"], packed, n)
  <2>1. Len(packed) = n
    BY <1>1, <1>6, <1>11
  <2>2. \A i \in 1 .. n : abData[i] = packed[i]
    BY <1>7, <1>9, <2>1, <1>1
  <2> QED BY <1>10, <2>1, <2>2 DEF Alike
<1> QED BY <1>3, <1>4, <1>6, <1>8, <1>10, <1>11 DEF n, val

(* A telegram carries what the link layer holds when it fetches it, and     *)
(* what the transmission buffer holds otherwise.                            *)
LEMMA TelegramRight ==
  ASSUME MapsRight, BytesTyped
  PROVE  /\ Telegram \in Buffers
         /\ Fetches => Alike(Telegram, pdBuffer["write"], iPdLength["write"])
         /\ ~Fetches => Alike(Telegram, txPd, iPdLength["write"])
<1> DEFINE n == iPdLength["write"]
           new == pdBuffer["write"]
           pd == IF Fetches THEN Copied(txPd, new, n) ELSE txPd
<1>0. "write" \in Area
  BY DEF Area
<1>1. n \in 0 .. PdLen - 2
  BY <1>0, MapFacts
<1>2. new \in Buffers /\ txPd \in Buffers /\ PdLen = 12
  BY <1>0 DEF BytesTyped, PdLen
<1>3. Telegram = WithCrc(pd, n)
  BY DEF Telegram
<1> HIDE DEF n, new
<1>4. Copied(txPd, new, n) \in Buffers /\ Alike(Copied(txPd, new, n), new, n)
  <2>1. Holds(new, n) /\ n \in 0 .. PdLen
    BY <1>1, <1>2 DEF Holds, Buffers
  <2> QED BY <1>2, <2>1, CopiedFirst
<1>5. pd \in Buffers
  BY <1>2, <1>4
<1>6. (Fetches => Alike(pd, new, n)) /\ (~Fetches => Alike(pd, txPd, n))
  BY <1>4 DEF Alike
<1> HIDE DEF pd
<1>7. WithCrc(pd, n) \in Buffers /\ Alike(WithCrc(pd, n), pd, n)
  <2>1. DOMAIN pd = 1 .. PdLen /\ \A i \in 1 .. PdLen : pd[i] \in Int
    BY <1>5 DEF Buffers
  <2>2. CrcByte \in Int
    BY DEF CrcByte
  <2>3. \A i \in 1 .. n : i \in 1 .. PdLen /\ i \notin {n + 1, n + 2}
    BY <1>1, <1>2
  <2> QED BY <2>1, <2>2, <2>3 DEF WithCrc, Buffers, Alike
<1>8. (Fetches => Alike(Telegram, new, n)) /\ (~Fetches => Alike(Telegram, txPd, n))
  BY <1>3, <1>6, <1>7 DEF Alike
<1> QED BY <1>3, <1>7, <1>8 DEF n, new

(* The types of the bytes in every step.                                    *)
LEMMA BytesStep ==
  ASSUME MapsRight, BytesTyped, [Next]_vars
  PROVE  BytesTyped'
<1>1. CASE UNCHANGED <<mapVars, value, pdBuffer, fNewWritePdAvailable, txPd, spd, published>>
  BY <1>1 DEF BytesTyped
<1>2. CASE TestSuiteJob
  <2>1. spd' \in Nat
    <3>1. spd' = spd + 1
      BY <1>2, TestRight
    <3> QED BY <3>1 DEF BytesTyped
  <2>2. fNewWritePdAvailable' = TRUE \/ fNewWritePdAvailable' = fNewWritePdAvailable
    BY <1>2, TestRight
  <2>3. fNewWritePdAvailable' \in BOOLEAN
    BY <2>2 DEF BytesTyped
  <2> QED BY <1>2, <2>1, <2>3, TestRight DEF BytesTyped
<1>3. CASE SendTelegram
  <2>1. fNewWritePdAvailable' \in BOOLEAN
    BY <1>3 DEF SendTelegram
  <2> QED BY <1>3, <2>1, TelegramRight DEF BytesTyped, SendTelegram
<1>4. CASE AnswerReceived
  BY <1>4, AnswerRight DEF BytesTyped
<1>5. CASE SetValue
  BY <1>5, SetRight DEF BytesTyped, SetValue, aplink
<1>6. CASE \E start, remove, items : RemapAsked(start, remove, items)
  BY <1>6 DEF BytesTyped, RemapAsked, Accepted
<1>7. CASE LayoutSwitched
  <2>1. NotYet \in Seq(Int)
    BY DEF NotYet
  <2> QED BY <1>7, <2>1 DEF BytesTyped, LayoutSwitched
<1> QED BY <1>1, <1>2, <1>3, <1>4, <1>5, <1>6, <1>7, MapSteps

(* The bytes of the set-up.                                                 *)
LEMMA BytesInit ==
  ASSUME Init
  PROVE  /\ BytesTyped
         /\ Len(published) = iPdLength["write"]
         /\ Alike(pdBuffer["write"], published, iPdLength["write"])
<1> DEFINE w == InitialMaps["write"]
<1>1. /\ value = <<0, 25, 0, 1, 4>>
      /\ iPdLength = [a \in Area |-> Bytes(InitialMaps[a])]
      /\ pdBuffer = [a \in Area |-> Zeros] /\ fNewWritePdAvailable = TRUE
      /\ txPd = Zeros /\ spd = 0 /\ published = Packed(w, value)
  BY DEF Init
<1>2. w = <<Item(1)>> /\ Item(1) \in Mappable
  BY Instances DEF InitialMaps, Item, Mappable
<1> HIDE DEF w
<1>3. w \in Seq(Mappable) /\ Len(w) = 1 /\ w[1] = Item(1)
  BY <1>2
<1>4. value \in Values /\ value[1] = 0
  BY <1>1, Instances DEF Values
<1>5. Packed(w, value) \in Seq(Int) /\ Len(Packed(w, value)) = Bytes(w)
  BY <1>3, <1>4, PackedType
<1>6. iPdLength["write"] = Bytes(w)
  BY <1>1 DEF Area, w
<1>7. Zeros \in Buffers /\ \A i \in 1 .. PdLen : Zeros[i] = 0
  BY DEF Zeros, Buffers
<1>8. BytesTyped
  BY <1>1, <1>4, <1>5, <1>7 DEF BytesTyped
<1>9. Packed(w, value) = <<0, 0>>
  <2>1. PICK h : Packing(h, w, value)
    BY <1>3, <1>4, PackingExists
  <2>2. h[0] = <<>> /\ h[1] = Pack(h[0], w[1], value) /\ h[1] = Packed(w, value)
    BY <1>3, <2>1 DEF Packing
  <2>3. Pack(<<>>, Item(1), value) = <<>> \o Encoded(1, 0)
    BY <1>4 DEF Pack, Item
  <2>4. Size(1) = 2
    BY DEF Size, appd_asInstance
  <2>5. (0 % 65536) = 0 /\ (0 % 256) = 0 /\ (0 \div 256) = 0
    BY SMT
  <2>6. Encoded(1, 0) = <<0, 0>>
    BY <2>4, <2>5 DEF Encoded
  <2> QED BY <1>3, <2>2, <2>3, <2>6
<1>10. Bytes(w) = 2
  BY <1>5, <1>9
<1>11. Alike(Zeros, <<0, 0>>, 2)
  BY <1>7 DEF Alike, PdLen
<1> QED BY <1>1, <1>5, <1>6, <1>8, <1>9, <1>10, <1>11 DEF Area

-----------------------------------------------------------------------------
(* What was published last is what the link layer holds.                    *)
Taken ==
  ~fRemapping["write"] /\ published # NotYet =>
    /\ Len(published) = iPdLength["write"]
    /\ Alike(pdBuffer["write"], published, iPdLength["write"])

(* Unless it is signalled, the transmission buffer holds it already.        *)
Fetched ==
  ~fNewWritePdAvailable => Alike(txPd, pdBuffer["write"], iPdLength["write"])

(* A new write layout is not longer than the one in use.                    *)
NotLonger ==
  newLayout.area = "write" => newLayout.size <= iPdLength["write"]

SentRight == MapsRight /\ BytesTyped /\ Taken /\ Fetched /\ NotLonger

(* It holds when the set-up is completed.                                   *)
LEMMA SentInit ==
  ASSUME Init
  PROVE  SentRight
<1>1. MapsRight /\ BytesTyped
  BY MapsInit, BytesInit
<1>2. Taken
  BY BytesInit DEF Taken
<1>3. Fetched
  BY DEF Init, Fetched
<1>4. NotLonger
  BY DEF Init, NotLonger, None
<1> QED BY <1>1, <1>2, <1>3, <1>4 DEF SentRight

(* Every step keeps it.                                                     *)
LEMMA SentStep ==
  ASSUME SentRight, Inserts = FALSE, Grows = FALSE, [Next]_vars
  PROVE  SentRight'
<1> DEFINE n == iPdLength["write"]
<1>0. MapsRight /\ BytesTyped /\ Taken /\ Fetched /\ NotLonger /\ "write" \in Area
  BY DEF SentRight, Area
<1>1. MapsRight' /\ BytesTyped'
  BY <1>0, MapsStep, BytesStep
<1>2. n \in 0 .. PdLen - 2 /\ n = Bytes(layout["write"]) /\ PdLen = 12
  BY <1>0, MapFacts DEF PdLen
<1>3. CASE UNCHANGED <<mapVars, value, pdBuffer, fNewWritePdAvailable, txPd, spd, published>>
  <2>1. Taken' /\ Fetched' /\ NotLonger'
    BY <1>0, <1>3 DEF Taken, Fetched, NotLonger, mapVars
  <2> QED BY <1>1, <2>1 DEF SentRight
<1>4. CASE TestSuiteJob /\ UNCHANGED mapVars
  <2>1. Taken'
    BY <1>0, <1>4, TestRight DEF Taken, mapVars
  <2>2. Fetched'
    <3>1. fNewWritePdAvailable' = TRUE \/ UNCHANGED <<pdBuffer, fNewWritePdAvailable>>
      BY <1>0, <1>4, TestRight
    <3>2. UNCHANGED txPd
      BY <1>0, <1>4, TestRight
    <3> QED BY <1>0, <1>4, <3>1, <3>2 DEF Fetched, mapVars
  <2>3. NotLonger'
    BY <1>0, <1>4 DEF NotLonger, mapVars
  <2> QED BY <1>1, <2>1, <2>2, <2>3 DEF SentRight
<1>5. CASE SendTelegram /\ UNCHANGED mapVars
  <2>0. /\ txPd' = Telegram /\ fNewWritePdAvailable' = (fNewWritePdAvailable /\ ~Fetches)
        /\ UNCHANGED <<pdBuffer, published, fRemapping, iPdLength, newLayout>>
    BY <1>5 DEF SendTelegram, mapVars
  <2>1. Taken' /\ NotLonger'
    BY <1>0, <2>0 DEF Taken, NotLonger
  <2>2. Fetched'
    <3>1. CASE Fetches
      BY <1>0, <2>0, <3>1, TelegramRight DEF Fetched
    <3>2. CASE ~Fetches
      <4>1. Alike(Telegram, txPd, n)
        BY <1>0, <3>2, TelegramRight
      <4> QED BY <1>0, <2>0, <3>2, <4>1 DEF Fetched, Alike
    <3> QED BY <3>1, <3>2
  <2> QED BY <1>1, <2>1, <2>2 DEF SentRight
<1>6. CASE AnswerReceived /\ UNCHANGED mapVars
  <2>1. /\ pdBuffer'["write"] = pdBuffer["write"]
        /\ UNCHANGED <<txPd, fNewWritePdAvailable, published>>
    BY <1>0, <1>6, AnswerRight
  <2>2. Taken' /\ Fetched' /\ NotLonger'
    BY <1>0, <1>6, <2>1 DEF Taken, Fetched, NotLonger, mapVars
  <2> QED BY <1>1, <2>2 DEF SentRight
<1>7. CASE SetValue /\ UNCHANGED mapVars
  <2>1. UNCHANGED <<pdBuffer, txPd, fNewWritePdAvailable, published>>
    BY <1>7 DEF SetValue, aplink
  <2>2. Taken' /\ Fetched' /\ NotLonger'
    BY <1>0, <1>7, <2>1 DEF Taken, Fetched, NotLonger, mapVars
  <2> QED BY <1>1, <2>2 DEF SentRight
<1>8. CASE \E start, remove, items : RemapAsked(start, remove, items)
  <2>1. PICK start, remove, items : RemapAsked(start, remove, items)
    BY <1>8
  <2>2. /\ UNCHANGED <<iPdLength, pdBuffer, fNewWritePdAvailable, txPd, published>>
        /\ fRemapping' = [fRemapping EXCEPT ![remapArea] = TRUE]
        /\ Asks(remapArea, start, remove, items) /\ newLayout = None
    BY <2>1 DEF RemapAsked, Accepted
  <2>3. newLayout'.area = remapArea /\ newLayout'.size = NewSize(remapArea, start, remove, items)
    BY <1>0, <2>1, MapsRemapped
  <2>4. fRemapping \in [Area -> BOOLEAN] /\ remapArea \in Area
    BY <1>0 DEF MapsRight, MapsTyped
  <2>5. Taken'
    <3>1. fRemapping["write"] => fRemapping'["write"]
      BY <1>0, <2>2, <2>4
    <3> QED BY <1>0, <2>2, <3>1 DEF Taken
  <2>6. Fetched'
    BY <1>0, <2>2 DEF Fetched
  <2>7. NotLonger'
    <3> SUFFICES ASSUME remapArea = "write" PROVE newLayout'.size <= n
      BY <2>2, <2>3 DEF NotLonger
    <3>1. newLayout'.size <= pdSize["write"]
      BY <2>2, <2>3 DEF Asks
    <3>2. pdSize["write"] = Bytes(layout["write"])
      BY <1>0, <2>2 DEF MapsRight, MapsAgree, Agreed, None
    <3> QED BY <1>2, <3>1, <3>2
  <2> QED BY <1>1, <2>5, <2>6, <2>7 DEF SentRight
<1>9. CASE LayoutSwitched
  <2>1. /\ iPdLength' = [iPdLength EXCEPT ![newLayout.area] = newLayout.size]
        /\ fRemapping' = [fRemapping EXCEPT ![newLayout.area] = FALSE]
        /\ published' = IF newLayout.area = "write" THEN NotYet ELSE published
        /\ newLayout' = None
        /\ UNCHANGED <<pdBuffer, fNewWritePdAvailable, txPd>>
    BY <1>9 DEF LayoutSwitched
  <2>2. /\ fRemapping \in [Area -> BOOLEAN] /\ iPdLength \in [Area -> Nat]
        /\ newLayout.size \in Nat
    BY <1>0 DEF MapsRight, MapsTyped
  <2>3. NotLonger'
    BY <2>1 DEF NotLonger, None
  <2>4. CASE newLayout.area = "write"
    <3>1. Taken'
      BY <2>1, <2>4 DEF Taken
    <3>2. iPdLength'["write"] = newLayout.size /\ newLayout.size <= n
      BY <1>0, <2>1, <2>2, <2>4 DEF NotLonger
    <3>3. Alike(txPd, pdBuffer["write"], n)
            => Alike(txPd, pdBuffer["write"], iPdLength'["write"])
      BY <1>2, <2>2, <3>2, AlikeLess
    <3>4. Fetched'
      BY <1>0, <2>1, <3>3 DEF Fetched
    <3> QED BY <1>1, <2>3, <3>1, <3>4 DEF SentRight
  <2>5. CASE newLayout.area # "write"
    <3>1. iPdLength'["write"] = n /\ fRemapping'["write"] = fRemapping["write"]
      BY <1>0, <2>1, <2>2, <2>5
    <3>2. Taken' /\ Fetched'
      BY <1>0, <2>1, <2>5, <3>1 DEF Taken, Fetched
    <3> QED BY <1>1, <2>3, <3>2 DEF SentRight
  <2> QED BY <2>4, <2>5
<1> QED BY <1>3, <1>4, <1>5, <1>6, <1>7, <1>8, <1>9, MapSteps

(* It is what the next telegram needs.                                      *)
LEMMA SentRightIsSent ==
  ASSUME SentRight
  PROVE  PublishedIsSent
<1> DEFINE n == iPdLength["write"]
<1>0. MapsRight /\ BytesTyped /\ Taken /\ Fetched /\ "write" \in Area
  BY DEF SentRight, Area
<1>1. n \in 0 .. PdLen - 2 /\ PdLen = 12
  BY <1>0, MapFacts DEF PdLen
<1> SUFFICES ASSUME ~fRemapping["write"], published # NotYet
             PROVE  SubSeq(Telegram, 1, n) = published
  BY DEF PublishedIsSent
<1>2. Len(published) = n /\ Alike(pdBuffer["write"], published, n) /\ published \in Seq(Int)
  BY <1>0 DEF Taken, BytesTyped
<1>3. Alike(Telegram, published, n)
  <2>1. CASE Fetches
    BY <1>0, <1>2, <2>1, TelegramRight DEF Alike
  <2>2. CASE ~Fetches /\ n # 0
    <3>1. ~fNewWritePdAvailable
      BY <2>2 DEF Fetches
    <3>2. Alike(txPd, pdBuffer["write"], n)
      BY <1>0, <3>1 DEF Fetched
    <3> QED BY <1>0, <1>2, <2>2, <3>2, TelegramRight DEF Alike
  <2>3. CASE n = 0
    BY <2>3 DEF Alike
  <2> QED BY <2>1, <2>2, <2>3
<1>4. Telegram \in Buffers
  BY <1>0, TelegramRight
<1> HIDE DEF n
<1>5. SubSeq(Telegram, 1, n) = [i \in 1 .. n |-> Telegram[i]]
  BY <1>1, <1>4 DEF Buffers
<1>6. published = [i \in 1 .. n |-> published[i]]
  BY <1>2
<1> QED BY <1>3, <1>5, <1>6 DEF Alike

(* As long as the module inserts no items before others and does not ask    *)
(* for more write process data than it has, a telegram carries what APPD    *)
(* published last (aplink.c:469-531, 828-906).                              *)
THEOREM PublishedAlwaysSent ==
  ASSUME Inserts = FALSE, Grows = FALSE
  PROVE  Spec => []PublishedIsSent
<1>1. Init => SentRight
  BY SentInit
<1>2. SentRight /\ [Next]_vars => SentRight'
  BY SentStep
<1>3. SentRight => PublishedIsSent
  BY SentRightIsSent
<1> QED BY <1>1, <1>2, <1>3, PTL DEF Spec

-----------------------------------------------------------------------------
(* What an answer means for an object, and what it gets.                    *)
LEMMA GoodIsMeant ==
  ASSUME NEW adi \in Adi
  PROVE  {k \in Meant(adi) : InRange(adi, ValueFor(k))} = Good(layout["read"], given', adi)
BY DEF Meant, ValueFor, Good, Says

(* What an answer that is handed up does to an object.                      *)
LEMMA HandedUpStep ==
  ASSUME MapsRight, BytesTyped, Restless = FALSE, Next, given' # <<>>,
         NEW adi \in Adi
  PROVE  LET good == {k \in Meant(adi) : InRange(adi, ValueFor(k))}
         IN  value'[adi] = IF good = {} THEN value[adi]
                           ELSE ValueFor(CHOOSE k \in good : \A j \in good : j <= k)
<1> DEFINE q == layout["read"]
           good == Good(q, given', adi)
<1>1. AnswerReceived
  BY DEF Next, TestSuiteJob, SendTelegram, SetValue, RemapCommand, LayoutSwitched,
         appd_RemapProcessDataCommand, Refused, Accepted
<1>2. HandsRight(q, given', value')
  BY <1>1, AnswerRight
<1>3. good \subseteq Nat
  <2>1. q \in Seq(Mappable)
    BY MapFacts DEF Area
  <2> QED BY <2>1 DEF Good
<1>4. \/ good = {} /\ value'[adi] = value[adi]
      \/ \E m \in good : (\A j \in good : j <= m) /\ value'[adi] = Says(q, given', m)
  BY <1>2 DEF HandsRight
<1> HIDE DEF good
<1>5. value'[adi] = IF good = {} THEN value[adi]
                    ELSE ValueFor(CHOOSE k \in good : \A j \in good : j <= k)
  <2>1. ASSUME NEW m \in good, \A j \in good : j <= m
        PROVE  (CHOOSE k \in good : \A j \in good : j <= k) = m
    <3> DEFINE c == CHOOSE k \in good : \A j \in good : j <= k
    <3>1. c \in good /\ \A j \in good : j <= c
      BY <2>1
    <3> HIDE DEF c
    <3>2. c <= m /\ m <= c /\ c \in Nat /\ m \in Nat
      BY <1>3, <2>1, <3>1
    <3>3. c = m
      BY <3>2
    <3> QED BY <3>3 DEF c
  <2>2. CASE good = {}
    BY <1>4, <2>2
  <2>3. CASE good # {}
    <3>1. PICK m \in good : (\A j \in good : j <= m) /\ value'[adi] = Says(q, given', m)
      BY <1>4, <2>3
    <3> QED BY <2>1, <2>3, <3>1 DEF ValueFor, Says
  <2> QED BY <2>2, <2>3
<1> QED BY <1>5, GoodIsMeant DEF good

(* What the network does to an object.                                      *)
LEMMA NetworkStep ==
  ASSUME MapsRight, BytesTyped, Restless = FALSE, [Next]_vars, spd' = spd,
         NEW adi \in Adi, value'[adi] # value[adi]
  PROVE  /\ InRange(adi, value'[adi])
         /\ appd_asInstance[adi].set \/ Meant(adi) # {}
<1>1. CASE UNCHANGED value
  BY <1>1
<1>2. CASE TestSuiteJob
  <2>1. spd' = spd + 1
    BY <1>2, TestRight
  <2>2. spd \in Nat
    BY DEF BytesTyped
  <2> QED BY <2>1, <2>2
<1>3. CASE AnswerReceived /\ ~UNCHANGED value
  <2> DEFINE q == layout["read"]
  <2>1. HandsRight(q, given', value')
    BY <1>3, AnswerRight
  <2>2. PICK m \in Good(q, given', adi) : value'[adi] = Says(q, given', m)
    BY <2>1 DEF HandsRight
  <2> QED BY <2>2 DEF Good, Meant
<1>4. CASE SetValue
  BY <1>4, SetRight
<1>5. CASE \E start, remove, items : RemapAsked(start, remove, items)
  BY <1>5 DEF RemapAsked, Accepted
<1>6. CASE LayoutSwitched
  BY <1>6 DEF LayoutSwitched
<1>7. CASE SendTelegram
  BY <1>7 DEF SendTelegram
<1> QED BY <1>1, <1>2, <1>3, <1>4, <1>5, <1>6, <1>7, MapSteps

(* The maps and the bytes together.                                         *)
DataRight == MapsRight /\ BytesTyped

(* Both always hold, as long as the module inserts no items before others.  *)
LEMMA DataAlways ==
  ASSUME Inserts = FALSE
  PROVE  Spec => []DataRight
<1>1. Init => DataRight
  BY MapsInit, BytesInit DEF DataRight
<1>2. DataRight /\ [Next]_vars => DataRight'
  BY MapsStep, BytesStep DEF DataRight
<1> QED BY <1>1, <1>2, PTL DEF Spec

(* As long as the module inserts no items before others and keeps its state *)
(* during a remap, process data that is handed up reaches the objects it    *)
(* was meant for (appd.c:267-301, aplink.c:713-764).                        *)
THEOREM HandedUpAlwaysRight ==
  ASSUME Inserts = FALSE, Restless = FALSE
  PROVE  Spec => HandedUpRight
<1> DEFINE A == given' # <<>> =>
                  \A adi \in Adi :
                    LET good == {k \in Meant(adi) : InRange(adi, ValueFor(k))}
                    IN  value'[adi] = IF good = {} THEN value[adi]
                                      ELSE ValueFor(CHOOSE k \in good : \A j \in good : j <= k)
<1>1. DataRight /\ [Next]_vars => [A]_vars
  <2>1. ASSUME DataRight, Next PROVE A
    BY <2>1, HandedUpStep DEF DataRight
  <2> HIDE DEF A
  <2> QED BY <2>1
<1> QED BY <1>1, DataAlways, PTL DEF Spec, HandedUpRight

(* Under the same conditions the network moves an object only to a value in *)
(* its range, and only one that may be set or that the module maps          *)
(* (appd.c:955-1009, 1489-1540).                                            *)
THEOREM NetworkAlwaysKeepsRange ==
  ASSUME Inserts = FALSE, Restless = FALSE
  PROVE  Spec => NetworkKeepsRange
<1> DEFINE A == spd' = spd =>
                  \A adi \in Adi : value'[adi] # value[adi] =>
                    /\ InRange(adi, value'[adi])
                    /\ appd_asInstance[adi].set \/ Meant(adi) # {}
<1>1. DataRight /\ [Next]_vars => [A]_vars
  BY NetworkStep DEF DataRight
<1> QED BY <1>1, DataAlways, PTL DEF Spec, NetworkKeepsRange
=============================================================================
