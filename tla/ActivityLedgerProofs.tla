------------------------- MODULE ActivityLedgerProofs -------------------------
(***************************************************************************)
(* Proofs about ActivityLedger, for any accounts, holdings, currencies and *)
(* Starting point, any menu of commands, and histories of any length.      *)
(*                                                                         *)
(* What a replay computes is defined by recursion along the timeline, so   *)
(* the proofs need induction.  Here it is an argument about sets: a set of *)
(* naturals that contains 0 and with every n also n + 1 is Nat.            *)
(***************************************************************************)
EXTENDS ActivityLedger, FiniteSetTheorems, WellFoundedInduction, TLAPS

-----------------------------------------------------------------------------
(* Naturals *)

(* A set of naturals that is not empty has a least element. *)
LEMMA LeastNatural ==
    ASSUME NEW S \in SUBSET Nat, S # {}
    PROVE  \E x \in S : \A y \in S : x <= y
<1>1. PICK R : R = OpToRel(<, Nat)
  OBVIOUS
<1>2. IsWellFoundedOn(R, Nat)
  BY <1>1, NatLessThanWellFounded
<1>3. \A x, y \in Nat : x < y <=> <<x, y>> \in R
  BY <1>1 DEF OpToRel
<1>4. PICK x \in S : \A y \in S : ~ (<<y, x>> \in R)
  BY <1>2, WFMin
<1>5. \A y \in S : x <= y
  <2> TAKE y \in S
  <2>1. x \in Nat /\ y \in Nat
    OBVIOUS
  <2>2. ~ (y < x)
    BY <1>3, <1>4, <2>1
  <2> QED  BY <2>1, <2>2
<1> QED  BY <1>5

(* Induction, over a set. *)
LEMMA Inductive ==
    ASSUME NEW P \in SUBSET Nat, 0 \in P, \A n \in P : n + 1 \in P
    PROVE  \A n \in Nat : n \in P
<1>1. SUFFICES ASSUME Nat \ P # {}
               PROVE  FALSE
  OBVIOUS
<1>2. PICK x \in Nat \ P : \A y \in Nat \ P : x <= y
  BY <1>1, LeastNatural
<1>3. x # 0 /\ x - 1 \in Nat
  BY <1>2
<1>4. x - 1 \in P
  BY <1>2, <1>3
<1>5. (x - 1) + 1 = x
  BY <1>2
<1> QED  BY <1>2, <1>4, <1>5

(* Induction up to a bound. *)
LEMMA InductiveUpTo ==
    ASSUME NEW N \in Nat, NEW P, 0 \in P, \A n \in 0 .. N - 1 : n \in P => n + 1 \in P
    PROVE  \A n \in 0 .. N : n \in P
<1>1. PICK Q : Q = {n \in Nat : n <= N => n \in P}
  OBVIOUS
<1>2. Q \in SUBSET Nat /\ 0 \in Q
  BY <1>1
<1>3. \A n \in Q : n + 1 \in Q
  BY <1>1
<1>4. \A n \in Nat : n \in Q
  BY <1>2, <1>3, Inductive
<1> QED  BY <1>1, <1>4

(* The minimum of a set with one element. *)
LEMMA MinSingle ==
    ASSUME NEW x \in Int
    PROVE  Min({x}) = x
BY DEF Min

(* A set of positions that contains every position before one of its own is an initial
   segment, as long as its cardinality. *)
LEMMA InitialSegment ==
    ASSUME NEW L \in Nat, NEW T \in SUBSET (1 .. L), \A n \in T, m \in 1 .. L : m < n => m \in T
    PROVE  /\ Cardinality(T) \in 0 .. L
           /\ T = 1 .. Cardinality(T)
<1>1. PICK U : U = {n \in Nat : \A m \in T : m <= n}
  OBVIOUS
<1>2. L \in U /\ U \in SUBSET Nat
  BY <1>1
<1>3. PICK x \in U : \A y \in U : x <= y
  BY <1>2, LeastNatural
<1>4. x \in Nat /\ x <= L
  BY <1>2, <1>3
<1>5. T \subseteq 1 .. x
  BY <1>1, <1>3, <1>4
<1>6. x # 0 => x \in T
  <2>1. SUFFICES ASSUME x # 0, x \notin T
                 PROVE  FALSE
    OBVIOUS
  <2>2. x - 1 \in Nat /\ \A m \in T : m <= x - 1
    BY <1>4, <1>5, <2>1
  <2>3. x - 1 \in U
    BY <1>1, <2>2
  <2> QED  BY <1>3, <1>4, <2>3
<1>7. T = 1 .. x
  <2>1. \A m \in 1 .. x : m \in T
    <3> TAKE m \in 1 .. x
    <3>1. x \in T /\ m \in 1 .. L /\ m <= x
      BY <1>4, <1>6
    <3> QED  BY <3>1
  <2> QED  BY <1>5, <2>1
<1>8. Cardinality(1 .. x) = x
  BY <1>4, FS_Interval
<1> QED  BY <1>4, <1>7, <1>8

-----------------------------------------------------------------------------
(* Recursion: each of the three running computations satisfies its defining equation. *)

(* Balances along a list of effects. *)
LEMMA RunningDef ==
    ASSUME NEW bal, NEW effects, Len(effects) \in Nat
    PROVE  /\ Running(bal, effects)[0] = bal
           /\ \A n \in 1 .. Len(effects) : Running(bal, effects)[n] = AddEffect(Running(bal, effects)[n - 1], effects[n])
<1> DEFINE Eq(f, N) == f = [n \in 0 .. N |-> IF n = 0 THEN bal ELSE AddEffect(f[n - 1], effects[n])]
<1>1. PICK P : P = {n \in Nat : \E f : Eq(f, n)}
  OBVIOUS
<1>2. 0 \in P
  <2>1. Eq([n \in 0 .. 0 |-> bal], 0)
    OBVIOUS
  <2> QED  BY <1>1, <2>1
<1>3. ASSUME NEW N \in P  PROVE N + 1 \in P
  <2>1. N \in Nat
    BY <1>1
  <2>2. PICK f : Eq(f, N)
    BY <1>1
  <2>3. PICK g : g = [n \in 0 .. N + 1 |->
                        IF n = N + 1 THEN AddEffect(f[N], effects[N + 1]) ELSE f[n]]
    OBVIOUS
  <2>4. Eq(g, N + 1)
    BY <2>1, <2>2, <2>3
  <2> QED  BY <1>1, <2>1, <2>4
<1>4. \A n \in Nat : n \in P
  BY <1>1, <1>2, <1>3, Inductive
<1>5. \E f : Eq(f, Len(effects))
  BY <1>1, <1>4
<1>6. Eq(Running(bal, effects), Len(effects))
  BY <1>5, Zenon DEF Running
<1>7. PICK R : R = Running(bal, effects) /\ Eq(R, Len(effects))
  BY <1>6
<1>8. R[0] = bal /\ \A n \in 1 .. Len(effects) : R[n] = AddEffect(R[n - 1], effects[n])
  BY <1>7
<1> QED  BY <1>7, <1>8

(* Balances along a replayed timeline. *)
LEMMA BalancesDef ==
    ASSUME NEW eff, Len(eff) \in Nat
    PROVE  /\ Balances(eff)[0] = Opening
           /\ \A n \in 1 .. Len(eff) : Balances(eff)[n] = Applied(Balances(eff)[n - 1], eff[n])
<1> DEFINE Eq(f, N) == f = [n \in 0 .. N |-> IF n = 0 THEN Opening ELSE Applied(f[n - 1], eff[n])]
<1>1. PICK P : P = {n \in Nat : \E f : Eq(f, n)}
  OBVIOUS
<1>2. 0 \in P
  <2>1. Eq([n \in 0 .. 0 |-> Opening], 0)
    OBVIOUS
  <2> QED  BY <1>1, <2>1
<1>3. ASSUME NEW N \in P  PROVE N + 1 \in P
  <2>1. N \in Nat
    BY <1>1
  <2>2. PICK f : Eq(f, N)
    BY <1>1
  <2>3. PICK g : g = [n \in 0 .. N + 1 |->
                        IF n = N + 1 THEN Applied(f[N], eff[N + 1]) ELSE f[n]]
    OBVIOUS
  <2>4. Eq(g, N + 1)
    BY <2>1, <2>2, <2>3
  <2> QED  BY <1>1, <2>1, <2>4
<1>4. \A n \in Nat : n \in P
  BY <1>1, <1>2, <1>3, Inductive
<1>5. \E f : Eq(f, Len(eff))
  BY <1>1, <1>4
<1>6. Eq(Balances(eff), Len(eff))
  BY <1>5, Zenon DEF Balances
<1>7. PICK R : R = Balances(eff) /\ Eq(R, Len(eff))
  BY <1>6
<1>8. R[0] = Opening /\ \A n \in 1 .. Len(eff) : R[n] = Applied(R[n - 1], eff[n])
  BY <1>7
<1> QED  BY <1>7, <1>8

(* Effects and balances along a timeline. *)
LEMMA ReplayedDef ==
    ASSUME NEW line, Len(line) \in Nat
    PROVE  /\ Replayed(line)[0] = [eff |-> <<>>, bal |-> Opening]
           /\ \A n \in 1 .. Len(line) : Replayed(line)[n] = ReplayStep(line, n, Replayed(line)[n - 1])
<1> DEFINE Eq(f, N) == f = [n \in 0 .. N |-> IF n = 0 THEN [eff |-> <<>>, bal |-> Opening] ELSE ReplayStep(line, n, f[n - 1])]
<1>1. PICK P : P = {n \in Nat : \E f : Eq(f, n)}
  OBVIOUS
<1>2. 0 \in P
  <2>1. Eq([n \in 0 .. 0 |-> [eff |-> <<>>, bal |-> Opening]], 0)
    OBVIOUS
  <2> QED  BY <1>1, <2>1
<1>3. ASSUME NEW N \in P  PROVE N + 1 \in P
  <2>1. N \in Nat
    BY <1>1
  <2>2. PICK f : Eq(f, N)
    BY <1>1
  <2>3. PICK g : g = [n \in 0 .. N + 1 |->
                        IF n = N + 1 THEN ReplayStep(line, N + 1, f[N]) ELSE f[n]]
    OBVIOUS
  <2>4. Eq(g, N + 1)
    BY <2>1, <2>2, <2>3
  <2> QED  BY <1>1, <2>1, <2>4
<1>4. \A n \in Nat : n \in P
  BY <1>1, <1>2, <1>3, Inductive
<1>5. \E f : Eq(f, Len(line))
  BY <1>1, <1>4
<1>6. Eq(Replayed(line), Len(line))
  BY <1>5, Zenon DEF Replayed
<1>7. PICK R : R = Replayed(line) /\ Eq(R, Len(line))
  BY <1>6
<1>8. R[0] = [eff |-> <<>>, bal |-> Opening] /\ \A n \in 1 .. Len(line) : R[n] = ReplayStep(line, n, R[n - 1])
  BY <1>7
<1> QED  BY <1>7, <1>8

-----------------------------------------------------------------------------
(* Effects *)

Roles == {"amount", "transfer_from", "transfer_to", "fee", "quantity", "cost", "principal", "debt"}
Places == Endpoints \cup {Cost(h) : h \in Holdings}
EffectSet == [role : Roles, on : Places, by : Int]
Lists == Seq(EffectSet)
Wallets == [Endpoints -> Int]

(* One effect changes one balance. *)
LEMMA AddEffectFacts ==
    ASSUME NEW b \in Wallets, NEW x \in EffectSet
    PROVE  /\ AddEffect(b, x) \in Wallets
           /\ \A e \in Endpoints :
                 AddEffect(b, x)[e] = IF x.on = e THEN b[e] + x.by ELSE b[e]
BY DEF AddEffect, Wallets, EffectSet

(* A list of effects keeps the balances a function of integers. *)
LEMMA RunningType ==
    ASSUME NEW b \in Wallets, NEW l \in Lists
    PROVE  \A n \in 0 .. Len(l) : Running(b, l)[n] \in Wallets
<1>1. PICK P : P = {n \in 0 .. Len(l) : Running(b, l)[n] \in Wallets}
  OBVIOUS
<1>2. Len(l) \in Nat /\ \A n \in 1 .. Len(l) : l[n] \in EffectSet
  BY DEF Lists
<1>3. 0 \in P
  BY <1>1, <1>2, RunningDef
<1>4. \A n \in 0 .. Len(l) - 1 : n \in P => n + 1 \in P
  <2> SUFFICES ASSUME NEW n \in 0 .. Len(l) - 1, n \in P
               PROVE  n + 1 \in P
    OBVIOUS
  <2>1. n + 1 \in 1 .. Len(l) /\ (n + 1) - 1 = n
    BY <1>2
  <2>2. Running(b, l)[n + 1] = AddEffect(Running(b, l)[n], l[n + 1])
    BY <1>2, <2>1, RunningDef
  <2>3. Running(b, l)[n] \in Wallets
    BY <1>1
  <2> QED  BY <1>1, <1>2, <2>1, <2>2, <2>3, AddEffectFacts
<1> QED  BY <1>1, <1>2, <1>3, <1>4, InductiveUpTo

(* What a list does to one balance depends on that balance only. *)
LEMMA RunningLocal ==
    ASSUME NEW b \in Wallets, NEW c \in Wallets, NEW l \in Lists, NEW e \in Endpoints, b[e] = c[e]
    PROVE  \A n \in 0 .. Len(l) : Running(b, l)[n][e] = Running(c, l)[n][e]
<1>1. PICK P : P = {n \in 0 .. Len(l) : Running(b, l)[n][e] = Running(c, l)[n][e]}
  OBVIOUS
<1>2. Len(l) \in Nat /\ \A n \in 1 .. Len(l) : l[n] \in EffectSet
  BY DEF Lists
<1>3. 0 \in P
  BY <1>1, <1>2, RunningDef
<1>4. \A n \in 0 .. Len(l) - 1 : n \in P => n + 1 \in P
  <2> SUFFICES ASSUME NEW n \in 0 .. Len(l) - 1, n \in P
               PROVE  n + 1 \in P
    OBVIOUS
  <2>1. n + 1 \in 1 .. Len(l) /\ (n + 1) - 1 = n /\ n \in 0 .. Len(l)
    BY <1>2
  <2>2. /\ Running(b, l)[n + 1] = AddEffect(Running(b, l)[n], l[n + 1])
        /\ Running(c, l)[n + 1] = AddEffect(Running(c, l)[n], l[n + 1])
    BY <1>2, <2>1, RunningDef
  <2>3. Running(b, l)[n] \in Wallets /\ Running(c, l)[n] \in Wallets
    BY <2>1, RunningType
  <2>4. Running(b, l)[n][e] = Running(c, l)[n][e]
    BY <1>1
  <2>5. l[n + 1] \in EffectSet
    BY <1>2, <2>1
  <2>6. Running(b, l)[n + 1][e] = Running(c, l)[n + 1][e]
    BY <2>2, <2>3, <2>4, <2>5, AddEffectFacts
  <2> QED  BY <1>1, <1>2, <2>1, <2>6
<1> QED  BY <1>1, <1>2, <1>3, <1>4, InductiveUpTo

(* A list changes only the balances it touches. *)
LEMMA RunningUntouched ==
    ASSUME NEW b \in Wallets, NEW l \in Lists, NEW e \in Endpoints, e \notin Touched(l)
    PROVE  \A n \in 0 .. Len(l) : Running(b, l)[n][e] = b[e]
<1>1. PICK P : P = {n \in 0 .. Len(l) : Running(b, l)[n][e] = b[e]}
  OBVIOUS
<1>2. Len(l) \in Nat /\ \A n \in 1 .. Len(l) : l[n] \in EffectSet /\ l[n].on # e
  BY DEF Lists, Touched
<1>3. 0 \in P
  BY <1>1, <1>2, RunningDef
<1>4. \A n \in 0 .. Len(l) - 1 : n \in P => n + 1 \in P
  <2> SUFFICES ASSUME NEW n \in 0 .. Len(l) - 1, n \in P
               PROVE  n + 1 \in P
    OBVIOUS
  <2>1. n + 1 \in 1 .. Len(l) /\ (n + 1) - 1 = n /\ n \in 0 .. Len(l)
    BY <1>2
  <2>2. Running(b, l)[n + 1] = AddEffect(Running(b, l)[n], l[n + 1])
    BY <1>2, <2>1, RunningDef
  <2>3. Running(b, l)[n] \in Wallets /\ Running(b, l)[n][e] = b[e]
    BY <1>1, <2>1, RunningType
  <2>4. l[n + 1] \in EffectSet /\ l[n + 1].on # e
    BY <1>2, <2>1
  <2>5. Running(b, l)[n + 1][e] = b[e]
    BY <2>2, <2>3, <2>4, AddEffectFacts
  <2> QED  BY <1>1, <1>2, <2>1, <2>5
<1> QED  BY <1>1, <1>2, <1>3, <1>4, InductiveUpTo

(* The same for the whole list. *)
LEMMA AppliedFacts ==
    ASSUME NEW b \in Wallets, NEW l \in Lists
    PROVE  /\ Applied(b, l) \in Wallets
           /\ \A e \in Endpoints \ Touched(l) : Applied(b, l)[e] = b[e]
           /\ \A c \in Wallets, e \in Endpoints : b[e] = c[e] => Applied(b, l)[e] = Applied(c, l)[e]
<1>1. Len(l) \in 0 .. Len(l)
  BY DEF Lists
<1>2. Applied(b, l) \in Wallets
  BY <1>1, RunningType DEF Applied
<1>3. \A e \in Endpoints \ Touched(l) : Applied(b, l)[e] = b[e]
  BY <1>1, RunningUntouched DEF Applied
<1>4. \A c \in Wallets, e \in Endpoints : b[e] = c[e] => Applied(b, l)[e] = Applied(c, l)[e]
  BY <1>1, RunningLocal DEF Applied
<1> QED  BY <1>2, <1>3, <1>4

(* A list without effects, and one with a single effect. *)
LEMMA AppliedShort ==
    ASSUME NEW b \in Wallets, NEW l \in Lists
    PROVE  /\ l = <<>> => Applied(b, l) = b
           /\ Len(l) = 1 => Applied(b, l) = AddEffect(b, l[1])
<1>1. Len(l) \in Nat
  BY DEF Lists
<1>2. l = <<>> => Len(l) = 0
  OBVIOUS
<1>3. Len(l) = 1 => 1 - 1 = 0 /\ 1 \in 1 .. Len(l)
  OBVIOUS
<1> QED  BY <1>1, <1>2, <1>3, RunningDef DEF Applied
-----------------------------------------------------------------------------
(* Lists of effects *)

(* What a builder makes of anything but a value update: some effects, each in a role of its
   own, and no money that does not move. *)
Plain(l) ==
    /\ l \in Lists /\ l # <<>>
    /\ \A n \in DOMAIN l : IsMoney(l[n].on) => l[n].by # 0
    /\ \A m, n \in DOMAIN l : l[m].role = l[n].role => m = n

(* The effects of a value update or of its reversal: one, on the money of an account. *)
Single(l) == l \in Lists /\ Len(l) = 1 /\ l[1].on \in Endpoints /\ IsMoney(l[1].on)

(* The members of a list. *)
LEMMA ListFacts ==
    ASSUME NEW l \in Lists
    PROVE  /\ Len(l) \in Nat /\ DOMAIN l = 1 .. Len(l)
           /\ \A n \in 1 .. Len(l) : l[n] \in EffectSet /\ l[n].by \in Int
<1>1. Len(l) \in Nat /\ DOMAIN l = 1 .. Len(l) /\ \A n \in 1 .. Len(l) : l[n] \in EffectSet
  BY DEF Lists
<1>2. \A x \in EffectSet : x.by \in Int
  BY DEF EffectSet
<1> QED  BY <1>1, <1>2

(* Nothing is dropped from a list in which all money moves. *)
LEMMA EffectiveAll ==
    ASSUME NEW l \in Lists, \A n \in DOMAIN l : IsMoney(l[n].on) => l[n].by # 0
    PROVE  Effective(l) = l
<1>1. Len(l) \in Nat /\ DOMAIN l = 1 .. Len(l)
  BY ListFacts
<1>2. PICK kept : kept = {n \in DOMAIN l : IsMoney(l[n].on) => l[n].by # 0}
  OBVIOUS
<1>3. kept = 1 .. Len(l)
  BY <1>1, <1>2
<1>4. Cardinality(kept) = Len(l)
  BY <1>1, <1>3, FS_Interval
<1>5. \A n \in 1 .. Len(l) : Cardinality({k \in kept : k < n}) = n - 1
  <2> TAKE n \in 1 .. Len(l)
  <2>1. {k \in kept : k < n} = 1 .. (n - 1)
    BY <1>1, <1>3
  <2>2. 1 \in Int /\ n - 1 \in Int /\ (1 > n - 1 => n - 1 = 0) /\ (n - 1) - 1 + 1 = n - 1
    BY <1>1
  <2>3. Cardinality(1 .. (n - 1)) = n - 1
    BY <2>2, FS_Interval
  <2> QED  BY <2>1, <2>3
<1>6. \A m \in 1 .. Len(l) : Nth(kept, m) = m
  <2> TAKE m \in 1 .. Len(l)
  <2>1. \A n \in kept : Cardinality({k \in kept : k < n}) = m - 1 <=> n = m
    BY <1>1, <1>3, <1>5
  <2> QED  BY <1>3, <2>1 DEF Nth
<1>7. [m \in 1 .. Len(l) |-> l[Nth(kept, m)]] = l
  BY <1>1, <1>6 DEF Lists
<1> QED  BY <1>2, <1>4, <1>7 DEF Effective

(* Nothing is left of a list in which none moves. *)
LEMMA EffectiveNone ==
    ASSUME NEW l, \A n \in DOMAIN l : IsMoney(l[n].on) /\ l[n].by = 0
    PROVE  Effective(l) = <<>>
<1>1. {n \in DOMAIN l : IsMoney(l[n].on) => l[n].by # 0} = {}
  OBVIOUS
<1>2. Cardinality({}) = 0
  BY FS_EmptySet
<1>3. [m \in 1 .. 0 |-> l[Nth({}, m)]] = <<>>
  OBVIOUS
<1> QED  BY <1>1, <1>2, <1>3 DEF Effective

(* The inverse of a list. *)
LEMMA InverseFacts ==
    ASSUME NEW l \in Lists
    PROVE  /\ InverseOf(l) \in Lists /\ Len(InverseOf(l)) = Len(l)
           /\ \A n \in 1 .. Len(l) :
                 /\ Len(l) + 1 - n \in 1 .. Len(l)
                 /\ InverseOf(l)[n] = [l[Len(l) + 1 - n] EXCEPT !.by = -l[Len(l) + 1 - n].by]
                 /\ InverseOf(l)[n].on = l[Len(l) + 1 - n].on
                 /\ InverseOf(l)[n].role = l[Len(l) + 1 - n].role
                 /\ InverseOf(l)[n].by = -l[Len(l) + 1 - n].by
                 /\ InverseOf(l)[n] \in EffectSet
           /\ Touched(InverseOf(l)) = Touched(l)
<1>1. Len(l) \in Nat /\ DOMAIN l = 1 .. Len(l) /\ \A n \in 1 .. Len(l) : l[n] \in EffectSet
  BY DEF Lists
<1>2. \A n \in 1 .. Len(l) : Len(l) + 1 - n \in 1 .. Len(l)
  BY <1>1
<1>3. \A n \in 1 .. Len(l) :
                 /\ InverseOf(l)[n] = [l[Len(l) + 1 - n] EXCEPT !.by = -l[Len(l) + 1 - n].by]
  BY <1>1, <1>2 DEF InverseOf
<1>4. \A x \in EffectSet : LET y == [x EXCEPT !.by = -x.by]
                           IN  y \in EffectSet /\ y.on = x.on /\ y.role = x.role /\ y.by = -x.by
  BY DEF EffectSet
<1>5. \A n \in 1 .. Len(l) :
                 /\ InverseOf(l)[n].on = l[Len(l) + 1 - n].on
                 /\ InverseOf(l)[n].role = l[Len(l) + 1 - n].role
                 /\ InverseOf(l)[n].by = -l[Len(l) + 1 - n].by
                 /\ InverseOf(l)[n] \in EffectSet
  BY <1>1, <1>2, <1>3, <1>4
<1>6. InverseOf(l) \in Lists /\ Len(InverseOf(l)) = Len(l) /\ DOMAIN InverseOf(l) = 1 .. Len(l)
  BY <1>1, <1>5 DEF InverseOf, Lists
<1>7. \A n \in 1 .. Len(l) : Len(l) + 1 - (Len(l) + 1 - n) = n
  BY <1>1
<1>8. \A n \in 1 .. Len(l) : InverseOf(l)[Len(l) + 1 - n].on = l[n].on
  BY <1>2, <1>5, <1>7
<1>9. {InverseOf(l)[n].on : n \in 1 .. Len(l)} = {l[n].on : n \in 1 .. Len(l)}
  BY <1>2, <1>5, <1>8, SMTT(20)
<1> QED  BY <1>1, <1>2, <1>3, <1>5, <1>6, <1>9 DEF Touched

(* The inverse of a list of moving money is one. *)
LEMMA InversePlain ==
    ASSUME NEW l, Plain(l)
    PROVE  Plain(InverseOf(l))
<1>1. l \in Lists /\ Len(l) \in Nat /\ Len(l) # 0 /\ DOMAIN l = 1 .. Len(l)
  BY DEF Plain, Lists
<1>2. DOMAIN InverseOf(l) = 1 .. Len(l) /\ InverseOf(l) # <<>>
  BY <1>1, InverseFacts DEF Lists
<1>3. \A n \in 1 .. Len(l) :
        /\ l[n].by \in Int /\ (IsMoney(l[n].on) => l[n].by # 0)
        /\ \A m \in 1 .. Len(l) : l[m].role = l[n].role => m = n
  BY <1>1, ListFacts DEF Plain
<1>4. ASSUME NEW n \in 1 .. Len(l), IsMoney(InverseOf(l)[n].on)
      PROVE  InverseOf(l)[n].by # 0
  <2>1. PICK k \in 1 .. Len(l) : InverseOf(l)[n].on = l[k].on /\ InverseOf(l)[n].by = -l[k].by
    BY <1>1, InverseFacts
  <2> QED  BY <1>3, <1>4, <2>1
<1>5. ASSUME NEW m \in 1 .. Len(l), NEW n \in 1 .. Len(l), InverseOf(l)[m].role = InverseOf(l)[n].role
      PROVE  m = n
  <2>1. PICK k \in 1 .. Len(l) : k = Len(l) + 1 - m /\ InverseOf(l)[m].role = l[k].role
    BY <1>1, InverseFacts
  <2>2. PICK j \in 1 .. Len(l) : j = Len(l) + 1 - n /\ InverseOf(l)[n].role = l[j].role
    BY <1>1, InverseFacts
  <2>3. k = j
    BY <1>3, <1>5, <2>1, <2>2
  <2> QED  BY <1>1, <2>1, <2>2, <2>3
<1> QED  BY <1>1, <1>2, <1>4, <1>5, InverseFacts DEF Plain

(* A reversal of such a list keeps the magnitudes it was recorded with. *)
LEMMA MirroredPlain ==
    ASSUME NEW l, Plain(l), NEW n \in 1 .. Len(l)
    PROVE  Mirrored(InverseOf(l)[n], l) = InverseOf(l)[n]
<1>1. l \in Lists /\ Len(l) \in Nat /\ DOMAIN l = 1 .. Len(l)
  BY DEF Plain, Lists
<1>2. PICK x, k : x = InverseOf(l)[n] /\ k = Len(l) + 1 - n
  OBVIOUS
<1>3. k \in 1 .. Len(l) /\ x.on = l[k].on /\ x.role = l[k].role /\ x.by = -l[k].by /\ x \in EffectSet
  BY <1>1, <1>2, InverseFacts
<1>4. {m \in DOMAIN l : l[m].on = x.on /\ l[m].role = x.role} = {k}
  BY <1>1, <1>3 DEF Plain
<1>5. Min({k}) = k
  BY <1>3, MinSingle
<1>6. [x EXCEPT !.by = -l[k].by] = x
  BY <1>3 DEF EffectSet
<1> QED  BY <1>2, <1>4, <1>5, <1>6 DEF Mirrored

(* The reversal of a single effect takes its magnitude from the original. *)
LEMMA MirroredSingle ==
    ASSUME NEW x, NEW l \in Lists, Len(l) = 1, l[1].on = x.on, l[1].role = x.role
    PROVE  Mirrored(x, l) = [x EXCEPT !.by = -l[1].by]
<1>1. DOMAIN l = {1}
  BY DEF Lists
<1>2. {m \in DOMAIN l : l[m].on = x.on /\ l[m].role = x.role} = {1}
  BY <1>1
<1> QED  BY <1>2, MinSingle DEF Mirrored
-----------------------------------------------------------------------------
(* Timelines and what a replay makes of them *)

(* The three kinds of entry: a change with the effects it moved, an observation of one
   value, and the undo of one of these. *)
Recorded(a) == a.reverses = None /\ a.kind # "value_update" /\ Plain(a.eff)
Observed(a) == a.reverses = None /\ a.kind = "value_update" /\ Single(a.eff)
Undoes(a, o) ==
    /\ a.reverses # None /\ a.kind # "value_update"
    /\ \/ Recorded(o) /\ a.eff = InverseOf(o.eff)
       \/ Observed(o) /\ Single(a.eff) /\ a.eff[1].on = o.eff[1].on /\ a.eff[1].role = o.eff[1].role

(* A timeline: distinct identities, a target for every observation, and every undo behind
   what it undoes. *)
IsLine(L) ==
    /\ Len(L) \in Nat /\ DOMAIN L = 1 .. Len(L)
    /\ \A n \in 1 .. Len(L) : L[n].id \in Nat \ {0}
    /\ \A m, n \in 1 .. Len(L) : L[m].id = L[n].id => m = n
    /\ \A n \in 1 .. Len(L) : Observed(L[n]) => L[n].seen[L[n].eff[1].on] \in Int
    /\ \A n \in 1 .. Len(L) :
          \/ Recorded(L[n]) \/ Observed(L[n])
          \/ \E m \in 1 .. n - 1 : L[n].reverses = L[m].id /\ Undoes(L[n], L[m])

(* One effect with the amount d, or none when nothing moves. *)
Moving(x, d) == IF d = 0 THEN <<>> ELSE <<[x EXCEPT !.by = d]>>

(* What the undo a of o takes back when o contributed l. *)
Taken(a, o, l) ==
    IF Recorded(o) THEN a.eff ELSE IF l = <<>> THEN <<>> ELSE <<[a.eff[1] EXCEPT !.by = -l[1].by]>>

(* The effects l of entry n, in closed form: after the effects E and the balances b. *)
Closed(L, E, b, n, l) ==
    /\ l \in Lists
    /\ Recorded(L[n]) => l = L[n].eff
    /\ Observed(L[n]) => l = Moving(L[n].eff[1], L[n].seen[L[n].eff[1].on] - b[L[n].eff[1].on])
    /\ \A m \in 1 .. n - 1 :
          L[n].reverses = L[m].id /\ Undoes(L[n], L[m]) => l = Taken(L[n], L[m], E[m])
Form(L, E, b, n) == Closed(L, E, b, n, E[n])

(* What a step relies on: the effects E of the entries before n. *)
Ready(L, E, n) ==
    \A m \in 1 .. n - 1 :
        /\ E[m] \in Lists
        /\ Recorded(L[m]) => E[m] = L[m].eff
        /\ Observed(L[m]) => \E d \in Int : E[m] = Moving(L[m].eff[1], d)

IsReplay(L, E, B) ==
    /\ IsLine(L)
    /\ B[0] = Opening
    /\ \A n \in 0 .. Len(L) : B[n] \in Wallets
    /\ \A n \in 1 .. Len(L) : Form(L, E, B[n - 1], n) /\ B[n] = Applied(B[n - 1], E[n])

(* One effect moved: a list, with money that moves. *)
LEMMA MovingFacts ==
    ASSUME NEW l, Single(l), NEW d \in Int
    PROVE  /\ Moving(l[1], d) \in Lists
           /\ Effective(<<[l[1] EXCEPT !.by = d]>>) = Moving(l[1], d)
           /\ d # 0 => /\ Moving(l[1], d) # <<>> /\ Len(Moving(l[1], d)) = 1
                       /\ Moving(l[1], d)[1].by = d
                       /\ Moving(l[1], d)[1].on = l[1].on
                       /\ Moving(l[1], d)[1].role = l[1].role
                       /\ Moving(l[1], d)[1] = [l[1] EXCEPT !.by = d]
                       /\ Moving(l[1], d)[1] \in EffectSet
<1>1. l[1] \in EffectSet /\ IsMoney(l[1].on)
  BY ListFacts DEF Single
<1>2. PICK y : y = [l[1] EXCEPT !.by = d]
  OBVIOUS
<1>3. y \in EffectSet /\ y.by = d /\ y.on = l[1].on /\ y.role = l[1].role
  BY <1>1, <1>2 DEF EffectSet
<1>4. <<y>> \in Lists /\ DOMAIN <<y>> = {1} /\ <<y>>[1] = y /\ <<>> \in Lists
  BY <1>3 DEF Lists
<1>5. d # 0 => Effective(<<y>>) = <<y>>
  BY <1>1, <1>3, <1>4, EffectiveAll
<1>6. d = 0 => Effective(<<y>>) = <<>>
  BY <1>1, <1>3, <1>4, EffectiveNone
<1>7. <<y>> # <<>> /\ Len(<<y>>) = 1
  OBVIOUS
<1> QED  BY <1>2, <1>3, <1>4, <1>5, <1>6, <1>7 DEF Moving


(* The entries an entry may undo: none for a change or an observation, its original for an
   undo. *)
LEMMA Originals ==
    ASSUME NEW L, IsLine(L), NEW n \in 1 .. Len(L)
    PROVE  /\ Recorded(L[n]) \/ Observed(L[n]) => {m \in 1 .. n - 1 : L[m].id = L[n].reverses} = {}
           /\ \A k \in 1 .. n - 1 : L[n].reverses = L[k].id =>
                 /\ {m \in 1 .. n - 1 : L[m].id = L[n].reverses} = {k}
                 /\ Min({m \in 1 .. n - 1 : L[m].id = L[n].reverses}) = k
<1>1. \A m \in 1 .. n - 1 : m \in 1 .. Len(L) /\ m \in Int
  BY DEF IsLine
<1>2. Recorded(L[n]) \/ Observed(L[n]) => {m \in 1 .. n - 1 : L[m].id = L[n].reverses} = {}
  BY <1>1 DEF IsLine, Recorded, Observed, None
<1>3. ASSUME NEW k \in 1 .. n - 1, L[n].reverses = L[k].id
      PROVE  /\ {m \in 1 .. n - 1 : L[m].id = L[n].reverses} = {k}
             /\ Min({m \in 1 .. n - 1 : L[m].id = L[n].reverses}) = k
  <2>1. {m \in 1 .. n - 1 : L[m].id = L[n].reverses} = {k}
    BY <1>1, <1>3 DEF IsLine
  <2> QED  BY <1>1, <2>1, MinSingle
<1> QED  BY <1>2, <1>3

(* One step of a replay, in closed form. *)
LEMMA DerivedForm ==
    ASSUME NEW L, IsLine(L), NEW n \in 1 .. Len(L), NEW b \in Wallets, NEW E, Ready(L, E, n)
    PROVE  Closed(L, E, b, n, Derived(L, n, E, b))
<1> DEFINE a == L[n]
           D == Derived(L, n, E, b)
<1>1. CASE Recorded(a)
  <2>1. D = Effective(a.eff)
    BY <1>1, Originals DEF Derived, Recorded
  <2>2. a.eff \in Lists /\ Effective(a.eff) = a.eff
    BY <1>1, EffectiveAll DEF Recorded, Plain
  <2> QED  BY <1>1, <2>1, <2>2 DEF Recorded, Observed, Undoes, Closed
<1>2. CASE Observed(a)
  <2>1. PICK on, d : on = a.eff[1].on /\ d = a.seen[on] - b[on]
    OBVIOUS
  <2>2. a.seen[on] \in Int /\ on \in Endpoints /\ b[on] \in Int /\ d \in Int
    BY <1>2, <2>1 DEF IsLine, Observed, Single, Wallets
  <2>3. D = Effective([m \in DOMAIN a.eff |->
                           [a.eff[m] EXCEPT !.by = a.seen[a.eff[m].on] - b[a.eff[m].on]]])
    BY <1>2, Originals DEF Derived, Observed
  <2>4. DOMAIN a.eff = 1 .. 1 /\ \A m \in 1 .. 1 : m = 1
    BY <1>2 DEF Observed, Single, Lists
  <2>5. [m \in DOMAIN a.eff |-> [a.eff[m] EXCEPT !.by = a.seen[a.eff[m].on] - b[a.eff[m].on]]]
          = <<[a.eff[1] EXCEPT !.by = d]>>
    BY <2>1, <2>4
  <2>6. /\ Moving(a.eff[1], d) \in Lists
        /\ Effective(<<[a.eff[1] EXCEPT !.by = d]>>) = Moving(a.eff[1], d)
    BY <1>2, <2>2, MovingFacts, Zenon DEF Observed
  <2>7. D = Moving(a.eff[1], d) /\ D \in Lists
    BY <2>3, <2>5, <2>6
  <2> QED  BY <1>2, <2>1, <2>7 DEF Recorded, Observed, Undoes, Closed
<1>3. CASE \E k \in 1 .. n - 1 : a.reverses = L[k].id /\ Undoes(a, L[k])
  <2>1. PICK k \in 1 .. n - 1 : a.reverses = L[k].id /\ Undoes(a, L[k])
    BY <1>3
  <2>2. PICK S : S = {m \in 1 .. n - 1 : L[m].id = a.reverses}
    OBVIOUS
  <2>3. S = {k} /\ S # {} /\ Min(S) = k
    BY <2>1, <2>2, Originals
  <2>4. D = Effective(IF E[k] = <<>> THEN <<>> ELSE [m \in DOMAIN a.eff |-> Mirrored(a.eff[m], E[k])])
    BY <2>2, <2>3 DEF Derived
  <2>5. D \in Lists /\ D = Taken(a, L[k], E[k])
    <3>1. CASE Recorded(L[k])
      <4>1. Plain(L[k].eff) /\ E[k] = L[k].eff /\ a.eff = InverseOf(L[k].eff) /\ E[k] # <<>>
        BY <2>1, <3>1 DEF Undoes, Recorded, Observed, Plain, Ready
      <4>2. Plain(a.eff) /\ L[k].eff \in Lists /\ a.eff \in Lists
        BY <4>1, InversePlain DEF Plain
      <4>3. DOMAIN a.eff = 1 .. Len(L[k].eff)
        BY <4>1, <4>2, InverseFacts DEF Lists
      <4>4. \A m \in DOMAIN a.eff : Mirrored(a.eff[m], E[k]) = a.eff[m]
        BY <4>1, <4>3, MirroredPlain
      <4>5. [m \in DOMAIN a.eff |-> Mirrored(a.eff[m], E[k])] = a.eff
        BY <4>2, <4>4 DEF Lists
      <4>6. Effective(a.eff) = a.eff
        BY <4>2, EffectiveAll DEF Plain
      <4> QED  BY <2>4, <3>1, <4>1, <4>2, <4>5, <4>6 DEF Taken
    <3>2. CASE ~Recorded(L[k])
      <4>1. /\ Observed(L[k]) /\ Single(a.eff) /\ a.eff[1].on = L[k].eff[1].on
            /\ a.eff[1].role = L[k].eff[1].role /\ Single(L[k].eff)
        BY <2>1, <3>2 DEF Undoes, Observed
      <4>2. PICK d \in Int : E[k] = Moving(L[k].eff[1], d)
        BY <4>1 DEF Ready
      <4>3. CASE d = 0
        <5>1. E[k] = <<>>
          BY <4>2, <4>3 DEF Moving
        <5>2. Effective(<<>>) = <<>> /\ <<>> \in Lists
          BY EffectiveNone DEF Lists
        <5> QED  BY <2>4, <3>2, <5>1, <5>2 DEF Taken
      <4>4. CASE d # 0
        <5>1. /\ E[k] # <<>> /\ Len(E[k]) = 1 /\ E[k] \in Lists
              /\ E[k][1].by = d /\ E[k][1].on = a.eff[1].on /\ E[k][1].role = a.eff[1].role
          <6>1. PICK y : y = Moving(L[k].eff[1], d)
            OBVIOUS
          <6>2. y # <<>> /\ Len(y) = 1 /\ y \in Lists /\ y[1].by = d
                /\ y[1].on = L[k].eff[1].on /\ y[1].role = L[k].eff[1].role
            BY <4>1, <4>4, <6>1, MovingFacts, Zenon
          <6> QED  BY <4>1, <4>2, <6>1, <6>2
        <5>2. Mirrored(a.eff[1], E[k]) = [a.eff[1] EXCEPT !.by = -d]
          BY <5>1, MirroredSingle
        <5>3. DOMAIN a.eff = 1 .. 1 /\ \A m \in 1 .. 1 : m = 1
          BY <4>1 DEF Single, Lists
        <5>4. [m \in DOMAIN a.eff |-> Mirrored(a.eff[m], E[k])] = <<[a.eff[1] EXCEPT !.by = -d]>>
          BY <5>2, <5>3
        <5>5. -d \in Int /\ -d # 0
          BY <4>4
        <5>6. D = Moving(a.eff[1], -d) /\ D \in Lists
          <6>1. /\ Moving(a.eff[1], -d) \in Lists
                /\ Effective(<<[a.eff[1] EXCEPT !.by = -d]>>) = Moving(a.eff[1], -d)
            BY <4>1, <5>5, MovingFacts, Zenon
          <6> QED  BY <2>4, <5>1, <5>4, <6>1
        <5> QED  BY <3>2, <5>1, <5>5, <5>6 DEF Taken, Moving
      <4> QED  BY <4>3, <4>4
    <3> QED  BY <3>1, <3>2
  <2>6. \A m \in 1 .. n - 1 : a.reverses = L[m].id => m = k
    BY <2>1, Originals
  <2> QED  BY <2>1, <2>5, <2>6 DEF Recorded, Observed, Undoes, Closed
<1> QED  BY <1>1, <1>2, <1>3 DEF IsLine

(* What a replay yields, for every timeline: as many effect lists as entries, in closed form. *)
LEMMA ReplayFacts ==
    ASSUME NEW L, IsLine(L), LedgerAssumption
    PROVE  /\ ReplayMoneyEffects(L) \in Seq(Lists)
           /\ Len(ReplayMoneyEffects(L)) = Len(L)
           /\ DOMAIN ReplayMoneyEffects(L) = 1 .. Len(L)
           /\ IsReplay(L, ReplayMoneyEffects(L), Balances(ReplayMoneyEffects(L)))
<1>1. PICK R : R = Replayed(L)
  OBVIOUS
<1>2. Len(L) \in Nat
  BY DEF IsLine
<1>3. PICK D : D = [m \in 1 .. Len(L) |-> Derived(L, m, R[m - 1].eff, R[m - 1].bal)]
  OBVIOUS
<1>4. /\ R[0].eff = <<>> /\ R[0].bal = Opening
      /\ \A n \in 1 .. Len(L) : /\ R[n].eff = Append(R[n - 1].eff, D[n])
                                /\ R[n].bal = Applied(R[n - 1].bal, D[n])
  <2>1. R[0].eff = <<>> /\ R[0].bal = Opening
    BY <1>1, <1>2, ReplayedDef
  <2>2. \A n \in 1 .. Len(L) : R[n] = ReplayStep(L, n, R[n - 1])
    BY <1>1, <1>2, ReplayedDef
  <2>3. ASSUME NEW n \in 1 .. Len(L)
        PROVE  /\ R[n].eff = Append(R[n - 1].eff, D[n])
               /\ R[n].bal = Applied(R[n - 1].bal, D[n])
    <3>1. D[n] = Derived(L, n, R[n - 1].eff, R[n - 1].bal)
      BY <1>3
    <3>2. R[n] = ReplayStep(L, n, R[n - 1])
      BY <2>2
    <3> QED  BY <3>1, <3>2 DEF ReplayStep
  <2> QED  BY <2>1, <2>3
<1> DEFINE Good(n) ==
             /\ R[n].eff \in Seq(Lists) /\ Len(R[n].eff) = n /\ R[n].bal \in Wallets
             /\ \A m \in 1 .. n : R[n].eff[m] = D[m]
             /\ \A m \in 1 .. n : Form(L, D, R[m - 1].bal, m) /\ R[m - 1].bal \in Wallets
<1>5. PICK P : P = {n \in 0 .. Len(L) : Good(n)}
  OBVIOUS
<1>6. 0 \in P
  <2>1. Opening \in Wallets
    BY DEF LedgerAssumption, Wallets
  <2>2. Good(0)
    BY <1>4, <2>1
  <2> QED  BY <1>2, <1>5, <2>2
<1>7. \A n \in 0 .. Len(L) - 1 : n \in P => n + 1 \in P
  <2> SUFFICES ASSUME NEW n \in 0 .. Len(L) - 1, n \in P
               PROVE  n + 1 \in P
    OBVIOUS
  <2>1. Good(n) /\ n \in Nat
    BY <1>2, <1>5
  <2>2. PICK k : k = n + 1
    OBVIOUS
  <2>3. k \in 1 .. Len(L) /\ k - 1 = n /\ k \in Nat
    BY <1>2, <2>2
  <2>4. PICK E, b : E = R[n].eff /\ b = R[n].bal
    OBVIOUS
  <2>5. D[k] = Derived(L, k, E, b)
    BY <1>3, <2>3, <2>4
  <2>6. b \in Wallets /\ \A m \in 1 .. k - 1 : E[m] = D[m] /\ Form(L, D, R[m - 1].bal, m)
                                              /\ R[m - 1].bal \in Wallets
    BY <2>1, <2>3, <2>4
  <2>7. ASSUME NEW m \in 1 .. k - 1
        PROVE  /\ E[m] \in Lists
               /\ Recorded(L[m]) => E[m] = L[m].eff
               /\ Observed(L[m]) => \E d \in Int : E[m] = Moving(L[m].eff[1], d)
    <3>1. E[m] = D[m] /\ Form(L, D, R[m - 1].bal, m) /\ R[m - 1].bal \in Wallets
      BY <2>6
    <3>2. E[m] \in Lists /\ (Recorded(L[m]) => E[m] = L[m].eff)
      BY <3>1 DEF Form, Closed
    <3>3. ASSUME Observed(L[m])
          PROVE  \E d \in Int : E[m] = Moving(L[m].eff[1], d)
      <4>1. PICK on : on = L[m].eff[1].on
        OBVIOUS
      <4>2. m \in 1 .. Len(L)
        BY <1>2, <2>3
      <4>3. L[m].seen[on] \in Int /\ R[m - 1].bal[on] \in Int
        BY <3>1, <3>3, <4>1, <4>2 DEF IsLine, Observed, Single, Wallets
      <4>4. L[m].seen[on] - R[m - 1].bal[on] \in Int
        BY <4>3
      <4>5. E[m] = Moving(L[m].eff[1], L[m].seen[on] - R[m - 1].bal[on])
        BY <3>1, <3>3, <4>1 DEF Form, Closed
      <4> QED  BY <4>4, <4>5
    <3> QED  BY <3>2, <3>3
  <2>8. Ready(L, E, k)
    BY <2>7 DEF Ready
  <2>9. Form(L, D, R[k - 1].bal, k)
    <3>1. Closed(L, E, b, k, D[k])
      BY <2>3, <2>5, <2>6, <2>8, DerivedForm
    <3> QED  BY <2>3, <2>4, <2>6, <3>1 DEF Form, Closed
  <2>10. R[k].eff = Append(E, D[k]) /\ R[k].bal = Applied(b, D[k])
    BY <1>4, <2>3, <2>4
  <2>11. R[k].bal \in Wallets /\ D[k] \in Lists
    BY <2>6, <2>9, <2>10, AppliedFacts DEF Form, Closed
  <2>12. E \in Seq(Lists) /\ Len(E) = n
    BY <2>1, <2>4
  <2>13. /\ R[k].eff \in Seq(Lists) /\ Len(R[k].eff) = k
         /\ \A m \in 1 .. k : R[k].eff[m] = IF m = k THEN D[k] ELSE E[m]
    BY <2>3, <2>11, <2>10, <2>12
  <2>14. \A m \in 1 .. k : m = k \/ m \in 1 .. k - 1
    BY <2>3
  <2>15. Good(k)
    BY <2>3, <2>4, <2>6, <2>9, <2>11, <2>13, <2>14
  <2> QED  BY <1>2, <1>5, <2>2, <2>3, <2>15
<1>8. \A n \in 0 .. Len(L) : Good(n)
  BY <1>2, <1>5, <1>6, <1>7, InductiveUpTo
<1>9. PICK E : E = ReplayMoneyEffects(L)
  OBVIOUS
<1>10. /\ E \in Seq(Lists) /\ Len(E) = Len(L) /\ \A m \in 1 .. Len(L) : E[m] = D[m]
  BY <1>1, <1>2, <1>8, <1>9 DEF ReplayMoneyEffects
<1>11. PICK B : B = Balances(E)
  OBVIOUS
<1>12. B[0] = Opening /\ \A n \in 1 .. Len(L) : B[n] = Applied(B[n - 1], E[n])
  BY <1>2, <1>10, <1>11, BalancesDef
<1>13. PICK Q : Q = {n \in 0 .. Len(L) : B[n] = R[n].bal}
  OBVIOUS
<1>14. 0 \in Q
  BY <1>2, <1>4, <1>12, <1>13
<1>15. \A n \in 0 .. Len(L) - 1 : n \in Q => n + 1 \in Q
  <2> SUFFICES ASSUME NEW n \in 0 .. Len(L) - 1, n \in Q
               PROVE  n + 1 \in Q
    OBVIOUS
  <2>1. PICK k : k = n + 1
    OBVIOUS
  <2>2. k \in 1 .. Len(L) /\ k - 1 = n
    BY <1>2, <2>1
  <2>3. B[n] = R[n].bal
    BY <1>13
  <2>4. B[k] = Applied(B[n], D[k]) /\ R[k].bal = Applied(R[n].bal, D[k])
    BY <1>4, <1>10, <1>12, <2>2
  <2> QED  BY <1>2, <1>13, <2>1, <2>2, <2>3, <2>4
<1>16. \A n \in 0 .. Len(L) : B[n] = R[n].bal
  BY <1>2, <1>13, <1>14, <1>15, InductiveUpTo
<1>17. \A n \in 0 .. Len(L) : B[n] \in Wallets
  BY <1>8, <1>16
<1>18. ASSUME NEW n \in 1 .. Len(L)
       PROVE  Form(L, E, B[n - 1], n)
  <2>1. n \in 0 .. Len(L) /\ n \in 1 .. n /\ n - 1 \in 0 .. Len(L) /\ \A m \in 1 .. n - 1 : m \in 1 .. Len(L)
    BY <1>2
  <2>2. Form(L, D, R[n - 1].bal, n)
    BY <1>8, <2>1
  <2>3. B[n - 1] = R[n - 1].bal
    BY <1>16, <2>1
  <2>4. E[n] = D[n] /\ \A m \in 1 .. n - 1 : E[m] = D[m]
    BY <1>10, <2>1
  <2> QED  BY <2>2, <2>3, <2>4 DEF Form, Closed
<1>19. DOMAIN E = 1 .. Len(L)
  BY <1>10
<1> QED  BY <1>9, <1>10, <1>11, <1>12, <1>17, <1>18, <1>19 DEF IsReplay

(* Nothing taken back is nothing. *)
LEMMA MinusZero ==
    ASSUME NEW d \in Int
    PROVE  -d \in Int /\ (-d = 0 <=> d = 0)
OBVIOUS

(* A list y that moves the endpoint of l by d. *)
LEMMA MovesBy ==
    ASSUME NEW l, Single(l), NEW d \in Int, NEW y, y = Moving(l[1], d)
    PROVE  /\ y \in Lists
           /\ d = 0 => y = <<>>
           /\ d # 0 => /\ y # <<>> /\ Len(y) = 1 /\ y[1] \in EffectSet
                       /\ y[1].by = d /\ y[1].on = l[1].on /\ y[1].role = l[1].role
<1>1. y \in Lists
  BY MovingFacts, Zenon
<1>2. d = 0 => y = <<>>
  BY DEF Moving
<1>3. d # 0 => /\ y # <<>> /\ Len(y) = 1 /\ y[1] \in EffectSet
               /\ y[1].by = d /\ y[1].on = l[1].on /\ y[1].role = l[1].role
  BY MovingFacts, Zenon
<1> QED  BY <1>1, <1>2, <1>3

(* The endpoint of a single effect, moved or not. *)
LEMMA MovingTouched ==
    ASSUME NEW l, Single(l), NEW d \in Int
    PROVE  /\ Touched(l) = {l[1].on}
           /\ Touched(Moving(l[1], d)) = IF d = 0 THEN {} ELSE {l[1].on}
<1>1. DOMAIN l = {1} /\ l[1].on \in Endpoints
  BY DEF Single, Lists
<1>2. Touched(l) = {l[1].on}
  BY <1>1 DEF Touched
<1>3. CASE d = 0
  <2>1. Touched(<<>>) = {}
    BY DEF Touched
  <2> QED  BY <1>2, <1>3, <2>1 DEF Moving
<1>4. CASE d # 0
  <2>1. PICK y : y = Moving(l[1], d)
    OBVIOUS
  <2>2. Len(y) = 1 /\ y \in Lists /\ y[1].on = l[1].on
    BY <1>4, <2>1, MovingFacts, Zenon
  <2>3. DOMAIN y = {1}
    BY <2>2 DEF Lists
  <2>4. Touched(y) = {l[1].on}
    BY <1>1, <2>2, <2>3 DEF Touched
  <2> QED  BY <1>2, <1>4, <2>1, <2>4
<1> QED  BY <1>3, <1>4

(* The endpoint of a single effect. *)
LEMMA SingleTouched ==
    ASSUME NEW l, Single(l)
    PROVE  Touched(l) = {l[1].on} /\ l[1] \in EffectSet
<1>1. 1 \in 1 .. Len(l) /\ l \in Lists
  BY DEF Single
<1>2. l[1] \in EffectSet
  BY <1>1, ListFacts
<1>3. DOMAIN l = {1} /\ l[1].on \in Endpoints
  BY DEF Single, Lists
<1> QED  BY <1>2, <1>3 DEF Touched

(* The inverse of a single effect that moves d moves -d. *)
LEMMA InverseMoving ==
    ASSUME NEW l, Single(l), NEW k, Single(k), k[1].on = l[1].on, k[1].role = l[1].role, NEW d \in Int
    PROVE  InverseOf(Moving(l[1], d)) = Moving(k[1], -d)
<1>1. CASE d = 0
  <2>1. -d = 0
    BY <1>1, MinusZero
  <2>2. PICK y : y = <<>>
    OBVIOUS
  <2>3. DOMAIN y = {} /\ y = [n \in {} |-> 0]
    BY <2>2
  <2>4. InverseOf(y) = <<>>
    BY <2>2, <2>3 DEF InverseOf
  <2> QED  BY <1>1, <2>1, <2>2, <2>4 DEF Moving
<1>2. CASE d # 0
  <2>1. PICK y, z : y = Moving(l[1], d) /\ z = Moving(k[1], -d)
    OBVIOUS
  <2>2. -d \in Int /\ -d # 0
    BY <1>2
  <2>3. Len(y) = 1 /\ y \in Lists /\ y[1].on = l[1].on /\ y[1].role = l[1].role /\ y[1].by = d
    BY <1>2, <2>1, MovesBy
  <2>4. Len(z) = 1 /\ z \in Lists /\ z[1].on = k[1].on /\ z[1].role = k[1].role /\ z[1].by = -d
    BY <2>1, <2>2, MovesBy
  <2>5. PICK w : w = InverseOf(y)
    OBVIOUS
  <2>6. /\ Len(w) = 1 /\ w \in Lists
        /\ w[1].on = l[1].on /\ w[1].role = l[1].role /\ w[1].by = -d
    <3>1. 1 \in 1 .. Len(y) /\ Len(y) + 1 - 1 = 1
      BY <2>3
    <3> QED  BY <2>3, <2>5, <3>1, InverseFacts
  <2>7. w[1] \in EffectSet /\ z[1] \in EffectSet
    BY <2>4, <2>6, ListFacts
  <2>8. w[1] = z[1]
    BY <2>4, <2>6, <2>7 DEF EffectSet
  <2>9. w = z
    BY <2>4, <2>6, <2>8 DEF Lists
  <2> QED  BY <2>1, <2>5, <2>9
<1> QED  BY <1>1, <1>2

(* What a replayed entry contributes: an observation and its undo move one endpoint by
   some amount, everything else moves what it recorded. *)
LEMMA Contributes ==
    ASSUME NEW L, NEW E, NEW B, IsReplay(L, E, B), NEW n \in 1 .. Len(L)
    PROVE  \/ E[n] = L[n].eff /\ Plain(L[n].eff)
           \/ Single(L[n].eff) /\ \E d \in Int : E[n] = Moving(L[n].eff[1], d)
<1>0. Len(L) \in Nat
  BY DEF IsLine, IsReplay
<1>1. ASSUME NEW m \in 1 .. Len(L), Observed(L[m])
      PROVE  Single(L[m].eff) /\ \E d \in Int : E[m] = Moving(L[m].eff[1], d)
  <2>1. PICK on : on = L[m].eff[1].on
    OBVIOUS
  <2>2. m - 1 \in 0 .. Len(L)
    BY <1>0
  <2>3. L[m].seen[on] \in Int /\ B[m - 1][on] \in Int
    BY <1>1, <2>1, <2>2 DEF IsLine, IsReplay, Observed, Single, Wallets
  <2>4. L[m].seen[on] - B[m - 1][on] \in Int
    BY <2>3
  <2>5. E[m] = Moving(L[m].eff[1], L[m].seen[on] - B[m - 1][on])
    BY <1>1, <2>1 DEF IsReplay, Form, Closed
  <2> QED  BY <1>1, <2>4, <2>5 DEF Observed
<1>2. CASE Recorded(L[n])
  BY <1>2 DEF IsReplay, Form, Closed, Recorded
<1>3. CASE Observed(L[n])
  BY <1>1, <1>3
<1>4. CASE \E m \in 1 .. n - 1 : L[n].reverses = L[m].id /\ Undoes(L[n], L[m])
  <2>1. PICK m \in 1 .. n - 1 : L[n].reverses = L[m].id /\ Undoes(L[n], L[m])
    BY <1>4
  <2>2. m \in 1 .. Len(L)
    BY <1>0
  <2>3. E[n] = Taken(L[n], L[m], E[m])
    BY <2>1 DEF IsReplay, Form, Closed
  <2>4. CASE Recorded(L[m])
    <3>1. L[n].eff = InverseOf(L[m].eff) /\ Plain(L[m].eff)
      BY <2>1, <2>4 DEF Undoes, Recorded, Observed
    <3> QED  BY <2>3, <2>4, <3>1, InversePlain DEF Taken
  <2>5. CASE ~Recorded(L[m])
    <3>1. Observed(L[m]) /\ Single(L[n].eff)
      BY <2>1, <2>5 DEF Undoes
    <3>2. PICK d \in Int : E[m] = Moving(L[m].eff[1], d) /\ Single(L[m].eff)
      BY <1>1, <2>2, <3>1
    <3>3. CASE d = 0
      BY <2>3, <2>5, <3>1, <3>2, <3>3 DEF Taken, Moving
    <3>4. CASE d # 0
      <4>1. E[m] # <<>> /\ E[m][1].by = d
        BY <3>2, <3>4, MovesBy
      <4>2. -d \in Int /\ -d # 0
        BY <3>4
      <4>3. E[n] = Moving(L[n].eff[1], -d)
        BY <2>3, <2>5, <4>1, <4>2 DEF Taken, Moving
      <4> QED  BY <3>1, <4>2, <4>3
    <3> QED  BY <3>3, <3>4
  <2> QED  BY <2>4, <2>5
<1> QED  BY <1>2, <1>3, <1>4 DEF IsLine, IsReplay

(* The entry a contributes l, which carries the balances b to c, and touches the endpoints it
   recorded or none. *)
Carries(a, l, b, c) ==
    /\ a.eff \in Lists /\ l \in Lists /\ b \in Wallets /\ c \in Wallets
    /\ c = Applied(b, l)
    /\ Touched(l) \subseteq Touched(a.eff)
    /\ l # <<>> => Touched(l) = Touched(a.eff)
    /\ Touched(a.eff) = {} => l = a.eff

(* So does every entry of a replay. *)
LEMMA EntryTouches ==
    ASSUME NEW L, NEW E, NEW B, IsReplay(L, E, B), NEW n \in 1 .. Len(L)
    PROVE  Carries(L[n], E[n], B[n - 1], B[n])
<1>1. n \in 0 .. Len(L) /\ n - 1 \in 0 .. Len(L)
  BY DEF IsLine, IsReplay
<1>2. E[n] \in Lists /\ B[n] \in Wallets /\ B[n - 1] \in Wallets /\ B[n] = Applied(B[n - 1], E[n])
  BY <1>1 DEF IsReplay, Form, Closed
<1>3. CASE E[n] = L[n].eff /\ Plain(L[n].eff)
  BY <1>2, <1>3 DEF Plain, Carries
<1>4. CASE Single(L[n].eff) /\ \E d \in Int : E[n] = Moving(L[n].eff[1], d)
  <2>1. PICK d \in Int : E[n] = Moving(L[n].eff[1], d)
    BY <1>4
  <2>2. /\ Touched(L[n].eff) = {L[n].eff[1].on}
        /\ Touched(E[n]) = IF d = 0 THEN {} ELSE {L[n].eff[1].on}
    BY <1>4, <2>1, MovingTouched
  <2>3. d = 0 => E[n] = <<>>
    BY <2>1 DEF Moving
  <2>4. L[n].eff \in Lists
    BY <1>4 DEF Single
  <2> QED  BY <1>2, <2>2, <2>3, <2>4 DEF Carries
<1> QED  BY <1>3, <1>4, Contributes

(* The observation a contributes l, which takes the balances b to c with its target. *)
Hits(a, l, b, c) ==
    /\ Touched(a.eff) = {a.eff[1].on} /\ a.eff[1].on \in Endpoints
    /\ c[a.eff[1].on] = a.seen[a.eff[1].on]
    /\ l = Moving(a.eff[1], a.seen[a.eff[1].on] - b[a.eff[1].on])

(* After an observation the balance is the target. *)
LEMMA ObservedHits ==
    ASSUME NEW L, NEW E, NEW B, IsReplay(L, E, B), NEW n \in 1 .. Len(L), Observed(L[n])
    PROVE  Hits(L[n], E[n], B[n - 1], B[n])
<1>1. PICK on, d : on = L[n].eff[1].on /\ d = L[n].seen[on] - B[n - 1][on]
  OBVIOUS
<1>2. E[n] \in Lists /\ B[n - 1] \in Wallets /\ B[n] = Applied(B[n - 1], E[n])
  BY EntryTouches DEF Carries
<1>3. L[n].seen[on] \in Int /\ on \in Endpoints /\ Single(L[n].eff)
  BY <1>1 DEF IsLine, IsReplay, Observed, Single
<1>4. B[n - 1][on] \in Int /\ d \in Int
  <2>1. PICK x, b : x = L[n].seen[on] /\ b = B[n - 1]
    OBVIOUS
  <2>2. x \in Int /\ b[on] \in Int
    BY <1>2, <1>3, <2>1 DEF Wallets
  <2>3. d = x - b[on]
    BY <1>1, <2>1
  <2>4. d \in Int
    BY <2>2, <2>3
  <2> QED  BY <2>1, <2>2, <2>4
<1>5. E[n] = Moving(L[n].eff[1], d)
  BY <1>1 DEF IsReplay, Form, Closed
<1>6. B[n][on] = L[n].seen[on]
  <2>1. CASE d = 0
    <3>1. E[n] = <<>>
      BY <1>5, <2>1 DEF Moving
    <3>2. B[n] = B[n - 1]
      BY <1>2, <3>1, AppliedShort
    <3>3. \A x, y \in Int : x - y = 0 => y = x
      OBVIOUS
    <3>4. L[n].seen[on] - B[n - 1][on] = 0
      BY <1>1, <2>1
    <3>5. B[n - 1][on] = L[n].seen[on]
      BY <1>3, <1>4, <3>3, <3>4
    <3> QED  BY <3>2, <3>5
  <2>2. CASE d # 0
    <3>1. Len(E[n]) = 1 /\ E[n][1].by = d /\ E[n][1].on = on /\ E[n][1] \in EffectSet
      <4>1. PICK y, l : y = E[n] /\ l = L[n].eff
        OBVIOUS
      <4>2. Len(y) = 1 /\ y[1].by = d /\ y[1].on = l[1].on /\ y[1] \in EffectSet
        BY <1>3, <1>4, <1>5, <2>2, <4>1, MovesBy
      <4> QED  BY <1>1, <4>1, <4>2
    <3>2. B[n] = AddEffect(B[n - 1], E[n][1])
      BY <1>2, <3>1, AppliedShort
    <3>3. B[n][on] = B[n - 1][on] + d
      <4>1. PICK b, x : b = B[n - 1] /\ x = E[n][1]
        OBVIOUS
      <4>2. b \in Wallets /\ x \in EffectSet /\ x.on = on /\ x.by = d /\ B[n] = AddEffect(b, x)
        BY <1>2, <3>1, <3>2, <4>1
      <4>3. AddEffect(b, x)[on] = b[on] + d
        BY <1>3, <4>2, AddEffectFacts
      <4> QED  BY <4>1, <4>2, <4>3
    <3>4. \A x, y, z \in Int : z = x - y => y + z = x
      OBVIOUS
    <3> QED  BY <1>1, <1>3, <1>4, <3>3, <3>4
  <2> QED  BY <2>1, <2>2
<1>7. Touched(L[n].eff) = {on}
  BY <1>1, <1>3, <1>4, MovingTouched
<1> QED  BY <1>1, <1>3, <1>5, <1>6, <1>7 DEF Hits

(* In every replay an undo takes back what its original contributes in that replay. *)
LEMMA UndoCancels ==
    ASSUME NEW L, NEW E, NEW B, IsReplay(L, E, B), NEW n \in 1 .. Len(L),
           NEW m \in 1 .. n - 1, L[n].reverses = L[m].id, Undoes(L[n], L[m])
    PROVE  E[n] = InverseOf(E[m])
<1>1. m \in 1 .. Len(L)
  BY DEF IsLine, IsReplay
<1>2. E[n] = Taken(L[n], L[m], E[m])
  BY DEF IsReplay, Form, Closed
<1>3. CASE Recorded(L[m])
  <2>1. L[n].eff = InverseOf(L[m].eff) /\ E[m] = L[m].eff
    BY <1>1, <1>3 DEF Undoes, Recorded, Observed, IsReplay, Form, Closed
  <2> QED  BY <1>2, <1>3, <2>1 DEF Taken
<1>4. CASE ~Recorded(L[m])
  <2>1. /\ Observed(L[m]) /\ Single(L[n].eff) /\ Single(L[m].eff)
        /\ L[n].eff[1].on = L[m].eff[1].on /\ L[n].eff[1].role = L[m].eff[1].role
    BY <1>4 DEF Undoes, Observed
  <2>2. PICK on, d : on = L[m].eff[1].on /\ d = L[m].seen[on] - B[m - 1][on]
    OBVIOUS
  <2>3. E[m] = Moving(L[m].eff[1], d)
    BY <1>1, <2>1, <2>2 DEF IsReplay, Form, Closed
  <2>4. d \in Int
    <3>1. L[m].seen[on] \in Int /\ on \in Endpoints
      BY <1>1, <2>1, <2>2 DEF IsLine, IsReplay, Single
    <3>2. Carries(L[m], E[m], B[m - 1], B[m])
      BY <1>1, EntryTouches
    <3>3. B[m - 1][on] \in Int
      BY <3>1, <3>2 DEF Carries, Wallets
    <3>4. \A x, y \in Int : x - y \in Int
      OBVIOUS
    <3> QED  BY <2>2, <3>1, <3>3, <3>4, Zenon
  <2>5. InverseOf(E[m]) = Moving(L[n].eff[1], -d)
    <3>1. PICK l, k : l = L[m].eff /\ k = L[n].eff
      OBVIOUS
    <3>2. Single(l) /\ Single(k) /\ k[1].on = l[1].on /\ k[1].role = l[1].role
      BY <2>1, <3>1
    <3>3. InverseOf(Moving(l[1], d)) = Moving(k[1], -d)
      BY <2>4, <3>2, InverseMoving
    <3> QED  BY <2>3, <3>1, <3>3
  <2>6. CASE d = 0
    <3>1. E[m] = <<>> /\ -d = 0
      BY <2>1, <2>3, <2>4, <2>6, MovesBy, MinusZero
    <3> QED  BY <1>2, <1>4, <2>5, <3>1 DEF Taken, Moving
  <2>7. CASE d # 0
    <3>1. E[m] # <<>> /\ E[m][1].by = d
      BY <2>1, <2>3, <2>4, <2>7, MovesBy
    <3>2. -d # 0
      BY <2>4, <2>7
    <3> QED  BY <1>2, <1>4, <2>5, <3>1, <3>2 DEF Taken, Moving
  <2> QED  BY <2>6, <2>7
<1> QED  BY <1>3, <1>4
-----------------------------------------------------------------------------
(* Two timelines that agree *)

(* Entries a replay cannot tell apart: the delta an observation recorded does not matter. *)
Alike(a, b) ==
    /\ a.id = b.id /\ a.kind = b.kind /\ a.reverses = b.reverses
    /\ \/ a.eff = b.eff
       \/ /\ a.kind = "value_update" /\ Single(a.eff) /\ Single(b.eff)
          /\ a.eff[1].on = b.eff[1].on /\ a.eff[1].role = b.eff[1].role
    /\ Observed(a) => a.seen[a.eff[1].on] = b.seen[b.eff[1].on]

(* They have the same shape. *)
LEMMA AlikeShape ==
    ASSUME NEW a, NEW b, Alike(a, b)
    PROVE  /\ Recorded(a) <=> Recorded(b)
           /\ Observed(a) <=> Observed(b)
           /\ a.kind # "value_update" => a.eff = b.eff
           /\ Observed(a) => a.eff[1].on = b.eff[1].on /\ a.eff[1].role = b.eff[1].role
           /\ Touched(a.eff) = Touched(b.eff)
           /\ Touched(a.eff) = {} => a.eff = b.eff
<1>1. CASE a.eff = b.eff
  BY <1>1 DEF Alike, Recorded, Observed
<1>2. CASE /\ a.kind = "value_update" /\ Single(a.eff) /\ Single(b.eff)
           /\ a.eff[1].on = b.eff[1].on /\ a.eff[1].role = b.eff[1].role
  <2>1. Touched(a.eff) = {a.eff[1].on} /\ Touched(b.eff) = {a.eff[1].on}
    BY <1>2, SingleTouched
  <2> QED  BY <1>2, <2>1 DEF Alike, Recorded, Observed
<1> QED  BY <1>1, <1>2 DEF Alike

(* An undo stays the undo of its original. *)
LEMMA AlikeUndoes ==
    ASSUME NEW a, NEW b, Alike(a, b), NEW o, NEW p, Alike(o, p), Undoes(a, o), a.reverses = o.id
    PROVE  /\ Undoes(b, p) /\ b.reverses = p.id /\ a.eff = b.eff
           /\ \A l : Taken(a, o, l) = Taken(b, p, l)
<1>1. a.kind # "value_update" /\ b.kind # "value_update" /\ a.eff = b.eff /\ b.reverses = p.id /\ b.reverses # None
  BY AlikeShape DEF Undoes, Alike
<1>2. /\ Recorded(o) <=> Recorded(p)
      /\ Observed(o) <=> Observed(p)
      /\ Recorded(o) => o.eff = p.eff
      /\ Observed(o) => o.eff[1].on = p.eff[1].on /\ o.eff[1].role = p.eff[1].role
  BY AlikeShape DEF Recorded
<1>3. Undoes(b, p)
  BY <1>1, <1>2 DEF Undoes
<1>4. \A l : Taken(a, o, l) = Taken(b, p, l)
  BY <1>1, <1>2 DEF Taken
<1> QED  BY <1>1, <1>3, <1>4

(* An undo touches what its original touched. *)
LEMMA UndoTouches ==
    ASSUME NEW a, NEW o, Undoes(a, o)
    PROVE  Touched(a.eff) = Touched(o.eff)
<1>1. CASE Recorded(o) /\ a.eff = InverseOf(o.eff)
  <2>1. o.eff \in Lists
    BY <1>1 DEF Recorded, Plain
  <2> QED  BY <1>1, <2>1, InverseFacts
<1>2. CASE Observed(o) /\ Single(a.eff) /\ a.eff[1].on = o.eff[1].on
  <2>1. Single(o.eff)
    BY <1>2 DEF Observed
  <2>2. Touched(a.eff) = {a.eff[1].on} /\ Touched(o.eff) = {o.eff[1].on}
    BY <1>2, <2>1, SingleTouched
  <2> QED  BY <1>2, <2>2
<1> QED  BY <1>1, <1>2 DEF Undoes

(* Single effects on the same endpoint, moved by the same amount. *)
LEMMA MovingSame ==
    ASSUME NEW l, Single(l), NEW k, Single(k), k[1].on = l[1].on, k[1].role = l[1].role, NEW d
    PROVE  Moving(l[1], d) = Moving(k[1], d)
<1>1. l[1] \in EffectSet /\ k[1] \in EffectSet
  BY SingleTouched
<1>2. [l[1] EXCEPT !.by = d] = [k[1] EXCEPT !.by = d]
  BY <1>1 DEF EffectSet
<1> QED  BY <1>2 DEF Moving

(* One entry contributes the same in both replays, when an observation starts from the
   same balance and an undo has an original that contributes the same. *)
SameSource(L, E, B, m, M, F, C, p) ==
    /\ Observed(L[m]) => B[m - 1][L[m].eff[1].on] = C[p - 1][L[m].eff[1].on]
    /\ \A j \in 1 .. m - 1 : L[m].reverses = L[j].id /\ Undoes(L[m], L[j])
                                => \E q \in 1 .. p - 1 : Alike(L[j], M[q]) /\ F[q] = E[j]

(* Entries alike, with balances and originals that agree, contribute the same. *)
LEMMA SameEffects ==
    ASSUME NEW L, NEW E, NEW B, IsReplay(L, E, B),
           NEW M, NEW F, NEW C, IsReplay(M, F, C),
           NEW m \in 1 .. Len(L), NEW p \in 1 .. Len(M), Alike(L[m], M[p]),
           SameSource(L, E, B, m, M, F, C, p)
    PROVE  F[p] = E[m]
<1>1. Form(L, E, B[m - 1], m) /\ Form(M, F, C[p - 1], p)
  BY DEF IsReplay
<1>2. CASE Recorded(L[m])
  <2>1. Recorded(M[p]) /\ M[p].eff = L[m].eff
    BY <1>2, AlikeShape DEF Recorded
  <2> QED  BY <1>1, <1>2, <2>1 DEF Form, Closed
<1>3. CASE Observed(L[m])
  <2>1. /\ Observed(M[p]) /\ M[p].eff[1].on = L[m].eff[1].on /\ M[p].eff[1].role = L[m].eff[1].role
        /\ Single(L[m].eff) /\ Single(M[p].eff)
    BY <1>3, AlikeShape DEF Observed
  <2>2. PICK on, d : on = L[m].eff[1].on /\ d = L[m].seen[on] - B[m - 1][on]
    OBVIOUS
  <2>3. E[m] = Moving(L[m].eff[1], d)
    BY <1>1, <1>3, <2>2 DEF Form, Closed
  <2>4. M[p].seen[on] - C[p - 1][on] = d
    BY <1>3, <2>1, <2>2 DEF Alike, SameSource
  <2>5. F[p] = Moving(M[p].eff[1], d)
    BY <1>1, <2>1, <2>2, <2>4 DEF Form, Closed
  <2> QED  BY <2>1, <2>3, <2>5, MovingSame
<1>4. CASE \E j \in 1 .. m - 1 : L[m].reverses = L[j].id /\ Undoes(L[m], L[j])
  <2>1. PICK j \in 1 .. m - 1 : L[m].reverses = L[j].id /\ Undoes(L[m], L[j])
    BY <1>4
  <2>2. PICK q \in 1 .. p - 1 : Alike(L[j], M[q]) /\ F[q] = E[j]
    BY <2>1 DEF SameSource
  <2>3. Undoes(M[p], M[q]) /\ M[p].reverses = M[q].id /\ \A l : Taken(L[m], L[j], l) = Taken(M[p], M[q], l)
    BY <2>1, <2>2, AlikeUndoes
  <2>4. E[m] = Taken(L[m], L[j], E[j]) /\ F[p] = Taken(M[p], M[q], F[q])
    BY <1>1, <2>1, <2>3 DEF Form, Closed
  <2> QED  BY <2>2, <2>3, <2>4
<1> QED  BY <1>2, <1>3, <1>4 DEF IsLine, IsReplay

(* The entries of L stand in M at the positions s, in the same order, up to position K; any
   that differ, and any that are new in M, leave e alone.  Then the balance of e runs
   through the same values. *)
Follows(L, M, C, K, s, e) ==
    /\ s[0] \in 0 .. Len(M) /\ C[s[0]][e] = Opening[e]
    /\ \A m \in 1 .. K :
          /\ s[m] \in 1 .. Len(M)
          /\ C[s[m] - 1][e] = C[s[m - 1]][e]
          /\ \A j \in 1 .. m - 1 : s[j] < s[m]
          /\ \/ Alike(L[m], M[s[m]])
             \/ e \notin Touched(L[m].eff) /\ e \notin Touched(M[s[m]].eff)

(* The simulation: such an e has the same balances in both replays, and what touches it
   contributes the same. *)
LEMMA Simulation ==
    ASSUME NEW L, NEW E, NEW B, IsReplay(L, E, B),
           NEW M, NEW F, NEW C, IsReplay(M, F, C),
           NEW K \in 0 .. Len(L), NEW s, NEW e \in Endpoints, Follows(L, M, C, K, s, e)
    PROVE  /\ \A m \in 0 .. K : C[s[m]][e] = B[m][e]
           /\ \A m \in 1 .. K : e \in Touched(L[m].eff) => F[s[m]] = E[m]
<1>1. Len(L) \in Nat /\ Len(M) \in Nat /\ K \in Nat
  BY DEF IsLine, IsReplay
<1>6. \A q \in 1 .. Len(M) :
        /\ F[q] \in Lists /\ C[q - 1] \in Wallets /\ C[q] = Applied(C[q - 1], F[q])
        /\ Touched(F[q]) \subseteq Touched(M[q].eff)
  <2> TAKE q \in 1 .. Len(M)
  <2>1. Carries(M[q], F[q], C[q - 1], C[q])
    BY EntryTouches
  <2> QED  BY <2>1 DEF Carries
<1> DEFINE Same(m) == /\ C[s[m]][e] = B[m][e]
                      /\ \A j \in 1 .. m : e \in Touched(L[j].eff) => F[s[j]] = E[j]
<1>2. PICK P : P = {m \in 0 .. K : Same(m)}
  OBVIOUS
<1>3. 0 \in P
  <2>1. Same(0)
    BY DEF Follows, IsReplay
  <2> QED  BY <1>1, <1>2, <2>1
<1>4. \A n \in 0 .. K - 1 : n \in P => n + 1 \in P
  <2> SUFFICES ASSUME NEW n \in 0 .. K - 1, n \in P
               PROVE  n + 1 \in P
    OBVIOUS
  <2>1. PICK m : m = n + 1
    OBVIOUS
  <2>2. m \in 1 .. K /\ m - 1 = n /\ m \in 1 .. Len(L) /\ n \in Nat
    BY <1>1, <2>1
  <2>3. Same(n)
    BY <1>2
  <2>4. PICK p : p = s[m]
    OBVIOUS
  <2>5. /\ p \in 1 .. Len(M)
        /\ C[p - 1][e] = B[m - 1][e]
        /\ \A j \in 1 .. m - 1 : s[j] < p
        /\ \/ Alike(L[m], M[p])
           \/ e \notin Touched(L[m].eff) /\ e \notin Touched(M[p].eff)
    BY <2>2, <2>3, <2>4 DEF Follows
  <2>6. /\ E[m] \in Lists /\ B[m - 1] \in Wallets /\ B[m] = Applied(B[m - 1], E[m])
        /\ Touched(E[m]) \subseteq Touched(L[m].eff)
    <3>1. Carries(L[m], E[m], B[m - 1], B[m])
      BY <2>2, EntryTouches
    <3> QED  BY <3>1 DEF Carries
  <2>7. /\ F[p] \in Lists /\ C[p - 1] \in Wallets /\ C[p] = Applied(C[p - 1], F[p])
        /\ Touched(F[p]) \subseteq Touched(M[p].eff)
    BY <1>6, <2>5
  <2>8. CASE e \notin Touched(L[m].eff)
    <3>1. e \notin Touched(M[p].eff)
      BY <2>5, <2>8, AlikeShape
    <3>2. B[m][e] = B[m - 1][e] /\ C[p][e] = C[p - 1][e]
      BY <2>6, <2>7, <2>8, <3>1, AppliedFacts
    <3>3. \A j \in 1 .. m : j = m \/ j \in 1 .. n
      BY <2>2
    <3>4. Same(m)
      BY <2>3, <2>4, <2>5, <2>8, <3>2, <3>3
    <3> QED  BY <1>1, <1>2, <2>1, <2>2, <3>4
  <2>9. CASE e \in Touched(L[m].eff)
    <3>1. Alike(L[m], M[p])
      BY <2>5, <2>9
    <3>2. Observed(L[m]) => B[m - 1][L[m].eff[1].on] = C[p - 1][L[m].eff[1].on]
      <4>1. Observed(L[m]) => Touched(L[m].eff) = {L[m].eff[1].on}
        BY SingleTouched DEF Observed
      <4> QED  BY <2>5, <2>9, <4>1
    <3>3. ASSUME NEW j \in 1 .. m - 1, L[m].reverses = L[j].id, Undoes(L[m], L[j])
          PROVE  \E q \in 1 .. p - 1 : Alike(L[j], M[q]) /\ F[q] = E[j]
      <4>1. j \in 1 .. K /\ j \in 1 .. n
        BY <2>2
      <4>2. e \in Touched(L[j].eff)
        BY <2>9, <3>3, UndoTouches
      <4>3. Alike(L[j], M[s[j]]) /\ s[j] \in 1 .. Len(M) /\ s[j] < p
        BY <2>5, <4>1, <4>2 DEF Follows
      <4>4. F[s[j]] = E[j]
        BY <2>3, <4>1, <4>2
      <4>5. s[j] \in 1 .. p - 1
        BY <1>1, <2>5, <4>3
      <4> QED  BY <4>3, <4>4, <4>5
    <3>4. F[p] = E[m]
      <4>1. SameSource(L, E, B, m, M, F, C, p)
        BY <3>2, <3>3 DEF SameSource
      <4>2. p \in 1 .. Len(M)
        BY <2>5
      <4> QED  BY <2>2, <3>1, <4>1, <4>2, SameEffects
    <3>5. C[p][e] = B[m][e]
      BY <2>5, <2>6, <2>7, <3>4, AppliedFacts
    <3>6. \A j \in 1 .. m : j = m \/ j \in 1 .. n
      BY <2>2
    <3>7. Same(m)
      BY <2>3, <2>4, <3>4, <3>5, <3>6
    <3> QED  BY <1>1, <1>2, <2>1, <2>2, <3>7
  <2> QED  BY <2>8, <2>9
<1>5. \A n \in 0 .. K : n \in P
  BY <1>1, <1>3, <1>4, InductiveUpTo
<1>7. \A n \in 0 .. K : Same(n)
  BY <1>2, <1>5
<1>8. K \in 0 .. K
  BY <1>1
<1> QED  BY <1>7, <1>8

(* Two replays that agree on their first K entries. *)
Agree(E, B, F, C, K) ==
    /\ \A m \in 0 .. K : C[m] = B[m]
    /\ \A m \in 1 .. K : F[m] = E[m]

(* Timelines that start alike are replayed alike, as far as they do. *)
LEMMA SamePrefix ==
    ASSUME NEW L, NEW E, NEW B, IsReplay(L, E, B),
           NEW M, NEW F, NEW C, IsReplay(M, F, C),
           NEW K \in 0 .. Len(L), K <= Len(M), \A m \in 1 .. K : Alike(L[m], M[m])
    PROVE  Agree(E, B, F, C, K)
<1>1. Len(L) \in Nat /\ Len(M) \in Nat /\ K \in Nat
  BY DEF IsLine, IsReplay
<1>2. PICK s : s = [m \in 0 .. K |-> m]
  OBVIOUS
<1>3. /\ s[0] = 0 /\ \A m \in 0 .. K : s[m] = m
      /\ \A m \in 1 .. K : s[m] = m /\ s[m - 1] = m - 1 /\ m \in 1 .. Len(M) /\ \A j \in 1 .. m - 1 : s[j] = j
  BY <1>1, <1>2
<1>4. ASSUME NEW e \in Endpoints
      PROVE  Follows(L, M, C, K, s, e)
  <2>1. s[0] \in 0 .. Len(M) /\ C[s[0]][e] = Opening[e]
    BY <1>1, <1>3 DEF IsReplay
  <2>2. \A m \in 1 .. K : \A j \in 1 .. m - 1 : s[j] < s[m]
    BY <1>1, <1>3
  <2> QED  BY <1>3, <2>1, <2>2 DEF Follows
<1>5. ASSUME NEW e \in Endpoints
      PROVE  /\ \A m \in 0 .. K : C[s[m]][e] = B[m][e]
             /\ \A m \in 1 .. K : e \in Touched(L[m].eff) => F[s[m]] = E[m]
  <2>1. Follows(L, M, C, K, s, e)
    BY <1>4
  <2> QED  BY <2>1, Simulation
<1>6. ASSUME NEW m \in 0 .. K
      PROVE  C[m] = B[m]
  <2>1. m \in 0 .. Len(L) /\ m \in 0 .. Len(M)
    BY <1>1
  <2>2. C[m] \in Wallets /\ B[m] \in Wallets
    BY <2>1 DEF IsReplay
  <2>3. \A e \in Endpoints : C[m][e] = B[m][e]
    BY <1>3, <1>5
  <2> QED  BY <2>2, <2>3 DEF Wallets
<1>7. ASSUME NEW m \in 1 .. K
      PROVE  F[m] = E[m]
  <2>1. m \in 1 .. Len(L) /\ m \in 1 .. Len(M) /\ s[m] = m /\ Alike(L[m], M[m])
    BY <1>1, <1>3
  <2>2. CASE Touched(L[m].eff) = {}
    <3>1. Touched(M[m].eff) = {} /\ M[m].eff = L[m].eff
      BY <2>1, <2>2, AlikeShape
    <3>2. Carries(L[m], E[m], B[m - 1], B[m]) /\ Carries(M[m], F[m], C[m - 1], C[m])
      BY <2>1, EntryTouches
    <3> QED  BY <2>2, <3>1, <3>2 DEF Carries
  <2>3. CASE Touched(L[m].eff) # {}
    <3>1. PICK e : e \in Touched(L[m].eff)
      BY <2>3
    <3>2. e \in Endpoints
      BY <3>1 DEF Touched
    <3> QED  BY <1>5, <2>1, <3>1, <3>2
  <2> QED  BY <2>2, <2>3
<1> QED  BY <1>6, <1>7 DEF Agree

(* M is L with one more entry, behind the first n. *)
Extends(L, M, n) ==
    /\ Len(M) = Len(L) + 1
    /\ \A m \in 1 .. n : Alike(L[m], M[m])
    /\ \A m \in n + 1 .. Len(L) : Alike(L[m], M[m + 1])

(* The entry changes only the balances it touches, also when everything behind it is
   replayed again. *)
LEMMA InsertLocal ==
    ASSUME NEW L, NEW E, NEW B, IsReplay(L, E, B),
           NEW M, NEW F, NEW C, IsReplay(M, F, C),
           NEW n \in 0 .. Len(L), Extends(L, M, n),
           NEW e \in Endpoints, e \notin Touched(M[n + 1].eff)
    PROVE  C[Len(M)][e] = B[Len(L)][e]
<1>1. Len(L) \in Nat /\ Len(M) = Len(L) + 1 /\ n \in Nat /\ n + 1 \in 1 .. Len(M) /\ (n + 1) - 1 = n
  BY DEF IsLine, IsReplay, Extends
<1>2. C[n + 1][e] = C[n][e]
  <2>1. Carries(M[n + 1], F[n + 1], C[(n + 1) - 1], C[n + 1])
    BY <1>1, EntryTouches
  <2>2. /\ C[n] \in Wallets /\ F[n + 1] \in Lists /\ C[n + 1] = Applied(C[n], F[n + 1])
        /\ Touched(F[n + 1]) \subseteq Touched(M[n + 1].eff)
    BY <1>1, <2>1 DEF Carries
  <2> QED  BY <2>2, AppliedFacts
<1>3. PICK s : s = [m \in 0 .. Len(L) |-> IF m <= n THEN m ELSE m + 1]
  OBVIOUS
<1>4. s[0] = 0 /\ s[Len(L)] = IF n = Len(L) THEN n ELSE Len(M)
  BY <1>1, <1>3
<1>5. ASSUME NEW m \in 1 .. Len(L)
      PROVE  /\ s[m] \in 1 .. Len(M)
             /\ C[s[m] - 1][e] = C[s[m - 1]][e]
             /\ \A j \in 1 .. m - 1 : s[j] < s[m]
             /\ Alike(L[m], M[s[m]])
  <2>1. s[m] \in 1 .. Len(M) /\ \A j \in 1 .. m - 1 : s[j] < s[m]
    BY <1>1, <1>3
  <2>2. CASE m <= n
    <3>1. s[m] = m /\ s[m - 1] = m - 1 /\ m \in 1 .. n
      BY <1>1, <1>3, <2>2
    <3> QED  BY <2>1, <3>1 DEF Extends
  <2>3. CASE m = n + 1
    <3>1. s[m] = m + 1 /\ s[m - 1] = n /\ s[m] - 1 = n + 1 /\ m \in n + 1 .. Len(L)
      BY <1>1, <1>3, <2>3
    <3> QED  BY <1>2, <2>1, <3>1 DEF Extends
  <2>4. CASE m > n + 1
    <3>1. s[m] = m + 1 /\ s[m - 1] = m /\ s[m] - 1 = m /\ m \in n + 1 .. Len(L)
      BY <1>1, <1>3, <2>4
    <3> QED  BY <2>1, <3>1 DEF Extends
  <2> QED  BY <1>1, <2>2, <2>3, <2>4
<1>6. Follows(L, M, C, Len(L), s, e)
  <2>1. s[0] \in 0 .. Len(M) /\ C[s[0]][e] = Opening[e]
    BY <1>1, <1>4 DEF IsReplay
  <2> QED  BY <1>5, <2>1 DEF Follows
<1>7. Len(L) \in 0 .. Len(L)
  BY <1>1
<1>8. C[s[Len(L)]][e] = B[Len(L)][e]
  BY <1>6, <1>7, Simulation
<1> QED  BY <1>1, <1>2, <1>4, <1>8

(* M is L with another entry at k. *)
Replaces(L, M, k) == Len(M) = Len(L) /\ \A m \in 1 .. Len(L) : m # k => Alike(L[m], M[m])

(* Only the balances that the old entry or the new one touches can differ. *)
LEMMA ReplaceLocal ==
    ASSUME NEW L, NEW E, NEW B, IsReplay(L, E, B),
           NEW M, NEW F, NEW C, IsReplay(M, F, C),
           NEW k \in 1 .. Len(L), Replaces(L, M, k),
           NEW e \in Endpoints, e \notin Touched(L[k].eff), e \notin Touched(M[k].eff)
    PROVE  C[Len(M)][e] = B[Len(L)][e]
<1>1. Len(L) \in Nat /\ Len(M) = Len(L) /\ Len(L) \in 0 .. Len(L)
  BY DEF IsLine, IsReplay, Replaces
<1>2. PICK s : s = [m \in 0 .. Len(L) |-> m]
  OBVIOUS
<1>3. /\ s[0] = 0 /\ s[Len(L)] = Len(L)
      /\ \A m \in 1 .. Len(L) : s[m] = m /\ s[m - 1] = m - 1 /\ \A j \in 1 .. m - 1 : s[j] = j
  BY <1>1, <1>2
<1>4. \A m \in 1 .. Len(L) : \A j \in 1 .. m - 1 : s[j] < s[m]
  BY <1>1, <1>3
<1>5. s[0] \in 0 .. Len(M) /\ C[s[0]][e] = Opening[e]
  BY <1>1, <1>3 DEF IsReplay
<1>6. Follows(L, M, C, Len(L), s, e)
  BY <1>1, <1>3, <1>4, <1>5 DEF Follows, Replaces
<1>7. C[s[Len(L)]][e] = B[Len(L)][e]
  BY <1>1, <1>6, Simulation
<1> QED  BY <1>1, <1>3, <1>7
-----------------------------------------------------------------------------
(* The order of the timeline *)

(* As many elements as positions. *)
LEMMA CountImage ==
    ASSUME NEW k \in Nat, NEW s, \A m, n \in 1 .. k : s[m] = s[n] => m = n
    PROVE  Cardinality({s[n] : n \in 1 .. k}) = k
<1>1. PICK T, f : T = {s[n] : n \in 1 .. k} /\ f = [n \in 1 .. k |-> s[n]]
  OBVIOUS
<1>2. f \in Bijection(1 .. k, T)
  BY <1>1 DEF Bijection, Injection, Surjection, IsInjective
<1>3. ExistsBijection(1 .. k, T)
  BY <1>2 DEF ExistsBijection
<1>4. Cardinality(T) = k
  BY <1>3, FS_CountingElements
<1> QED  BY <1>1, <1>4

Stamped(a) == a.at \in Nat /\ a.made \in Nat /\ a.order \in Nat

(* Precedes is a strict order. *)
LEMMA PrecedesOrder ==
    ASSUME NEW a, NEW b, NEW c, Stamped(a), Stamped(b), Stamped(c)
    PROVE  /\ ~Precedes(a, a)
           /\ ~(Precedes(a, b) /\ Precedes(b, a))
           /\ Precedes(a, b) /\ Precedes(b, c) => Precedes(a, c)
BY DEF Precedes, Stamped

(* s lists the economic activities of the history A in the order of the timeline. *)
IsOrder(A, s) ==
    /\ Len(s) \in Nat /\ DOMAIN s = 1 .. Len(s)
    /\ \A n \in 1 .. Len(s) : s[n] \in DOMAIN A /\ Economic(A, s[n])
    /\ \A i \in DOMAIN A : Economic(A, i) => \E n \in 1 .. Len(s) : s[n] = i
    /\ \A m, n \in 1 .. Len(s) : m < n => Precedes(A[s[m]], A[s[n]])

AllStamped(A) == \A i \in DOMAIN A : Stamped(A[i])

LineOf(A, V, s) == [n \in 1 .. Len(s) |-> Entry(s[n], A[s[n]], V[s[n]])]

(* Positions are ordered as the activities at them. *)
LEMMA OrderFacts ==
    ASSUME NEW A, NEW s, IsOrder(A, s), AllStamped(A)
    PROVE  \A m, n \in 1 .. Len(s) :
              /\ m < n <=> Precedes(A[s[m]], A[s[n]])
              /\ s[m] = s[n] => m = n
<1> SUFFICES ASSUME NEW m \in 1 .. Len(s), NEW n \in 1 .. Len(s)
             PROVE  /\ m < n <=> Precedes(A[s[m]], A[s[n]])
                    /\ s[m] = s[n] => m = n
  OBVIOUS
<1>1. Stamped(A[s[m]]) /\ Stamped(A[s[n]])
  BY DEF AllStamped, IsOrder
<1>2. /\ m < n => Precedes(A[s[m]], A[s[n]])
      /\ n < m => Precedes(A[s[n]], A[s[m]])
  BY DEF IsOrder
<1>3. /\ ~Precedes(A[s[m]], A[s[m]])
      /\ ~(Precedes(A[s[m]], A[s[n]]) /\ Precedes(A[s[n]], A[s[m]]))
  BY <1>1, PrecedesOrder
<1>4. m < n \/ n < m \/ m = n
  BY DEF IsOrder
<1> QED  BY <1>2, <1>3, <1>4

(* The timeline of a history is the one its order lists. *)
LEMMA TimelineOrder ==
    ASSUME NEW A, NEW V, NEW s, IsOrder(A, s), AllStamped(A)
    PROVE  TimelineOf(A, V) = LineOf(A, V, s)
<1>1. Len(s) \in Nat
  BY DEF IsOrder
<1>2. PICK ids : ids = {i \in DOMAIN A : Economic(A, i)}
  OBVIOUS
<1>3. ids = {s[n] : n \in 1 .. Len(s)}
  BY <1>2 DEF IsOrder
<1>4. Cardinality(ids) = Len(s)
  BY <1>1, <1>3, OrderFacts, CountImage
<1>5. ASSUME NEW n \in 1 .. Len(s)
      PROVE  Cardinality({j \in ids : Precedes(A[j], A[s[n]])}) = n - 1
  <2>1. n - 1 \in Nat /\ \A m \in 1 .. n - 1 : m \in 1 .. Len(s) /\ m < n
    BY <1>1
  <2>2. \A m \in 1 .. Len(s) : m < n => m \in 1 .. n - 1
    BY <1>1
  <2>3. {j \in ids : Precedes(A[j], A[s[n]])} = {s[m] : m \in 1 .. n - 1}
    BY <1>3, <2>1, <2>2, OrderFacts
  <2>4. \A m, k \in 1 .. n - 1 : s[m] = s[k] => m = k
    BY <2>1, OrderFacts
  <2>5. Cardinality({s[m] : m \in 1 .. n - 1}) = n - 1
    <3>1. PICK k \in Nat : k = n - 1
      BY <2>1
    <3>2. \A m, j \in 1 .. k : s[m] = s[j] => m = j
      BY <2>4, <3>1
    <3>3. Cardinality({s[m] : m \in 1 .. k}) = k
      BY <3>2, CountImage
    <3> QED  BY <3>1, <3>3
  <2> QED  BY <2>3, <2>5
<1>6. ASSUME NEW n \in 1 .. Len(s)
      PROVE  Ranked(A, ids, n) = s[n]
  <2>1. s[n] \in ids /\ Cardinality({j \in ids : Precedes(A[j], A[s[n]])}) = n - 1
    BY <1>3, <1>5
  <2>2. ASSUME NEW i \in ids, Cardinality({j \in ids : Precedes(A[j], A[i])}) = n - 1
        PROVE  i = s[n]
    <3>1. PICK m \in 1 .. Len(s) : i = s[m]
      BY <1>3
    <3>2. m - 1 = n - 1
      BY <1>5, <2>2, <3>1
    <3> QED  BY <1>1, <3>1, <3>2
  <2> QED  BY <2>1, <2>2 DEF Ranked
<1>7. [n \in 1 .. Len(s) |-> Entry(Ranked(A, ids, n), A[Ranked(A, ids, n)], V[Ranked(A, ids, n)])]
        = [n \in 1 .. Len(s) |-> Entry(s[n], A[s[n]], V[s[n]])]
  BY <1>6
<1> QED  BY <1>2, <1>4, <1>7 DEF TimelineOf, LineOf
-----------------------------------------------------------------------------
(* Histories *)

Kinds == {"money", "cash_dividend", "cash_transfer", "fx_conversion", "position_transfer",
          "position_adjustment", "cost_adjustment", "trade", "value_update", "debt_draw",
          "debt_payment", "reversal"}
Acts == [kind : Kinds, at : Nat, made : Nat, order : Nat, eff : Lists, reverses : Nat,
         replaces : Nat, fix : BOOLEAN]
RowSets == UNION {[D -> Int] : D \in SUBSET Endpoints}

(* An activity that takes another one back: an undo, behind an original that is still in
   the timeline, or the evidence of a fix. *)
Reversal(A, i) ==
    LET r == A[i].reverses
    IN  /\ r \in 1 .. i - 1
        /\ A[i].fix \/ /\ Undoes(A[i], A[r]) /\ Precedes(A[r], A[i])
                       /\ \A j \in DOMAIN A : A[j].replaces # r

(* The histories the service writes, up to the instant t. *)
History(A, t) ==
    /\ A \in Seq(Acts) /\ t \in Nat
    /\ \A i \in DOMAIN A : A[i].at <= t /\ A[i].made <= t /\ A[i].order <= i
    /\ \A i \in DOMAIN A : Recorded(A[i]) \/ Observed(A[i]) \/ Reversal(A, i)
    /\ \A i \in DOMAIN A : A[i].replaces # None =>
          /\ A[i].replaces \in 1 .. i - 1
          /\ \E k \in DOMAIN A : A[k].reverses = A[i].replaces

(* An activity that the service may add: at the end of the history, whatever its date. *)
New(A, a, t) ==
    /\ a \in Acts /\ a.at <= t /\ a.made = t /\ a.order = Len(A) + 1 /\ a.replaces = None /\ a.fix = FALSE
    /\ \/ Recorded(a) \/ Observed(a)
       \/ /\ a.reverses \in 1 .. Len(A) /\ Undoes(a, A[a.reverses]) /\ A[a.reverses].at <= a.at
          /\ \A j \in DOMAIN A : A[j].replaces # a.reverses

(* The members of a history. *)
LEMMA HistoryFacts ==
    ASSUME NEW A, NEW t, History(A, t)
    PROVE  /\ Len(A) \in Nat /\ DOMAIN A = 1 .. Len(A) /\ AllStamped(A)
           /\ \A i \in 1 .. Len(A) : A[i] \in Acts /\ A[i].eff \in Lists /\ A[i].reverses \in Nat /\ A[i].replaces \in Nat
<1>1. Len(A) \in Nat /\ DOMAIN A = 1 .. Len(A) /\ \A i \in 1 .. Len(A) : A[i] \in Acts
  BY DEF History
<1>2. \A a \in Acts : Stamped(a) /\ a.eff \in Lists /\ a.reverses \in Nat /\ a.replaces \in Nat
  BY DEF Acts, Stamped
<1> QED  BY <1>1, <1>2 DEF AllStamped

(* A sequence with one more element. *)
LEMMA AppendFacts ==
    ASSUME NEW S, NEW A \in Seq(S), NEW a \in S
    PROVE  /\ Append(A, a) \in Seq(S) /\ Len(Append(A, a)) = Len(A) + 1
           /\ DOMAIN Append(A, a) = 1 .. Len(A) + 1
           /\ \A i \in 1 .. Len(A) : Append(A, a)[i] = A[i]
           /\ Append(A, a)[Len(A) + 1] = a
           /\ \A i \in 1 .. Len(A) + 1 : i \in 1 .. Len(A) \/ i = Len(A) + 1
           /\ Len(A) \in Nat
OBVIOUS

(* A new activity keeps the history well formed. *)
LEMMA ExtendHistory ==
    ASSUME NEW A, NEW t, History(A, t), NEW a, New(A, a, t)
    PROVE  History(Append(A, a), t)
<1>1. PICK A2, N : A2 = Append(A, a) /\ N = Len(A) + 1
  OBVIOUS
<1>2. /\ A2 \in Seq(Acts) /\ DOMAIN A2 = 1 .. N /\ A2[N] = a /\ N \in Nat /\ N = Len(A) + 1
      /\ \A i \in 1 .. Len(A) : A2[i] = A[i] /\ i \in 1 .. N
      /\ \A i \in 1 .. N : i \in 1 .. Len(A) \/ i = N
      /\ Len(A) \in Nat /\ DOMAIN A = 1 .. Len(A)
  BY <1>1, AppendFacts DEF New, History
<1>3. \A i \in 1 .. N : A2[i].at <= t /\ A2[i].made <= t /\ A2[i].order <= i
  <2> TAKE i \in 1 .. N
  <2>1. CASE i \in 1 .. Len(A)
    BY <1>2, <2>1 DEF History
  <2>2. CASE i = N
    BY <1>2, <2>2 DEF New, History
  <2> QED  BY <1>2, <2>1, <2>2
<1>4. \A i \in 1 .. N : A2[i].replaces # None =>
          /\ A2[i].replaces \in 1 .. i - 1
          /\ \E k \in 1 .. N : A2[k].reverses = A2[i].replaces
  <2> TAKE i \in 1 .. N
  <2>1. CASE i \in 1 .. Len(A)
    <3>1. A2[i] = A[i] /\ i \in DOMAIN A
      BY <1>2, <2>1
    <3>2. ASSUME A[i].replaces # None
          PROVE  A[i].replaces \in 1 .. i - 1 /\ \E k \in 1 .. Len(A) : A[k].reverses = A[i].replaces
      BY <1>2, <3>1, <3>2 DEF History
    <3> QED  BY <1>2, <3>1, <3>2
  <2>2. CASE i = N
    BY <1>2, <2>2 DEF New
  <2> QED  BY <1>2, <2>1, <2>2
<1>5. \A i \in 1 .. N : Recorded(A2[i]) \/ Observed(A2[i]) \/ Reversal(A2, i)
  <2> TAKE i \in 1 .. N
  <2>1. CASE i \in 1 .. Len(A)
    <3>1. A2[i] = A[i] /\ i \in DOMAIN A
      BY <1>2, <2>1
    <3>2. ASSUME Reversal(A, i)
          PROVE  Reversal(A2, i)
      <4>1. PICK r : r = A[i].reverses
        OBVIOUS
      <4>2. r \in 1 .. i - 1 /\ r \in 1 .. Len(A)
        BY <1>2, <2>1, <3>2, <4>1 DEF Reversal
      <4>3. A2[r] = A[r]
        BY <1>2, <4>2
      <4>4. (\A j \in DOMAIN A : A[j].replaces # r) => \A j \in DOMAIN A2 : A2[j].replaces # r
        <5>1. a.replaces # r
          BY <1>2, <4>2 DEF New, None
        <5> QED  BY <1>2, <5>1
      <4> QED  BY <3>1, <3>2, <4>1, <4>2, <4>3, <4>4 DEF Reversal
    <3> QED  BY <3>1, <3>2 DEF History
  <2>2. CASE i = N
    <3>1. A2[i] = a
      BY <1>2, <2>2
    <3>2. CASE Recorded(a) \/ Observed(a)
      BY <3>1, <3>2
    <3>3. CASE /\ a.reverses \in 1 .. Len(A) /\ Undoes(a, A[a.reverses]) /\ A[a.reverses].at <= a.at
               /\ \A j \in DOMAIN A : A[j].replaces # a.reverses
      <4>1. PICK r : r = a.reverses
        OBVIOUS
      <4>2. r \in 1 .. Len(A) /\ r \in 1 .. i - 1 /\ A2[r] = A[r] /\ a.replaces # r
        BY <1>2, <2>2, <3>3, <4>1 DEF New, None
      <4>3. Precedes(A[r], a)
        <5>1. Stamped(A[r])
          BY <1>2, <4>2, HistoryFacts DEF AllStamped
        <5>2. A[r].made <= t /\ A[r].order <= r
          BY <1>2, <4>2 DEF History
        <5>3. a.made = t /\ a.order = N /\ A[r].at <= a.at /\ a.at \in Nat /\ t \in Nat
          BY <1>2, <3>3, <4>1 DEF New, History, Acts
        <5> QED  BY <1>2, <4>2, <5>1, <5>2, <5>3 DEF Precedes, Stamped
      <4>4. \A j \in DOMAIN A2 : A2[j].replaces # r
        BY <1>2, <3>3, <4>1, <4>2
      <4> QED  BY <3>1, <3>3, <4>1, <4>2, <4>3, <4>4 DEF Reversal
    <3> QED  BY <3>2, <3>3 DEF New
  <2> QED  BY <1>2, <2>1, <2>2
<1>6. t \in Nat
  BY DEF History
<1> QED  BY <1>1, <1>2, <1>3, <1>4, <1>5, <1>6 DEF History

(* What the rows hold for an observation. *)
Targets(A, V) == \A i \in DOMAIN A : Observed(A[i]) => V[i][A[i].eff[1].on] \in Int

(* The entry of an activity. *)
LEMMA EntryFields ==
    ASSUME NEW i, NEW a, NEW v
    PROVE  LET x == Entry(i, a, v)
           IN  /\ x.id = i /\ x.seen = v /\ x.kind = a.kind /\ x.at = a.at /\ x.made = a.made
               /\ x.order = a.order /\ x.eff = a.eff /\ x.reverses = a.reverses
               /\ Recorded(x) <=> Recorded(a)
               /\ Observed(x) <=> Observed(a)
               /\ \A o : (Undoes(x, o) <=> Undoes(a, o)) /\ (Undoes(o, x) <=> Undoes(o, a))
<1>1. PICK x : x = Entry(i, a, v)
  OBVIOUS
<1>2. /\ x.id = i /\ x.seen = v /\ x.kind = a.kind /\ x.at = a.at /\ x.made = a.made
      /\ x.order = a.order /\ x.eff = a.eff /\ x.reverses = a.reverses
  BY <1>1 DEF Entry
<1>3. Recorded(x) <=> Recorded(a)
  BY <1>2 DEF Recorded
<1>4. Observed(x) <=> Observed(a)
  BY <1>2 DEF Observed
<1>5. \A o : (Undoes(x, o) <=> Undoes(a, o)) /\ (Undoes(o, x) <=> Undoes(o, a))
  BY <1>2, <1>3, <1>4 DEF Undoes
<1> QED  BY <1>1, <1>2, <1>3, <1>4, <1>5

(* The timeline of a history is one that can be replayed. *)
LEMMA HistoryLine ==
    ASSUME NEW A, NEW t, History(A, t), NEW s, IsOrder(A, s), NEW V, Targets(A, V)
    PROVE  /\ IsLine(LineOf(A, V, s)) /\ Len(LineOf(A, V, s)) = Len(s)
           /\ \A n \in 1 .. Len(s) : LineOf(A, V, s)[n] = Entry(s[n], A[s[n]], V[s[n]])
<1>1. PICK L : L = LineOf(A, V, s)
  OBVIOUS
<1>2. /\ Len(s) \in Nat /\ Len(L) = Len(s) /\ DOMAIN L = 1 .. Len(s)
      /\ \A n \in 1 .. Len(s) : L[n] = Entry(s[n], A[s[n]], V[s[n]])
  BY <1>1 DEF LineOf, IsOrder
<1>3. \A n \in 1 .. Len(s) : s[n] \in 1 .. Len(A) /\ Economic(A, s[n]) /\ s[n] \in DOMAIN A
  BY HistoryFacts DEF IsOrder
<1>4. \A n \in 1 .. Len(s) : L[n].id \in Nat \ {0}
  BY <1>2, <1>3, HistoryFacts, EntryFields
<1>5. \A m, n \in 1 .. Len(s) : L[m].id = L[n].id => m = n
  BY <1>2, HistoryFacts, OrderFacts, EntryFields
<1>6. ASSUME NEW n \in 1 .. Len(s), Observed(L[n])
      PROVE  L[n].seen[L[n].eff[1].on] \in Int
  <2>1. Observed(A[s[n]]) /\ L[n].seen = V[s[n]] /\ L[n].eff = A[s[n]].eff
    BY <1>2, <1>6, EntryFields
  <2> QED  BY <1>3, <2>1 DEF Targets
<1>7. ASSUME NEW n \in 1 .. Len(s)
      PROVE  \/ Recorded(L[n]) \/ Observed(L[n])
             \/ \E m \in 1 .. n - 1 : L[n].reverses = L[m].id /\ Undoes(L[n], L[m])
  <2>1. PICK i : i = s[n]
    OBVIOUS
  <2>2. i \in DOMAIN A /\ Economic(A, i) /\ i \in 1 .. Len(A) /\ L[n] = Entry(i, A[i], V[i])
    BY <1>2, <1>3, <2>1
  <2>3. CASE Recorded(A[i]) \/ Observed(A[i])
    BY <2>2, <2>3, EntryFields
  <2>4. CASE Reversal(A, i)
    <3>1. PICK r : r = A[i].reverses
      OBVIOUS
    <3>2. r \in 1 .. i - 1 /\ r \in 1 .. Len(A) /\ r \in DOMAIN A
      BY <2>2, <2>4, <3>1, HistoryFacts DEF Reversal
    <3>3. ~A[i].fix
      BY <2>2, <3>1, <3>2 DEF Economic, None
    <3>4. Undoes(A[i], A[r]) /\ Precedes(A[r], A[i]) /\ \A j \in DOMAIN A : A[j].replaces # r
      BY <2>4, <3>1, <3>3 DEF Reversal
    <3>5. A[r].reverses = None
      BY <3>4 DEF Undoes, Recorded, Observed
    <3>6. Economic(A, r)
      BY <3>4, <3>5 DEF Economic
    <3>7. PICK m \in 1 .. Len(s) : s[m] = r
      BY <3>2, <3>6 DEF IsOrder
    <3>8. m < n
      BY <2>1, <3>4, <3>7, HistoryFacts, OrderFacts
    <3>9. m \in 1 .. n - 1
      BY <1>2, <3>8
    <3>10. L[m] = Entry(r, A[r], V[r])
      BY <1>2, <3>7
    <3>11. L[n].reverses = L[m].id
      BY <2>2, <3>1, <3>10, EntryFields
    <3>12. Undoes(L[n], L[m])
      <4>1. Undoes(A[i], L[m])
        BY <3>4, <3>10, EntryFields
      <4> QED  BY <2>2, <4>1, EntryFields
    <3> QED  BY <3>9, <3>11, <3>12
  <2> QED  BY <2>2, <2>3, <2>4 DEF History
<1>8. IsLine(L)
  BY <1>2, <1>4, <1>5, <1>6, <1>7 DEF IsLine
<1> QED  BY <1>1, <1>2, <1>8

(* How many entries of the timeline are not later than the instant at. *)
Behind(A, s, at) == Cardinality({m \in 1 .. Len(s) : A[s[m]].at <= at})

(* They are the first ones. *)
LEMMA BehindFacts ==
    ASSUME NEW A, NEW t, History(A, t), NEW s, IsOrder(A, s), NEW at \in Nat
    PROVE  /\ Behind(A, s, at) \in 0 .. Len(s)
           /\ \A m \in 1 .. Len(s) : A[s[m]].at <= at <=> m <= Behind(A, s, at)
<1>1. PICK T : T = {m \in 1 .. Len(s) : A[s[m]].at <= at}
  OBVIOUS
<1>2. Len(s) \in Nat /\ T \in SUBSET (1 .. Len(s))
  BY <1>1 DEF IsOrder
<1>3. ASSUME NEW n \in T, NEW m \in 1 .. Len(s), m < n
      PROVE  m \in T
  <2>1. Precedes(A[s[m]], A[s[n]]) /\ s[m] \in DOMAIN A /\ s[n] \in DOMAIN A /\ A[s[n]].at <= at
    BY <1>1, <1>3 DEF IsOrder
  <2>2. A[s[m]].at \in Nat /\ A[s[n]].at \in Nat
    BY <2>1, HistoryFacts DEF AllStamped, Stamped
  <2>3. A[s[m]].at <= at
    BY <2>1, <2>2 DEF Precedes
  <2> QED  BY <1>1, <2>3
<1>4. Cardinality(T) \in 0 .. Len(s) /\ T = 1 .. Cardinality(T)
  BY <1>2, <1>3, InitialSegment
<1>5. PICK n : n = Behind(A, s, at)
  OBVIOUS
<1>6. n \in 0 .. Len(s) /\ T = 1 .. n
  BY <1>1, <1>4, <1>5 DEF Behind
<1>7. \A m \in 1 .. Len(s) : m \in T <=> m <= n
  BY <1>2, <1>6
<1> QED  BY <1>1, <1>5, <1>6, <1>7

(* The place of a new activity: behind everything that is not later. *)
LEMMA NewPrecedes ==
    ASSUME NEW A, NEW t, History(A, t), NEW s, IsOrder(A, s), NEW a, New(A, a, t)
    PROVE  \A m \in 1 .. Len(s) :
              /\ m <= Behind(A, s, a.at) => Precedes(A[s[m]], a)
              /\ m > Behind(A, s, a.at) => Precedes(a, A[s[m]])
<1> TAKE m \in 1 .. Len(s)
<1>1. s[m] \in 1 .. Len(A) /\ s[m] \in DOMAIN A /\ Len(A) \in Nat
  BY HistoryFacts DEF IsOrder
<1>2. Stamped(A[s[m]]) /\ A[s[m]].made <= t /\ A[s[m]].order <= s[m]
  BY <1>1, HistoryFacts DEF AllStamped, History
<1>3. a.at \in Nat /\ a.made = t /\ a.order = Len(A) + 1 /\ t \in Nat
  BY DEF New, Acts, History
<1>4. Behind(A, s, a.at) \in 0 .. Len(s) /\ (A[s[m]].at <= a.at <=> m <= Behind(A, s, a.at))
  BY <1>3, BehindFacts
<1>5. ASSUME m <= Behind(A, s, a.at)
      PROVE  Precedes(A[s[m]], a)
  BY <1>1, <1>2, <1>3, <1>4, <1>5 DEF Precedes, Stamped
<1>6. ASSUME m > Behind(A, s, a.at)
      PROVE  Precedes(a, A[s[m]])
  <2>1. ~(m <= Behind(A, s, a.at))
    BY <1>4, <1>6 DEF IsOrder
  <2> QED  BY <1>2, <1>3, <1>4, <2>1 DEF Precedes, Stamped
<1> QED  BY <1>5, <1>6

(* A list with one more element behind the first n. *)
LEMMA PlacedFacts ==
    ASSUME NEW s, Len(s) \in Nat, NEW n \in 0 .. Len(s), NEW x
    PROVE  /\ Len(Placed(s, n, x)) = Len(s) + 1 /\ DOMAIN Placed(s, n, x) = 1 .. Len(s) + 1
           /\ \A m \in 1 .. n : Placed(s, n, x)[m] = s[m]
           /\ Placed(s, n, x)[n + 1] = x /\ n + 1 \in 1 .. Len(s) + 1
           /\ \A m \in n + 1 .. Len(s) : Placed(s, n, x)[m + 1] = s[m]
           /\ \A m \in n + 2 .. Len(s) + 1 : Placed(s, n, x)[m] = s[m - 1]
<1>1. PICK p : p = Placed(s, n, x)
  OBVIOUS
<1>2. p = [m \in 1 .. Len(s) + 1 |-> IF m <= n THEN s[m] ELSE IF m = n + 1 THEN x ELSE s[m - 1]]
  BY <1>1 DEF Placed
<1>3. Len(s) + 1 \in Nat /\ n \in Nat
  OBVIOUS
<1>4. Len(p) = Len(s) + 1 /\ DOMAIN p = 1 .. Len(s) + 1
  BY <1>2, <1>3
<1>5. \A m \in 1 .. n : p[m] = s[m]
  BY <1>2
<1>6. p[n + 1] = x
  BY <1>2
<1>7. \A m \in n + 1 .. Len(s) : p[m + 1] = s[m]
  BY <1>2
<1>8. \A m \in n + 2 .. Len(s) + 1 : p[m] = s[m - 1]
  BY <1>2
<1>9. n + 1 \in 1 .. Len(s) + 1
  OBVIOUS
<1> QED  BY <1>1, <1>4, <1>5, <1>6, <1>7, <1>8, <1>9

(* The order with the new activity in its place. *)
LEMMA InsertOrder ==
    ASSUME NEW A, NEW t, History(A, t), NEW s, IsOrder(A, s), NEW a, New(A, a, t)
    PROVE  IsOrder(Append(A, a), Placed(s, Behind(A, s, a.at), Len(A) + 1))
<1>1. PICK A2, N, n, s2 : A2 = Append(A, a) /\ N = Len(A) + 1 /\ n = Behind(A, s, a.at) /\ s2 = Placed(s, n, N)
  OBVIOUS
<1>2. /\ DOMAIN A2 = 1 .. N /\ A2[N] = a /\ N \in Nat /\ N = Len(A) + 1
      /\ \A i \in 1 .. Len(A) : A2[i] = A[i] /\ i \in 1 .. N
      /\ \A i \in 1 .. N : i \in 1 .. Len(A) \/ i = N
      /\ Len(A) \in Nat /\ DOMAIN A = 1 .. Len(A)
  BY <1>1, AppendFacts DEF New, History
<1>3. Len(s) \in Nat /\ n \in 0 .. Len(s)
  BY <1>1, BehindFacts DEF IsOrder, New, Acts
<1>4. /\ Len(s2) = Len(s) + 1 /\ DOMAIN s2 = 1 .. Len(s) + 1
      /\ \A m \in 1 .. n : s2[m] = s[m]
      /\ s2[n + 1] = N /\ n + 1 \in 1 .. Len(s) + 1
      /\ \A m \in n + 1 .. Len(s) : s2[m + 1] = s[m]
      /\ \A m \in n + 2 .. Len(s) + 1 : s2[m] = s[m - 1]
  BY <1>1, <1>3, PlacedFacts
<1>5. ASSUME NEW m \in 1 .. Len(s) + 1
      PROVE  \/ m = n + 1
             \/ m <= n /\ m \in 1 .. Len(s) /\ s2[m] = s[m]
             \/ m > n + 1 /\ m - 1 \in 1 .. Len(s) /\ s2[m] = s[m - 1]
  BY <1>3, <1>4
<1>6. \A i \in 1 .. Len(A) : Economic(A2, i) <=> Economic(A, i)
  <2> TAKE i \in 1 .. Len(A)
  <2>1. A2[i] = A[i] /\ a.replaces # i
    BY <1>2 DEF New, None
  <2> QED  BY <1>2, <2>1 DEF Economic
<1>7. Economic(A2, N)
  <2>1. \A j \in 1 .. Len(A) : A[j].replaces # N
    <3> TAKE j \in 1 .. Len(A)
    <3>1. A[j].replaces = 0 \/ A[j].replaces \in 1 .. j - 1
      BY <1>2 DEF History, None
    <3> QED  BY <1>2, <3>1
  <2>2. \A j \in 1 .. N : A2[j].replaces # N
    BY <1>2, <2>1 DEF New, None
  <2>3. ~A2[N].fix
    BY <1>2 DEF New
  <2> QED  BY <1>2, <2>2, <2>3 DEF Economic
<1>8. \A m \in 1 .. Len(s) : s[m] \in 1 .. Len(A) /\ Economic(A, s[m]) /\ A2[s[m]] = A[s[m]]
  BY <1>2 DEF IsOrder
<1>9. \A m \in 1 .. Len(s) + 1 : s2[m] \in DOMAIN A2 /\ Economic(A2, s2[m])
  <2> TAKE m \in 1 .. Len(s) + 1
  <2>1. CASE m = n + 1
    BY <1>2, <1>4, <1>7, <2>1
  <2>2. CASE m <= n /\ m \in 1 .. Len(s) /\ s2[m] = s[m]
    BY <1>2, <1>6, <1>8, <2>2
  <2>3. CASE m > n + 1 /\ m - 1 \in 1 .. Len(s) /\ s2[m] = s[m - 1]
    BY <1>2, <1>6, <1>8, <2>3
  <2> QED  BY <1>5, <2>1, <2>2, <2>3
<1>10. ASSUME NEW i \in DOMAIN A2, Economic(A2, i)
       PROVE  \E m \in 1 .. Len(s) + 1 : s2[m] = i
  <2>1. CASE i = N
    BY <1>4, <2>1
  <2>2. CASE i \in 1 .. Len(A)
    <3>1. Economic(A, i)
      BY <1>6, <1>10, <2>2
    <3>2. PICK m \in 1 .. Len(s) : s[m] = i
      BY <1>2, <2>2, <3>1 DEF IsOrder
    <3>3. CASE m <= n
      <4>1. m \in 1 .. n /\ m \in 1 .. Len(s) + 1
        BY <1>3, <3>3
      <4> QED  BY <1>4, <3>2, <4>1
    <3>4. CASE m > n
      <4>1. m \in n + 1 .. Len(s) /\ m + 1 \in 1 .. Len(s) + 1
        BY <1>3, <3>4
      <4> QED  BY <1>4, <3>2, <4>1
    <3> QED  BY <1>3, <3>3, <3>4
  <2> QED  BY <1>2, <2>1, <2>2
<1>11. \A m \in 1 .. Len(s) : (m <= n => Precedes(A[s[m]], a)) /\ (m > n => Precedes(a, A[s[m]]))
  BY <1>1, NewPrecedes
<1>12. ASSUME NEW m \in 1 .. Len(s) + 1, NEW k \in 1 .. Len(s) + 1, m < k
       PROVE  Precedes(A2[s2[m]], A2[s2[k]])
  <2>1. \/ m = n + 1
        \/ m <= n /\ m \in 1 .. Len(s) /\ s2[m] = s[m]
        \/ m > n + 1 /\ m - 1 \in 1 .. Len(s) /\ s2[m] = s[m - 1]
    BY <1>5
  <2>2. \/ k = n + 1
        \/ k <= n /\ k \in 1 .. Len(s) /\ s2[k] = s[k]
        \/ k > n + 1 /\ k - 1 \in 1 .. Len(s) /\ s2[k] = s[k - 1]
    BY <1>5
  <2>3. \A p, q \in 1 .. Len(s) : p < q => Precedes(A[s[p]], A[s[q]])
    BY DEF IsOrder
  <2>4. CASE m = n + 1
    <3>1. k > n + 1 /\ k - 1 \in 1 .. Len(s) /\ s2[k] = s[k - 1]
      BY <1>3, <1>12, <2>2, <2>4
    <3>2. PICK q \in 1 .. Len(s) : q = k - 1 /\ q > n
      BY <1>3, <3>1
    <3> QED  BY <1>2, <1>4, <1>8, <1>11, <2>4, <3>1, <3>2
  <2>5. CASE k = n + 1
    <3>1. m <= n /\ m \in 1 .. Len(s) /\ s2[m] = s[m]
      BY <1>3, <1>12, <2>1, <2>5
    <3> QED  BY <1>2, <1>4, <1>8, <1>11, <2>5, <3>1
  <2>6. CASE m # n + 1 /\ k # n + 1
    <3>1. PICK p \in 1 .. Len(s) : s2[m] = s[p] /\ p = IF m <= n THEN m ELSE m - 1
      BY <1>3, <2>1, <2>6
    <3>2. PICK q \in 1 .. Len(s) : s2[k] = s[q] /\ q = IF k <= n THEN k ELSE k - 1
      BY <1>3, <2>2, <2>6
    <3>3. p < q
      BY <1>3, <1>12, <2>6, <3>1, <3>2
    <3> QED  BY <1>8, <2>3, <3>1, <3>2, <3>3
  <2> QED  BY <2>4, <2>5, <2>6
<1>13. IsOrder(A2, s2)
  BY <1>3, <1>4, <1>9, <1>10, <1>12 DEF IsOrder
<1> QED  BY <1>1, <1>13

(* The timeline of the longer history is the old one with the entry in its place. *)
LEMMA InsertLine ==
    ASSUME NEW A, NEW t, History(A, t), NEW s, IsOrder(A, s), NEW a, New(A, a, t),
           NEW S, NEW V \in Seq(S), Len(V) = Len(A), NEW v \in S
    PROVE  LineOf(Append(A, a), Append(V, v), Placed(s, Behind(A, s, a.at), Len(A) + 1))
             = Placed(LineOf(A, V, s), Behind(A, s, a.at), Entry(Len(A) + 1, a, v))
<1>1. PICK A2, V2, N, n, s2, L : /\ A2 = Append(A, a) /\ V2 = Append(V, v) /\ N = Len(A) + 1
                                 /\ n = Behind(A, s, a.at) /\ s2 = Placed(s, n, N) /\ L = LineOf(A, V, s)
  OBVIOUS
<1>2. /\ A2[N] = a /\ V2[N] = v
      /\ \A i \in 1 .. Len(A) : A2[i] = A[i] /\ V2[i] = V[i]
  BY <1>1, AppendFacts DEF New, History
<1>3. Len(s) \in Nat /\ n \in 0 .. Len(s) /\ \A m \in 1 .. Len(s) : s[m] \in 1 .. Len(A)
  BY <1>1, BehindFacts, HistoryFacts DEF IsOrder, New, Acts
<1>4. Len(L) = Len(s) /\ \A m \in 1 .. Len(s) : L[m] = Entry(s[m], A[s[m]], V[s[m]])
  BY <1>1, <1>3 DEF LineOf
<1>5. Len(s2) = Len(s) + 1
  BY <1>1, <1>3, PlacedFacts
<1>6. ASSUME NEW m \in 1 .. Len(s) + 1
      PROVE  Entry(s2[m], A2[s2[m]], V2[s2[m]])
               = IF m <= n THEN L[m] ELSE IF m = n + 1 THEN Entry(N, a, v) ELSE L[m - 1]
  <2>1. s2[m] = IF m <= n THEN s[m] ELSE IF m = n + 1 THEN N ELSE s[m - 1]
    BY <1>1 DEF Placed
  <2>2. CASE m <= n
    <3>1. m \in 1 .. Len(s)
      BY <1>3, <2>2
    <3> QED  BY <1>2, <1>3, <1>4, <2>1, <2>2, <3>1
  <2>3. CASE m = n + 1
    <3>1. ~(m <= n)
      BY <1>3, <2>3
    <3> QED  BY <1>2, <2>1, <2>3, <3>1
  <2>4. CASE m > n + 1
    <3>1. m - 1 \in 1 .. Len(s) /\ ~(m <= n) /\ m # n + 1
      BY <1>3, <2>4
    <3>2. PICK k \in 1 .. Len(s) : k = m - 1
      BY <3>1
    <3> QED  BY <1>2, <1>3, <1>4, <2>1, <3>1, <3>2
  <2> QED  BY <1>3, <2>2, <2>3, <2>4
<1>7. LineOf(A2, V2, s2) = [m \in 1 .. Len(s) + 1 |-> Entry(s2[m], A2[s2[m]], V2[s2[m]])]
  BY <1>5 DEF LineOf
<1>8. Placed(L, n, Entry(N, a, v))
        = [m \in 1 .. Len(s) + 1 |-> IF m <= n THEN L[m] ELSE IF m = n + 1 THEN Entry(N, a, v) ELSE L[m - 1]]
  BY <1>4 DEF Placed
<1>9. LineOf(A2, V2, s2) = Placed(L, n, Entry(N, a, v))
  BY <1>6, <1>7, <1>8
<1> QED  BY <1>1, <1>9
-----------------------------------------------------------------------------
(* The ledger: history, event rows and current values *)

(* The rows have the endpoints that the effects touch. *)
Sound(A, V, t, s) ==
    /\ History(A, t) /\ IsOrder(A, s)
    /\ V \in Seq(RowSets) /\ Len(V) = Len(A)
    /\ \A i \in DOMAIN A : DOMAIN V[i] = Touched(A[i].eff)

(* The rows of every entry that contributes something hold the balances after it. *)
Shown(L, E) ==
    \A n \in 1 .. Len(L) : E[n] # <<>> => \A e \in Touched(L[n].eff) : L[n].seen[e] = Balances(E)[n][e]

Ledger(A, V, cur, t, s) ==
    /\ Sound(A, V, t, s)
    /\ cur = Final(ReplayMoneyEffects(LineOf(A, V, s)))
    /\ Replays(ReplayMoneyEffects(LineOf(A, V, s)))
    /\ Shown(LineOf(A, V, s), ReplayMoneyEffects(LineOf(A, V, s)))

(* The rows of an observation hold its target. *)
LEMMA SoundTargets ==
    ASSUME NEW A, NEW V, NEW t, NEW s, Sound(A, V, t, s)
    PROVE  /\ Targets(A, V)
           /\ \A i \in DOMAIN A : \A e \in DOMAIN V[i] : V[i][e] \in Int /\ e \in Endpoints
<1>1. \A i \in DOMAIN A : V[i] \in RowSets
  BY HistoryFacts DEF Sound
<1>2. \A v \in RowSets : \A e \in DOMAIN v : v[e] \in Int /\ e \in Endpoints
  <2> SUFFICES ASSUME NEW v \in RowSets, NEW e \in DOMAIN v
               PROVE  v[e] \in Int /\ e \in Endpoints
    OBVIOUS
  <2>1. PICK D \in SUBSET Endpoints : v \in [D -> Int]
    BY DEF RowSets
  <2> QED  BY <2>1
<1>3. \A i \in DOMAIN A : Observed(A[i]) => A[i].eff[1].on \in DOMAIN V[i]
  BY SingleTouched DEF Sound, Observed
<1> QED  BY <1>1, <1>2, <1>3 DEF Targets

(* The timeline of a ledger and its replay. *)
LEMMA SoundLine ==
    ASSUME LedgerAssumption, NEW A, NEW V, NEW t, NEW s, Sound(A, V, t, s),
           NEW L, L = LineOf(A, V, s), NEW E, E = ReplayMoneyEffects(L)
    PROVE  /\ IsLine(L) /\ Len(L) = Len(s) /\ Len(s) \in Nat
           /\ \A n \in 1 .. Len(s) : L[n] = Entry(s[n], A[s[n]], V[s[n]])
           /\ IsReplay(L, E, Balances(E))
           /\ E \in Seq(Lists) /\ Len(E) = Len(s) /\ DOMAIN E = 1 .. Len(s)
           /\ TimelineOf(A, V) = L
<1>1. Targets(A, V) /\ History(A, t) /\ IsOrder(A, s) /\ AllStamped(A)
  BY SoundTargets, HistoryFacts DEF Sound
<1>2. IsLine(L) /\ Len(L) = Len(s) /\ \A n \in 1 .. Len(s) : L[n] = Entry(s[n], A[s[n]], V[s[n]])
  BY <1>1, HistoryLine
<1>3. IsReplay(L, E, Balances(E)) /\ E \in Seq(Lists) /\ Len(E) = Len(s) /\ DOMAIN E = 1 .. Len(s)
  BY <1>2, ReplayFacts
<1>4. TimelineOf(A, V) = L
  BY <1>1, TimelineOrder
<1>5. Len(s) \in Nat
  BY <1>1 DEF IsOrder
<1> QED  BY <1>2, <1>3, <1>4, <1>5

(* An operation replays a timeline M and writes rows V.  When M and the timeline of what was
   written cannot be told apart, and the rows of whatever contributes hold the balances, the
   new ledger is in order. *)
LEMMA Settle ==
    ASSUME LedgerAssumption, NEW A, NEW V, NEW t, NEW s, Sound(A, V, t, s),
           NEW M, IsLine(M), Len(M) = Len(s), NEW F, F = ReplayMoneyEffects(M),
           \A m \in 1 .. Len(s) : Alike(M[m], Entry(s[m], A[s[m]], V[s[m]])),
           Replays(F),
           \A m \in 1 .. Len(s) : F[m] # <<>> =>
              \A e \in Touched(A[s[m]].eff) : V[s[m]][e] = Balances(F)[m][e]
    PROVE  Ledger(A, V, Final(F), t, s)
<1>1. PICK L, E : L = LineOf(A, V, s) /\ E = ReplayMoneyEffects(L)
  OBVIOUS
<1>2. /\ IsLine(L) /\ Len(L) = Len(s) /\ Len(s) \in Nat
      /\ \A n \in 1 .. Len(s) : L[n] = Entry(s[n], A[s[n]], V[s[n]])
      /\ IsReplay(L, E, Balances(E))
      /\ E \in Seq(Lists) /\ Len(E) = Len(s) /\ DOMAIN E = 1 .. Len(s)
  BY <1>1, SoundLine
<1>3. IsReplay(M, F, Balances(F)) /\ F \in Seq(Lists) /\ Len(F) = Len(s) /\ DOMAIN F = 1 .. Len(s)
  BY ReplayFacts
<1>4. \A m \in 1 .. Len(s) : Alike(M[m], L[m])
  BY <1>2
<1>5. Len(s) \in 0 .. Len(M) /\ Len(s) <= Len(L)
  BY <1>2
<1>6. \A m \in 1 .. Len(s) : E[m] = F[m]
  <2>1. PICK B, C, K : B = Balances(E) /\ C = Balances(F) /\ K = Len(s)
    OBVIOUS
  <2>2. IsReplay(L, E, B) /\ IsReplay(M, F, C)
    BY <1>2, <1>3, <2>1
  <2>3. K \in 0 .. Len(M) /\ K <= Len(L) /\ \A m \in 1 .. K : Alike(M[m], L[m])
    BY <1>4, <1>5, <2>1
  <2>4. Agree(F, C, E, B, K)
    BY <2>2, <2>3, SamePrefix
  <2> QED  BY <2>1, <2>4 DEF Agree
<1>7. E = F
  BY <1>2, <1>3, <1>6
<1>8. Shown(L, F)
  <2> SUFFICES ASSUME NEW n \in 1 .. Len(L), F[n] # <<>>, NEW e \in Touched(L[n].eff)
               PROVE  L[n].seen[e] = Balances(F)[n][e]
    BY DEF Shown
  <2>1. n \in 1 .. Len(s) /\ L[n].eff = A[s[n]].eff /\ L[n].seen = V[s[n]]
    BY <1>2, EntryFields
  <2> QED  BY <2>1
<1> QED  BY <1>1, <1>7, <1>8 DEF Ledger

(* Overwritten rows. *)
LEMMA OverFacts ==
    ASSUME NEW old \in RowSets, NEW new, DOMAIN new \subseteq DOMAIN old,
           \A e \in DOMAIN new : new[e] \in Int
    PROVE  /\ Over(new, old) \in RowSets /\ DOMAIN Over(new, old) = DOMAIN old
           /\ \A e \in DOMAIN old : Over(new, old)[e] = IF e \in DOMAIN new THEN new[e] ELSE old[e]
<1>1. PICK D \in SUBSET Endpoints : old \in [D -> Int]
  BY DEF RowSets
<1>2. Over(new, old) = [e \in D |-> IF e \in DOMAIN new THEN new[e] ELSE old[e]] /\ DOMAIN old = D
  BY <1>1 DEF Over
<1>3. Over(new, old) \in [D -> Int]
  BY <1>1, <1>2
<1> QED  BY <1>1, <1>2, <1>3 DEF RowSets

(* The rows M's entries stand for: the activities A in the order s. *)
Stands(M, A, s) ==
    /\ Len(M) = Len(s)
    /\ \A m \in 1 .. Len(s) : /\ M[m].id = s[m] /\ M[m].kind = A[s[m]].kind
                              /\ Touched(M[m].eff) = Touched(A[s[m]].eff)

(* What a rebuild writes: the balances of this replay for every entry behind the first from
   that contributes something, and the rows as they were for the entries before it and for
   an observation that changes nothing. *)
Rewritten(A, V, R, s, M, F, from) ==
    \A m \in 1 .. Len(s) :
        /\ m <= from => V[s[m]] = R[s[m]]
        /\ M[m].kind = "value_update" /\ F[m] = <<>> => V[s[m]] = R[s[m]]
        /\ m > from /\ F[m] # <<>> =>
              \A e \in Touched(A[s[m]].eff) : V[s[m]][e] = Balances(F)[m][e]

(* A rebuild behind the first entries writes the rows of the replay and keeps the targets. *)
LEMMA RebuiltRows ==
    ASSUME LedgerAssumption, NEW A, NEW R, NEW t, NEW s, Sound(A, R, t, s),
           NEW M, IsLine(M), Stands(M, A, s), NEW F, F = ReplayMoneyEffects(M),
           NEW from \in 0 .. Len(s), NEW undo \in BOOLEAN,
           NEW V, V = Rebuilt(R, M, F, from, undo)
    PROVE  Sound(A, V, t, s) /\ Rewritten(A, V, R, s, M, F, from)
<1>1. /\ Len(s) \in Nat /\ Len(M) = Len(s) /\ DOMAIN M = 1 .. Len(s)
      /\ \A m \in 1 .. Len(s) : s[m] \in 1 .. Len(A)
      /\ Len(A) \in Nat /\ DOMAIN A = 1 .. Len(A) /\ DOMAIN R = 1 .. Len(A)
  BY HistoryFacts DEF Sound, IsOrder, IsLine, Stands
<1>2. IsReplay(M, F, Balances(F))
  BY ReplayFacts
<1>3. DOMAIN V = 1 .. Len(A)
  BY <1>1 DEF Rebuilt
<1>4. ASSUME NEW i \in 1 .. Len(A)
      PROVE  R[i] \in RowSets /\ DOMAIN R[i] = Touched(A[i].eff)
  BY <1>1, <1>4 DEF Sound
<1>5. ASSUME NEW i \in 1 .. Len(A), {n \in DOMAIN M : n > from /\ M[n].id = i} = {}
      PROVE  V[i] = R[i]
  BY <1>1, <1>5 DEF Rebuilt
<1>6. ASSUME NEW m \in 1 .. Len(s), m > from
      PROVE  /\ {n \in DOMAIN M : n > from /\ M[n].id = s[m]} = {m}
             /\ Min({n \in DOMAIN M : n > from /\ M[n].id = s[m]}) = m
  <2>1. \A n \in 1 .. Len(s) : M[n].id = s[m] => n = m
    BY <1>1 DEF Stands, IsLine
  <2>2. {n \in DOMAIN M : n > from /\ M[n].id = s[m]} = {m}
    BY <1>1, <1>6, <2>1 DEF Stands
  <2>3. Min({m}) = m
    BY MinSingle
  <2> QED  BY <2>2, <2>3
<1>7. ASSUME NEW m \in 1 .. Len(s), m <= from
      PROVE  V[s[m]] = R[s[m]]
  <2>1. {n \in DOMAIN M : n > from /\ M[n].id = s[m]} = {}
    BY <1>1, <1>7 DEF Stands, IsLine
  <2> QED  BY <1>1, <1>5, <2>1
<1>8. ASSUME NEW m \in 1 .. Len(s), m > from
      PROVE  V[s[m]] = IF M[m].kind = "value_update" /\ F[m] = <<>> THEN R[s[m]]
                       ELSE Over(Projection(M, F, m, undo), R[s[m]])
  <2>1. PICK H : H = {n \in DOMAIN M : n > from /\ M[n].id = s[m]}
    OBVIOUS
  <2>2. H = {m} /\ H # {} /\ Min(H) = m
    BY <1>6, <1>8, <2>1
  <2>3. V[s[m]] = IF H = {} \/ (M[Min(H)].kind = "value_update" /\ F[Min(H)] = <<>>)
                  THEN R[s[m]] ELSE Over(Projection(M, F, Min(H), undo), R[s[m]])
    BY <1>1, <2>1 DEF Rebuilt
  <2> QED  BY <2>2, <2>3
<1>9. ASSUME NEW m \in 1 .. Len(s), NEW P, P = Projection(M, F, m, undo)
      PROVE  /\ DOMAIN P \subseteq Touched(A[s[m]].eff)
             /\ \A e \in DOMAIN P : P[e] = Balances(F)[m][e] /\ P[e] \in Int
             /\ F[m] # <<>> => DOMAIN P = Touched(A[s[m]].eff)
  <2>1. PICK shown : shown = IF undo /\ F[m] = <<>> THEN M[m].eff ELSE F[m]
    OBVIOUS
  <2>2. P = [e \in Touched(shown) |-> Balances(F)[m][e]]
    BY <1>9, <2>1 DEF Projection, BalanceAfter
  <2>3. Touched(M[m].eff) = Touched(A[s[m]].eff) /\ m \in 1 .. Len(M)
    BY <1>1 DEF Stands
  <2>4. Carries(M[m], F[m], Balances(F)[m - 1], Balances(F)[m])
    BY <1>2, <2>3, EntryTouches
  <2>5. /\ Touched(F[m]) \subseteq Touched(M[m].eff)
        /\ F[m] # <<>> => Touched(F[m]) = Touched(M[m].eff)
    BY <2>4 DEF Carries
  <2>6. Balances(F)[m] \in Wallets
    BY <2>4 DEF Carries
  <2>7. Touched(shown) \subseteq Touched(A[s[m]].eff) /\ Touched(shown) \subseteq Endpoints
    BY <2>1, <2>3, <2>5 DEF Touched
  <2>8. \A e \in Touched(shown) : Balances(F)[m][e] \in Int
    BY <2>6, <2>7 DEF Wallets
  <2> QED  BY <2>1, <2>2, <2>3, <2>5, <2>7, <2>8
<1>10. ASSUME NEW m \in 1 .. Len(s), m > from
       PROVE  /\ V[s[m]] \in RowSets /\ DOMAIN V[s[m]] = Touched(A[s[m]].eff)
              /\ M[m].kind = "value_update" /\ F[m] = <<>> => V[s[m]] = R[s[m]]
              /\ F[m] # <<>> => \A e \in Touched(A[s[m]].eff) : V[s[m]][e] = Balances(F)[m][e]
  <2>1. PICK P, i : P = Projection(M, F, m, undo) /\ i = s[m]
    OBVIOUS
  <2>2. i \in 1 .. Len(A) /\ R[i] \in RowSets /\ DOMAIN R[i] = Touched(A[i].eff)
    BY <1>1, <1>4, <2>1
  <2>3. /\ DOMAIN P \subseteq Touched(A[i].eff)
        /\ \A e \in DOMAIN P : P[e] = Balances(F)[m][e] /\ P[e] \in Int
        /\ F[m] # <<>> => DOMAIN P = Touched(A[i].eff)
    BY <1>9, <2>1
  <2>4. V[i] = IF M[m].kind = "value_update" /\ F[m] = <<>> THEN R[i] ELSE Over(P, R[i])
    BY <1>8, <1>10, <2>1
  <2>5. /\ Over(P, R[i]) \in RowSets /\ DOMAIN Over(P, R[i]) = DOMAIN R[i]
        /\ \A e \in DOMAIN R[i] : Over(P, R[i])[e] = IF e \in DOMAIN P THEN P[e] ELSE R[i][e]
    BY <2>2, <2>3, OverFacts
  <2>6. V[i] \in RowSets /\ DOMAIN V[i] = Touched(A[i].eff)
    BY <2>2, <2>4, <2>5
  <2>7. F[m] # <<>> => \A e \in Touched(A[i].eff) : V[i][e] = Balances(F)[m][e]
    BY <2>2, <2>3, <2>4, <2>5
  <2> QED  BY <2>1, <2>4, <2>6, <2>7
<1>11. ASSUME NEW i \in 1 .. Len(A)
       PROVE  V[i] \in RowSets /\ DOMAIN V[i] = Touched(A[i].eff)
  <2>1. CASE \E m \in 1 .. Len(s) : m > from /\ s[m] = i
    BY <1>10, <2>1
  <2>2. CASE ~ \E m \in 1 .. Len(s) : m > from /\ s[m] = i
    <3>1. {n \in DOMAIN M : n > from /\ M[n].id = i} = {}
      BY <1>1, <2>2 DEF Stands
    <3> QED  BY <1>4, <1>5, <3>1
  <2> QED  BY <2>1, <2>2
<1>12. V = [i \in 1 .. Len(A) |-> V[i]]
  BY <1>1 DEF Rebuilt
<1>13. V \in Seq(RowSets) /\ Len(V) = Len(A)
  BY <1>1, <1>11, <1>12
<1>14. Sound(A, V, t, s)
  BY <1>1, <1>11, <1>13 DEF Sound
<1>15. ASSUME NEW m \in 1 .. Len(s)
       PROVE  /\ m <= from => V[s[m]] = R[s[m]]
              /\ M[m].kind = "value_update" /\ F[m] = <<>> => V[s[m]] = R[s[m]]
              /\ m > from /\ F[m] # <<>> =>
                    \A e \in Touched(A[s[m]].eff) : V[s[m]][e] = Balances(F)[m][e]
  <2>1. m <= from \/ m > from
    BY <1>1
  <2> QED  BY <1>7, <1>10, <2>1
<1> QED  BY <1>14, <1>15 DEF Rewritten

(* A rebuild leaves the ledger in order when the rows it keeps are right. *)
LEMMA Resettle ==
    ASSUME LedgerAssumption, NEW A, NEW R, NEW t, NEW s, Sound(A, R, t, s),
           NEW M, IsLine(M), Len(M) = Len(s), NEW F, F = ReplayMoneyEffects(M), Replays(F),
           \A m \in 1 .. Len(s) : Alike(M[m], Entry(s[m], A[s[m]], M[m].seen)),
           NEW from \in 0 .. Len(s), NEW undo \in BOOLEAN,
           \A m \in 1 .. Len(s) : Observed(M[m]) /\ (m <= from \/ F[m] = <<>>) =>
              R[s[m]][M[m].eff[1].on] = M[m].seen[M[m].eff[1].on],
           \A m \in 1 .. Len(s) : m <= from /\ F[m] # <<>> =>
              \A e \in Touched(A[s[m]].eff) : R[s[m]][e] = Balances(F)[m][e]
    PROVE  Ledger(A, Rebuilt(R, M, F, from, undo), Final(F), t, s)
<1>1. PICK V : V = Rebuilt(R, M, F, from, undo)
  OBVIOUS
<1>2. ASSUME NEW m \in 1 .. Len(s)
      PROVE  /\ M[m].id = s[m] /\ M[m].kind = A[s[m]].kind /\ M[m].reverses = A[s[m]].reverses
             /\ Touched(M[m].eff) = Touched(A[s[m]].eff)
             /\ Observed(M[m]) => M[m].eff[1].on = A[s[m]].eff[1].on
  <2>1. PICK x : x = Entry(s[m], A[s[m]], M[m].seen)
    OBVIOUS
  <2>2. Alike(M[m], x) /\ x.id = s[m] /\ x.kind = A[s[m]].kind /\ x.reverses = A[s[m]].reverses /\ x.eff = A[s[m]].eff
    BY <2>1, EntryFields
  <2>3. M[m].id = s[m] /\ M[m].kind = A[s[m]].kind /\ M[m].reverses = A[s[m]].reverses
    BY <2>2 DEF Alike
  <2>4. Touched(M[m].eff) = Touched(A[s[m]].eff)
    BY <2>2, AlikeShape
  <2>5. Observed(M[m]) => M[m].eff[1].on = A[s[m]].eff[1].on
    BY <2>2, AlikeShape
  <2> QED  BY <2>3, <2>4, <2>5
<1>3. Stands(M, A, s)
  BY <1>2 DEF Stands
<1>4. /\ Sound(A, V, t, s)
      /\ \A m \in 1 .. Len(s) :
            /\ m <= from => V[s[m]] = R[s[m]]
            /\ M[m].kind = "value_update" /\ F[m] = <<>> => V[s[m]] = R[s[m]]
            /\ m > from /\ F[m] # <<>> =>
                  \A e \in Touched(A[s[m]].eff) : V[s[m]][e] = Balances(F)[m][e]
  <2>1. Sound(A, V, t, s) /\ Rewritten(A, V, R, s, M, F, from)
    BY <1>1, <1>3, RebuiltRows
  <2> QED  BY <2>1 DEF Rewritten
<1>5. Len(s) \in Nat /\ IsReplay(M, F, Balances(F))
  BY ReplayFacts DEF Sound, IsOrder
<1>6. \A m \in 1 .. Len(s) : m <= from \/ m > from
  BY <1>5
<1>7. ASSUME NEW m \in 1 .. Len(s), Observed(M[m])
      PROVE  V[s[m]][M[m].eff[1].on] = M[m].seen[M[m].eff[1].on]
  <2>1. PICK on : on = M[m].eff[1].on
    OBVIOUS
  <2>2. CASE m <= from \/ F[m] = <<>>
    <3>1. V[s[m]] = R[s[m]]
      BY <1>4, <1>7, <2>2 DEF Observed
    <3> QED  BY <1>7, <2>2, <3>1
  <2>3. CASE m > from /\ F[m] # <<>>
    <3>1. m \in 1 .. Len(M)
      BY <1>5
    <3>2. Touched(M[m].eff) = {M[m].eff[1].on}
      BY <1>7, SingleTouched DEF Observed
    <3>3. Balances(F)[m][M[m].eff[1].on] = M[m].seen[M[m].eff[1].on]
      <4>1. Hits(M[m], F[m], Balances(F)[m - 1], Balances(F)[m])
        BY <1>5, <1>7, <3>1, ObservedHits
      <4> QED  BY <4>1 DEF Hits
    <3>4. M[m].eff[1].on \in Touched(A[s[m]].eff)
      BY <1>2, <3>2
    <3> QED  BY <1>4, <2>3, <3>3, <3>4
  <2> QED  BY <1>6, <2>2, <2>3
<1>8. ASSUME NEW m \in 1 .. Len(s)
      PROVE  Alike(M[m], Entry(s[m], A[s[m]], V[s[m]]))
  <2>1. PICK x, y : x = Entry(s[m], A[s[m]], M[m].seen) /\ y = Entry(s[m], A[s[m]], V[s[m]])
    OBVIOUS
  <2>2. /\ Alike(M[m], x) /\ x.id = y.id /\ x.kind = y.kind /\ x.reverses = y.reverses
        /\ x.eff = y.eff /\ y.seen = V[s[m]] /\ y.eff = A[s[m]].eff
    BY <2>1, EntryFields
  <2>3. Observed(M[m]) => M[m].seen[M[m].eff[1].on] = y.seen[y.eff[1].on]
    BY <1>2, <1>7, <2>2
  <2> QED  BY <2>1, <2>2, <2>3 DEF Alike
<1>9. ASSUME NEW m \in 1 .. Len(s), F[m] # <<>>, NEW e \in Touched(A[s[m]].eff)
      PROVE  V[s[m]][e] = Balances(F)[m][e]
  BY <1>4, <1>6, <1>9
<1>10. Ledger(A, V, Final(F), t, s)
  BY <1>4, <1>8, <1>9, Settle
<1> QED  BY <1>1, <1>10

(* The timeline with one more activity, on hypothetical rows. *)
Grown(A, t, s, a, S, v, L, n, A2, V2, s2, M) ==
    /\ History(A2, t) /\ IsOrder(A2, s2) /\ Targets(A2, V2) /\ V2 \in Seq(S)
    /\ Len(V2) = Len(A2) /\ Len(A2) = Len(A) + 1 /\ Len(s2) = Len(s) + 1
    /\ n \in 0 .. Len(s) /\ Len(s) \in Nat
    /\ M = LineOf(A2, V2, s2) /\ IsLine(M) /\ Len(M) = Len(s) + 1
    /\ M[n + 1] = Entry(Len(A) + 1, a, v) /\ Extends(L, M, n)
    /\ \A m \in 1 .. n : M[m] = L[m] /\ s2[m] = s[m]
    /\ s2[n + 1] = Len(A) + 1

(* The timeline after one more activity is the old one with its entry placed into it. *)
LEMMA GrownLine ==
    ASSUME NEW A, NEW t, History(A, t), NEW s, IsOrder(A, s), NEW a, New(A, a, t),
           NEW S, NEW V \in Seq(S), Len(V) = Len(A), NEW v \in S,
           Targets(A, V), Observed(a) => v[a.eff[1].on] \in Int,
           NEW L, L = LineOf(A, V, s), NEW n, n = Behind(A, s, a.at),
           NEW A2, A2 = Append(A, a), NEW V2, V2 = Append(V, v), NEW s2, s2 = Placed(s, n, Len(A) + 1),
           NEW M, M = Placed(L, n, Entry(Len(A) + 1, a, v))
    PROVE  Grown(A, t, s, a, S, v, L, n, A2, V2, s2, M)
<1>1. History(A2, t) /\ IsOrder(A2, s2)
  BY ExtendHistory, InsertOrder
<1>2. /\ V2 \in Seq(S) /\ Len(V2) = Len(A2) /\ Len(A2) = Len(A) + 1 /\ Len(A) \in Nat
      /\ DOMAIN A2 = 1 .. Len(A) + 1 /\ DOMAIN A = 1 .. Len(A)
      /\ \A i \in 1 .. Len(A) : A2[i] = A[i] /\ V2[i] = V[i]
      /\ A2[Len(A) + 1] = a /\ V2[Len(A) + 1] = v
      /\ \A i \in 1 .. Len(A) + 1 : i \in 1 .. Len(A) \/ i = Len(A) + 1
  BY AppendFacts DEF New, History
<1>3. Targets(A2, V2)
  <2> SUFFICES ASSUME NEW i \in DOMAIN A2, Observed(A2[i])
               PROVE  V2[i][A2[i].eff[1].on] \in Int
    BY DEF Targets
  <2>1. CASE i \in 1 .. Len(A)
    <3>1. A2[i] = A[i] /\ V2[i] = V[i] /\ i \in DOMAIN A
      BY <1>2, <2>1
    <3> QED  BY <3>1 DEF Targets
  <2>2. CASE i = Len(A) + 1
    <3>1. A2[i] = a /\ V2[i] = v
      BY <1>2, <2>2
    <3> QED  BY <3>1
  <2> QED  BY <1>2, <2>1, <2>2
<1>4. Len(s) \in Nat /\ n \in 0 .. Len(s)
  BY BehindFacts DEF IsOrder, New, Acts
<1>5. M = LineOf(A2, V2, s2)
  BY InsertLine
<1>6. IsLine(M)
  BY <1>1, <1>3, <1>5, HistoryLine
<1>7. Len(L) = Len(s)
  BY <1>4 DEF LineOf
<1>8. /\ Len(M) = Len(s) + 1
      /\ \A m \in 1 .. n : M[m] = L[m]
      /\ M[n + 1] = Entry(Len(A) + 1, a, v)
      /\ \A m \in n + 1 .. Len(s) : M[m + 1] = L[m]
  BY <1>4, <1>7, PlacedFacts
<1>9. /\ Len(s2) = Len(s) + 1 /\ s2[n + 1] = Len(A) + 1
      /\ \A m \in 1 .. n : s2[m] = s[m]
  BY <1>4, PlacedFacts
<1>10. \A x : Alike(x, x)
  BY DEF Alike
<1>11. Extends(L, M, n)
  BY <1>7, <1>8, <1>10 DEF Extends
<1> QED  BY <1>1, <1>2, <1>3, <1>4, <1>5, <1>6, <1>8, <1>9, <1>11 DEF Grown

(* How many entries an undo at the instant at finds behind it. *)
Passed(L, at) == Cardinality({m \in DOMAIN L : L[m].at <= at})

(* Where the service places an activity made now: behind everything that is not later. *)
LEMMA SlotIs ==
    ASSUME NEW A, NEW t, History(A, t), NEW s, IsOrder(A, s), NEW V, NEW at \in Nat,
           NEW L, L = LineOf(A, V, s)
    PROVE  /\ Slot(L, at, t) = Behind(A, s, at)
           /\ Passed(L, at) = Behind(A, s, at)
<1>1. Len(s) \in Nat /\ DOMAIN L = 1 .. Len(s) /\ Len(L) = Len(s)
  BY DEF LineOf, IsOrder
<1>2. ASSUME NEW m \in 1 .. Len(s)
      PROVE  /\ L[m].at = A[s[m]].at /\ L[m].made = A[s[m]].made
             /\ A[s[m]].at \in Nat /\ A[s[m]].made \in Nat /\ A[s[m]].made <= t
  <2>1. L[m] = Entry(s[m], A[s[m]], V[s[m]])
    BY DEF LineOf
  <2>2. L[m].at = A[s[m]].at /\ L[m].made = A[s[m]].made
    BY <2>1, EntryFields
  <2>3. s[m] \in DOMAIN A
    BY DEF IsOrder
  <2> QED  BY <2>2, <2>3, HistoryFacts DEF AllStamped, Stamped, History
<1>3. {m \in DOMAIN L : L[m].at <= at} = {m \in 1 .. Len(s) : A[s[m]].at <= at}
  BY <1>1, <1>2
<1>4. {m \in DOMAIN L : L[m].at < at \/ (L[m].at = at /\ L[m].made <= t)} = {m \in 1 .. Len(s) : A[s[m]].at <= at}
  BY <1>1, <1>2
<1> QED  BY <1>3, <1>4 DEF Slot, Passed, Behind

(* The latest possible instant is behind everything. *)
LEMMA BehindAll ==
    ASSUME NEW A, NEW t, History(A, t), NEW s, IsOrder(A, s)
    PROVE  Behind(A, s, t) = Len(s)
<1>1. t \in Nat /\ Len(s) \in Nat
  BY DEF History, IsOrder
<1>2. Behind(A, s, t) \in 0 .. Len(s) /\ \A m \in 1 .. Len(s) : A[s[m]].at <= t <=> m <= Behind(A, s, t)
  BY <1>1, BehindFacts
<1>3. \A m \in 1 .. Len(s) : A[s[m]].at <= t
  BY DEF History, IsOrder
<1>4. Len(s) # 0 => Len(s) <= Behind(A, s, t)
  BY <1>1, <1>2, <1>3
<1> QED  BY <1>1, <1>2, <1>4

(* A row for each endpoint that an effect list touches. *)
LEMMA RowsFacts ==
    ASSUME NEW b \in Wallets, NEW l
    PROVE  /\ Rows(b, l) \in RowSets /\ DOMAIN Rows(b, l) = Touched(l)
           /\ \A e \in Touched(l) : Rows(b, l)[e] = b[e]
<1>1. Touched(l) \in SUBSET Endpoints
  BY DEF Touched
<1>2. Rows(b, l) \in [Touched(l) -> Int]
  BY <1>1 DEF Rows, Wallets
<1>3. Rows(b, l) \in RowSets
  BY <1>1, <1>2 DEF RowSets
<1> QED  BY <1>3 DEF Rows

(* The rows of a new activity complete the rows of the history. *)
LEMMA SoundGrows ==
    ASSUME NEW A, NEW V, NEW t, NEW s, Sound(A, V, t, s), NEW a, New(A, a, t),
           NEW row \in RowSets, DOMAIN row = Touched(a.eff)
    PROVE  Sound(Append(A, a), Append(V, row), t, Placed(s, Behind(A, s, a.at), Len(A) + 1))
<1>1. History(A, t) /\ IsOrder(A, s) /\ V \in Seq(RowSets) /\ Len(V) = Len(A) /\ A \in Seq(Acts) /\ a \in Acts
  BY DEF Sound, History, New
<1>2. /\ History(Append(A, a), t)
      /\ IsOrder(Append(A, a), Placed(s, Behind(A, s, a.at), Len(A) + 1))
  BY <1>1, ExtendHistory, InsertOrder
<1>3. /\ Append(V, row) \in Seq(RowSets) /\ Len(Append(V, row)) = Len(A) + 1
      /\ Append(V, row)[Len(A) + 1] = row
      /\ \A i \in 1 .. Len(A) : Append(V, row)[i] = V[i]
  BY <1>1, AppendFacts
<1>4. /\ DOMAIN Append(A, a) = 1 .. Len(A) + 1 /\ Len(Append(A, a)) = Len(A) + 1
      /\ Append(A, a)[Len(A) + 1] = a
      /\ \A i \in 1 .. Len(A) : Append(A, a)[i] = A[i] /\ i \in DOMAIN A
      /\ \A i \in 1 .. Len(A) + 1 : i \in 1 .. Len(A) \/ i = Len(A) + 1
  BY <1>1, AppendFacts
<1>5. \A i \in 1 .. Len(A) : DOMAIN V[i] = Touched(A[i].eff)
  BY <1>4 DEF Sound
<1>6. ASSUME NEW i \in 1 .. Len(A) + 1
      PROVE  DOMAIN Append(V, row)[i] = Touched(Append(A, a)[i].eff)
  <2>1. CASE i \in 1 .. Len(A)
    BY <1>3, <1>4, <1>5, <2>1
  <2>2. CASE i = Len(A) + 1
    BY <1>3, <1>4, <2>2
  <2> QED  BY <1>4, <2>1, <2>2
<1> QED  BY <1>2, <1>3, <1>4, <1>6 DEF Sound

(* The ledger with the activity a in it, its rows rebuilt behind the first n entries: it is
   in order, and only the balances that a touches have changed. *)
Inserted(A, V, cur, t, s, a, row, n, M, F, undo) ==
    /\ Ledger(Append(A, a), Rebuilt(Append(V, row), M, F, n, undo), Final(F), t,
              Placed(s, n, Len(A) + 1))
    /\ Final(F) \in Wallets
    /\ \A e \in Endpoints \ Touched(a.eff) : Final(F)[e] = cur[e]

(* An activity is placed into the timeline and everything behind it is replayed. *)
LEMMA InsertLedger ==
    ASSUME LedgerAssumption, NEW A, NEW V, NEW cur, NEW t, NEW s, Ledger(A, V, cur, t, s),
           NEW a, New(A, a, t), NEW v, Observed(a) => v[a.eff[1].on] \in Int,
           NEW row \in RowSets, DOMAIN row = Touched(a.eff),
           NEW n, n = Behind(A, s, a.at),
           NEW M, M = Placed(LineOf(A, V, s), n, Entry(Len(A) + 1, a, v)),
           NEW F, F = ReplayMoneyEffects(M), Replays(F), Observed(a) => F[n + 1] # <<>>,
           NEW undo \in BOOLEAN
    PROVE  Inserted(A, V, cur, t, s, a, row, n, M, F, undo)
<1>1. PICK A2, V2, R, s2, L, E, B, C, S :
        /\ A2 = Append(A, a) /\ V2 = Append(V, v) /\ R = Append(V, row) /\ s2 = Placed(s, n, Len(A) + 1)
        /\ L = LineOf(A, V, s) /\ E = ReplayMoneyEffects(L) /\ B = Balances(E) /\ C = Balances(F)
        /\ S = RowSets \cup {v}
  OBVIOUS
<1>2. Sound(A, V, t, s) /\ History(A, t) /\ IsOrder(A, s) /\ V \in Seq(RowSets) /\ Len(V) = Len(A) /\ Targets(A, V)
  BY SoundTargets DEF Ledger, Sound
<1>3. V \in Seq(S) /\ v \in S
  BY <1>1, <1>2
<1>4. /\ History(A2, t) /\ IsOrder(A2, s2) /\ Len(s2) = Len(s) + 1
      /\ n \in 0 .. Len(s) /\ Len(s) \in Nat
      /\ M = LineOf(A2, V2, s2) /\ IsLine(M) /\ Len(M) = Len(s) + 1
      /\ M[n + 1] = Entry(Len(A) + 1, a, v) /\ Extends(L, M, n)
      /\ \A m \in 1 .. n : M[m] = L[m] /\ s2[m] = s[m]
      /\ s2[n + 1] = Len(A) + 1
  <2>1. Grown(A, t, s, a, S, v, L, n, A2, V2, s2, M)
    BY <1>1, <1>2, <1>3, GrownLine
  <2> QED  BY <2>1 DEF Grown
<1>5. /\ IsReplay(L, E, B) /\ Len(L) = Len(s) /\ Len(E) = Len(s)
      /\ \A m \in 1 .. Len(s) : L[m] = Entry(s[m], A[s[m]], V[s[m]])
  BY <1>1, <1>2, SoundLine
<1>6. IsReplay(M, F, C) /\ Len(F) = Len(s) + 1
  BY <1>1, <1>4, ReplayFacts
<1>7. Sound(A2, R, t, s2)
  BY <1>1, <1>2, SoundGrows
<1>8. /\ \A m \in 0 .. n : C[m] = B[m]
      /\ \A m \in 1 .. n : F[m] = E[m]
  <2>1. n \in 0 .. Len(L) /\ n <= Len(M) /\ \A m \in 1 .. n : Alike(L[m], M[m])
    BY <1>4, <1>5 DEF Extends
  <2>2. Agree(E, B, F, C, n)
    BY <1>5, <1>6, <2>1, SamePrefix
  <2> QED  BY <2>2 DEF Agree
<1>9. ASSUME NEW m \in 1 .. Len(s2)
      PROVE  M[m] = Entry(s2[m], A2[s2[m]], V2[s2[m]]) /\ M[m].seen = V2[s2[m]] /\ M[m].eff = A2[s2[m]].eff
  <2>1. M[m] = Entry(s2[m], A2[s2[m]], V2[s2[m]])
    BY <1>4 DEF LineOf
  <2> QED  BY <2>1, EntryFields
<1>10. \A m \in 1 .. Len(s2) : Alike(M[m], Entry(s2[m], A2[s2[m]], M[m].seen))
  BY <1>9 DEF Alike
<1>11. /\ \A i \in 1 .. Len(A) : V2[i] = V[i] /\ R[i] = V[i] /\ A2[i] = A[i]
       /\ DOMAIN A2 = 1 .. Len(A) + 1 /\ A2[Len(A) + 1] = a
       /\ \A i \in 1 .. Len(A) + 1 : i \in 1 .. Len(A) \/ i = Len(A) + 1
  <2>1. A \in Seq(Acts) /\ a \in Acts
    BY <1>2 DEF History, New
  <2> QED  BY <1>1, <1>2, <1>3, <2>1, AppendFacts
<1>12. ASSUME NEW m \in 1 .. Len(s2), Observed(M[m]), m <= n \/ F[m] = <<>>
       PROVE  R[s2[m]][M[m].eff[1].on] = M[m].seen[M[m].eff[1].on]
  <2>1. s2[m] \in 1 .. Len(A) + 1
    BY <1>4, <1>11 DEF IsOrder
  <2>2. CASE s2[m] \in 1 .. Len(A)
    BY <1>9, <1>11, <2>2
  <2>3. CASE s2[m] = Len(A) + 1
    <3>1. n + 1 \in 1 .. Len(s2)
      BY <1>4
    <3>2. m = n + 1
      BY <1>4, <2>3, <3>1, HistoryFacts, OrderFacts
    <3>3. Observed(a)
      BY <1>4, <1>12, <3>2, EntryFields
    <3>4. ~(m <= n)
      BY <1>4, <3>2
    <3> QED  BY <1>12, <3>2, <3>3, <3>4
  <2> QED  BY <1>11, <2>1, <2>2, <2>3
<1>13. ASSUME NEW m \in 1 .. Len(s2), m <= n, F[m] # <<>>, NEW e \in Touched(A2[s2[m]].eff)
       PROVE  R[s2[m]][e] = C[m][e]
  <2>1. m \in 1 .. n /\ m \in 0 .. n /\ m \in 1 .. Len(s)
    BY <1>4, <1>13
  <2>2. F[m] = E[m] /\ C[m] = B[m] /\ M[m] = L[m] /\ s2[m] = s[m]
    BY <1>4, <1>8, <2>1
  <2>3. L[m].eff = A2[s2[m]].eff /\ L[m].seen = V2[s2[m]]
    BY <1>9, <2>2
  <2>4. L[m].seen[e] = B[m][e]
    <3>1. Shown(L, E)
      BY <1>1 DEF Ledger
    <3>2. m \in 1 .. Len(L) /\ E[m] # <<>>
      BY <1>5, <1>13, <2>1, <2>2
    <3>3. \A x \in Touched(L[m].eff) : L[m].seen[x] = Balances(E)[m][x]
      BY <3>1, <3>2 DEF Shown
    <3>4. e \in Touched(L[m].eff)
      BY <1>13, <2>3
    <3> QED  BY <1>1, <3>3, <3>4
  <2>5. s[m] \in 1 .. Len(A)
    BY <1>2, <2>1, HistoryFacts DEF IsOrder
  <2> QED  BY <1>11, <2>2, <2>3, <2>4, <2>5
<1>14. n \in 0 .. Len(s2)
  BY <1>4
<1>15. Ledger(A2, Rebuilt(R, M, F, n, undo), Final(F), t, s2)
  <2>1. \A m \in 1 .. Len(s2) : Observed(M[m]) /\ (m <= n \/ F[m] = <<>>) =>
              R[s2[m]][M[m].eff[1].on] = M[m].seen[M[m].eff[1].on]
    BY <1>12
  <2>2. \A m \in 1 .. Len(s2) : m <= n /\ F[m] # <<>> =>
              \A e \in Touched(A2[s2[m]].eff) : R[s2[m]][e] = Balances(F)[m][e]
    <3>1. C = Balances(F)
      BY <1>1
    <3> QED  BY <1>13, <3>1
  <2>3. Len(M) = Len(s2)
    BY <1>4
  <2> QED  BY <1>4, <1>7, <1>10, <1>14, <2>1, <2>2, <2>3, Resettle
<1>16. Final(F) = C[Len(M)] /\ cur = B[Len(L)]
  BY <1>1, <1>4, <1>5, <1>6 DEF Final, BalanceAfter, Ledger
<1>17. Len(M) \in 0 .. Len(M)
  BY <1>4
<1>18. Final(F) \in Wallets
  BY <1>6, <1>16, <1>17 DEF IsReplay
<1>19. ASSUME NEW e \in Endpoints \ Touched(a.eff)
       PROVE  Final(F)[e] = cur[e]
  <2>1. M[n + 1].eff = a.eff /\ n \in 0 .. Len(L)
    BY <1>4, <1>5, EntryFields
  <2>2. e \in Endpoints /\ e \notin Touched(M[n + 1].eff)
    BY <2>1
  <2>3. C[Len(M)][e] = B[Len(L)][e]
    BY <1>4, <1>5, <1>6, <2>1, <2>2, InsertLocal
  <2> QED  BY <1>16, <2>3
<1> QED  BY <1>1, <1>15, <1>18, <1>19 DEF Inserted

(* An activity at the end of the timeline: the current values take the place of a replay,
   when they change by what the new entry contributes. *)
LEMMA AppendLedger ==
    ASSUME LedgerAssumption, NEW A, NEW V, NEW cur, NEW t, NEW s, Ledger(A, V, cur, t, s),
           NEW a, New(A, a, t), NEW after \in Wallets, NEW row, row = Rows(after, a.eff),
           Behind(A, s, a.at) = Len(s),
           NEW M, M = Placed(LineOf(A, V, s), Len(s), Entry(Len(A) + 1, a, row)),
           NEW F, F = ReplayMoneyEffects(M),
           CanApply(cur, F[Len(s) + 1]), after = Applied(cur, F[Len(s) + 1])
    PROVE  Ledger(Append(A, a), Append(V, row), after, t, Placed(s, Len(s), Len(A) + 1))
<1>1. PICK A2, V2, s2, L, E, B, C, n :
        /\ A2 = Append(A, a) /\ V2 = Append(V, row) /\ s2 = Placed(s, Len(s), Len(A) + 1)
        /\ L = LineOf(A, V, s) /\ E = ReplayMoneyEffects(L) /\ B = Balances(E) /\ C = Balances(F)
        /\ n = Len(s)
  OBVIOUS
<1>2. Sound(A, V, t, s) /\ History(A, t) /\ IsOrder(A, s) /\ V \in Seq(RowSets) /\ Len(V) = Len(A) /\ Targets(A, V)
  BY SoundTargets DEF Ledger, Sound
<1>3. row \in RowSets /\ DOMAIN row = Touched(a.eff) /\ \A e \in Touched(a.eff) : row[e] = after[e]
  BY RowsFacts
<1>4. Sound(A2, V2, t, s2)
  BY <1>1, <1>2, <1>3, SoundGrows
<1>5. Observed(a) => row[a.eff[1].on] \in Int
  <2>1. Observed(a) => a.eff[1].on \in Touched(a.eff) /\ a.eff[1].on \in Endpoints
    BY SingleTouched DEF Observed, Single
  <2> QED  BY <1>3, <2>1 DEF Wallets
<1>6. /\ Len(s2) = n + 1 /\ n \in Nat
      /\ M = LineOf(A2, V2, s2) /\ IsLine(M) /\ Len(M) = n + 1
      /\ M[n + 1] = Entry(Len(A) + 1, a, row) /\ Extends(L, M, n)
      /\ \A m \in 1 .. n : M[m] = L[m] /\ s2[m] = s[m]
      /\ s2[n + 1] = Len(A) + 1
  <2>1. n = Behind(A, s, a.at) /\ s2 = Placed(s, n, Len(A) + 1) /\ M = Placed(L, n, Entry(Len(A) + 1, a, row))
    BY <1>1
  <2>2. Grown(A, t, s, a, RowSets, row, L, n, A2, V2, s2, M)
    BY <1>1, <1>2, <1>3, <1>5, <2>1, GrownLine
  <2>3. n = Len(s)
    BY <1>1
  <2> QED  BY <2>2, <2>3 DEF Grown
<1>7. /\ IsReplay(L, E, B) /\ Len(L) = n /\ Len(E) = n /\ DOMAIN E = 1 .. n
      /\ \A m \in 1 .. n : L[m] = Entry(s[m], A[s[m]], V[s[m]])
  BY <1>1, <1>2, SoundLine
<1>8. IsReplay(M, F, C) /\ Len(F) = n + 1 /\ DOMAIN F = 1 .. n + 1
  BY <1>1, <1>6, ReplayFacts
<1>9. /\ \A m \in 0 .. n : C[m] = B[m]
      /\ \A m \in 1 .. n : F[m] = E[m]
  <2>1. n \in 0 .. Len(L) /\ n <= Len(M)
    BY <1>6, <1>7
  <2>2. \A m \in 1 .. n : Alike(L[m], M[m])
    BY <1>6 DEF Extends
  <2>3. IsReplay(L, E, B)
    BY <1>7
  <2>4. IsReplay(M, F, C)
    BY <1>8
  <2>5. Agree(E, B, F, C, n)
    BY <2>1, <2>2, <2>3, <2>4, SamePrefix
  <2> QED  BY <2>5 DEF Agree
<1>10. cur = B[n] /\ C[n] = cur
  BY <1>1, <1>6, <1>7, <1>9 DEF Final, BalanceAfter, Ledger
<1>11. C[n + 1] = after
  <2>1. n + 1 \in 1 .. Len(M) /\ (n + 1) - 1 = n
    BY <1>6
  <2>2. C[n + 1] = Applied(C[n], F[n + 1])
    BY <1>8, <2>1 DEF IsReplay
  <2> QED  BY <1>1, <1>10, <2>2
<1>12. Final(F) = after
  BY <1>1, <1>8, <1>11 DEF Final, BalanceAfter
<1>13. \A m \in 1 .. n + 1 : m \in 1 .. n \/ m = n + 1
  BY <1>6
<1>14. Replays(F)
  <2> SUFFICES ASSUME NEW m \in 1 .. n + 1
               PROVE  CanApply(C[m - 1], F[m])
    BY <1>1, <1>8 DEF Replays, BalanceAfter
  <2>1. CASE m \in 1 .. n
    <3>1. F[m] = E[m] /\ m - 1 \in 0 .. n
      BY <1>6, <1>9, <2>1
    <3>2. C[m - 1] = B[m - 1]
      BY <1>9, <3>1
    <3>3. Replays(E)
      BY <1>1 DEF Ledger
    <3>4. CanApply(B[m - 1], E[m])
      BY <1>1, <1>7, <2>1, <3>3 DEF Replays, BalanceAfter
    <3> QED  BY <3>1, <3>2, <3>4
  <2>2. CASE m = n + 1
    <3>1. m - 1 = n
      BY <1>6, <2>2
    <3> QED  BY <1>1, <1>10, <2>2, <3>1
  <2> QED  BY <1>13, <2>1, <2>2
<1>15. ASSUME NEW m \in 1 .. Len(s2)
       PROVE  M[m] = Entry(s2[m], A2[s2[m]], V2[s2[m]])
  BY <1>6 DEF LineOf
<1>16. \A m \in 1 .. Len(s2) : Alike(M[m], Entry(s2[m], A2[s2[m]], V2[s2[m]]))
  BY <1>15 DEF Alike
<1>17. ASSUME NEW m \in 1 .. Len(s2), F[m] # <<>>, NEW e \in Touched(A2[s2[m]].eff)
       PROVE  V2[s2[m]][e] = C[m][e]
  <2>1. M[m].eff = A2[s2[m]].eff /\ M[m].seen = V2[s2[m]]
    BY <1>15, EntryFields
  <2>2. CASE m \in 1 .. n
    <3>1. F[m] = E[m] /\ C[m] = B[m] /\ M[m] = L[m]
      BY <1>6, <1>9, <2>2
    <3>2. Shown(L, E)
      BY <1>1 DEF Ledger
    <3>3. m \in 1 .. Len(L) /\ E[m] # <<>>
      BY <1>7, <1>17, <2>2, <3>1
    <3>4. \A x \in Touched(L[m].eff) : L[m].seen[x] = Balances(E)[m][x]
      BY <3>2, <3>3 DEF Shown
    <3>5. e \in Touched(L[m].eff)
      BY <1>17, <2>1, <3>1
    <3>6. L[m].seen[e] = B[m][e]
      BY <1>1, <3>4, <3>5
    <3> QED  BY <2>1, <3>1, <3>6
  <2>3. CASE m = n + 1
    <3>1. M[m].eff = a.eff /\ M[m].seen = row
      BY <1>6, <2>3, EntryFields
    <3> QED  BY <1>3, <1>11, <1>17, <2>1, <2>3, <3>1
  <2> QED  BY <1>6, <1>13, <2>2, <2>3
<1>18. Ledger(A2, V2, Final(F), t, s2)
  <2>1. Len(M) = Len(s2)
    BY <1>6
  <2>2. \A m \in 1 .. Len(s2) : F[m] # <<>> =>
              \A e \in Touched(A2[s2[m]].eff) : V2[s2[m]][e] = Balances(F)[m][e]
    BY <1>1, <1>17
  <2> QED  BY <1>4, <1>6, <1>14, <1>16, <2>1, <2>2, Settle
<1> QED  BY <1>1, <1>12, <1>18
-----------------------------------------------------------------------------
(* What the builders make of a command *)

(* The least of some positions. *)
LEMMA MinMember ==
    ASSUME NEW S \in SUBSET Nat, S # {}
    PROVE  Min(S) \in S
<1>1. \E x \in S : \A y \in S : x <= y
  BY LeastNatural
<1> QED  BY <1>1 DEF Min

(* The fields that a builder reads. *)
Fields(c) ==
    /\ c.kind \in Kinds \ {"reversal"}
    /\ c.kind = "money" => c.account \in Accounts /\ c.currency \in Currencies /\ c.amount \in Int
    /\ c.kind = "cash_dividend" => c.holding \in Holdings /\ c.currency \in Currencies /\ c.amount \in Int
    /\ c.kind = "cash_transfer" =>
          /\ c.from \in Accounts /\ c.to \in Accounts /\ c.sentIn \in Currencies
          /\ c.receivedIn \in Currencies /\ c.sent \in Int /\ c.received \in Int /\ c.fee \in Int
    /\ c.kind = "fx_conversion" =>
          /\ c.soldIn \in Currencies /\ c.boughtIn \in Currencies
          /\ c.sold \in Int /\ c.bought \in Int /\ c.fee \in Int
    /\ c.kind = "position_transfer" => c.from \in Holdings /\ c.to \in Holdings /\ c.quantity \in Int
    /\ c.kind = "position_adjustment" => c.holding \in Holdings /\ c.quantity \in Int
    /\ c.kind = "cost_adjustment" => c.holding \in Holdings
    /\ c.kind = "trade" =>
          /\ c.holding \in Holdings /\ c.currency \in Currencies
          /\ c.quantity \in Int /\ c.gross \in Int /\ c.fee \in Int
    /\ c.kind = "value_update" => c.account \in Accounts /\ c.value \in Int
    /\ c.kind \in {"debt_draw", "debt_payment"} =>
          /\ c.cash \in Accounts /\ c.currency \in Currencies
          /\ c.principal \in Int /\ c.fee \in Int

(* Every command has them. *)
LEMMA CommandFields ==
    ASSUME NEW c \in Commands
    PROVE  Fields(c)
<1>1. CASE c \in [kind : {"money"}, account : Accounts, currency : Currencies, amount : Int,
                  added : BOOLEAN, reason : STRING]
  BY <1>1 DEF Fields, Kinds
<1>2. CASE c \in [kind : {"cash_dividend"}, holding : Holdings, currency : Currencies, amount : Int]
  BY <1>2 DEF Fields, Kinds
<1>3. CASE c \in [kind : {"cash_transfer"}, from : Accounts, to : Accounts, sent : Int,
                  sentIn : Currencies, received : Int, receivedIn : Currencies, fee : Int,
                  feeIn : Currencies]
  BY <1>3 DEF Fields, Kinds
<1>4. CASE c \in [kind : {"fx_conversion"}, account : Accounts, sold : Int, soldIn : Currencies,
                  bought : Int, boughtIn : Currencies, fee : Int]
  BY <1>4 DEF Fields, Kinds
<1>5. CASE c \in [kind : {"position_transfer"}, from : Holdings, to : Holdings, quantity : Int]
  BY <1>5 DEF Fields, Kinds
<1>6. CASE c \in [kind : {"position_adjustment"}, holding : Holdings, quantity : Int,
                  added : BOOLEAN, unitCost : BOOLEAN]
  BY <1>6 DEF Fields, Kinds
<1>7. CASE c \in [kind : {"cost_adjustment"}, holding : Holdings]
  BY <1>7 DEF Fields, Kinds
<1>8. CASE c \in [kind : {"trade"}, side : STRING, account : Accounts, holding : Holdings,
                  quantity : Int, gross : Int, currency : Currencies, fee : Int]
  BY <1>8 DEF Fields, Kinds
<1>9. CASE c \in [kind : {"value_update"}, account : Accounts, value : Int]
  BY <1>9 DEF Fields, Kinds
<1>10. CASE c \in [kind : {"debt_draw", "debt_payment"}, debt : Accounts, cash : Accounts,
                   principal : Int, currency : Currencies, fee : Int]
  BY <1>10 DEF Fields, Kinds
<1> QED  BY <1>1, <1>2, <1>3, <1>4, <1>5, <1>6, <1>7, <1>8, <1>9, <1>10 DEF Commands

(* The money of an account. *)
LEMMA Targeted ==
    ASSUME NEW a \in Accounts, NEW cur \in Currencies
    PROVE  accountTarget(a, cur) \in Endpoints /\ IsMoney(accountTarget(a, cur))
<1>1. CASE a \in Brokers
  <2>1. accountTarget(a, cur) = Cash(a, cur)
    BY <1>1 DEF accountTarget
  <2>2. Cash(a, cur) \in Endpoints
    BY <1>1 DEF Endpoints
  <2>3. IsMoney(Cash(a, cur))
    BY DEF IsMoney, Cash
  <2> QED  BY <2>1, <2>2, <2>3
<1>2. CASE a \notin Brokers
  <2>1. accountTarget(a, cur) = Value(a) /\ a \in Assets \cup Debts
    BY <1>2 DEF accountTarget, Accounts
  <2>2. Value(a) \in Endpoints
    BY <2>1 DEF Endpoints
  <2>3. IsMoney(Value(a))
    BY DEF IsMoney, Value
  <2> QED  BY <2>1, <2>2, <2>3
<1> QED  BY <1>1, <1>2

(* The endpoints by their form. *)
LEMMA Formed ==
    /\ \A a \in Brokers, cur \in Currencies : Cash(a, cur) \in Endpoints /\ IsMoney(Cash(a, cur))
    /\ \A a \in Assets \cup Debts : Value(a) \in Endpoints /\ IsMoney(Value(a))
    /\ \A h \in Holdings : /\ Quantity(h) \in Endpoints /\ ~IsMoney(Quantity(h))
                           /\ Cost(h) \in Places /\ ~IsMoney(Cost(h))
<1>1. \A a \in Brokers, cur \in Currencies : Cash(a, cur) \in Endpoints
  BY DEF Endpoints
<1>2. \A a \in Assets \cup Debts : Value(a) \in Endpoints
  BY DEF Endpoints
<1>3. \A h \in Holdings : Quantity(h) \in Endpoints /\ Cost(h) \in Places
  BY DEF Endpoints, Places
<1>4. \A a, cur : IsMoney(Cash(a, cur)) /\ IsMoney(Value(a)) /\ ~IsMoney(Quantity(a)) /\ ~IsMoney(Cost(a))
  BY DEF IsMoney, Cash, Value, Quantity, Cost
<1> QED  BY <1>1, <1>2, <1>3, <1>4

(* An effect that a builder may use. *)
Moves(x) == x \in EffectSet /\ (IsMoney(x.on) => x.by # 0)

(* An effect by its parts. *)
LEMMA EffectFacts ==
    ASSUME NEW role \in Roles, NEW on, on \in Endpoints \/ on \in Places, NEW by \in Int
    PROVE  /\ Effect(role, on, by) \in EffectSet
           /\ Effect(role, on, by).role = role /\ Effect(role, on, by).on = on /\ Effect(role, on, by).by = by
           /\ by # 0 \/ ~IsMoney(on) => Moves(Effect(role, on, by))
<1>1. on \in Places
  BY DEF Places
<1>2. PICK x : x = Effect(role, on, by)
  OBVIOUS
<1>3. x \in EffectSet /\ x.role = role /\ x.on = on /\ x.by = by
  BY <1>1, <1>2 DEF Effect, EffectSet
<1> QED  BY <1>2, <1>3 DEF Moves

(* Lists of one, two and three effects. *)
LEMMA PlainLists ==
    ASSUME NEW x, Moves(x)
    PROVE  /\ Plain(<<x>>)
           /\ \A y : Moves(y) /\ x.role # y.role => Plain(<<x, y>>)
           /\ \A y, z : Moves(y) /\ Moves(z) /\ x.role # y.role /\ x.role # z.role /\ y.role # z.role
                           => Plain(<<x, y, z>>)
<1>1. Plain(<<x>>)
  BY DEF Plain, Lists, Moves
<1>2. ASSUME NEW y, Moves(y), x.role # y.role
      PROVE  Plain(<<x, y>>)
  BY <1>2 DEF Plain, Lists, Moves
<1>3. ASSUME NEW y, NEW z, Moves(y), Moves(z), x.role # y.role, x.role # z.role, y.role # z.role
      PROVE  Plain(<<x, y, z>>)
  BY <1>3 DEF Plain, Lists, Moves
<1> QED  BY <1>1, <1>2, <1>3

(* Two effects and a fee. *)
LEMMA PlainFee ==
    ASSUME NEW x, NEW y, Moves(x), Moves(y), x.role # y.role, x.role # "fee", y.role # "fee",
           NEW on \in Endpoints, NEW fee \in Int
    PROVE  Plain(<<x, y>> \o FeeEffect(on, fee))
<1>1. CASE fee > 0
  <2>1. PICK z : z = Effect("fee", on, -fee)
    OBVIOUS
  <2>2. -fee \in Int /\ -fee # 0 /\ "fee" \in Roles
    BY <1>1 DEF Roles
  <2>3. Moves(z) /\ z.role = "fee"
    BY <2>1, <2>2, EffectFacts
  <2>4. x \in EffectSet /\ y \in EffectSet /\ z \in EffectSet
    BY <2>3 DEF Moves
  <2>5. <<x, y>> \o <<z>> = <<x, y, z>>
    <3>1. PICK s, r : s = <<x, y>> /\ r = Append(s, z)
      OBVIOUS
    <3>2. s \in Seq(EffectSet) /\ Len(s) = 2 /\ s[1] = x /\ s[2] = y
      BY <2>4, <3>1
    <3>3. s \o <<z>> = r
      BY <2>4, <3>1, <3>2
    <3>4. /\ r \in Seq(EffectSet) /\ Len(r) = Len(s) + 1 /\ r[Len(s) + 1] = z
          /\ \A i \in 1 .. Len(s) : r[i] = s[i]
      BY <2>4, <3>1, <3>2, AppendFacts
    <3>5. Len(r) = 3 /\ r[1] = x /\ r[2] = y /\ r[3] = z
      BY <3>2, <3>4
    <3>6. r = <<x, y, z>>
      <4>1. PICK q : q = <<x, y, z>>
        OBVIOUS
      <4>2. q \in Seq(EffectSet) /\ Len(q) = 3 /\ q[1] = x /\ q[2] = y /\ q[3] = z
        BY <2>4, <4>1
      <4>3. \A i \in 1 .. 3 : q[i] = r[i]
        BY <3>5, <4>2
      <4>4. \A l \in Seq(EffectSet) : l \in [1 .. Len(l) -> EffectSet]
        OBVIOUS
      <4>5. r \in [1 .. 3 -> EffectSet] /\ q \in [1 .. 3 -> EffectSet]
        BY <3>4, <3>5, <4>2, <4>4
      <4>6. r = q
        BY <4>3, <4>5
      <4> QED  BY <4>1, <4>6
    <3> QED  BY <3>1, <3>3, <3>6
  <2>6. Plain(<<x, y, z>>)
    BY <2>3, PlainLists
  <2> QED  BY <1>1, <2>1, <2>5, <2>6 DEF FeeEffect
<1>2. CASE ~(fee > 0)
  <2>1. <<x, y>> \o <<>> = <<x, y>>
    OBVIOUS
  <2>2. Plain(<<x, y>>)
    BY PlainLists
  <2> QED  BY <1>2, <2>1, <2>2 DEF FeeEffect
<1> QED  BY <1>1, <1>2

(* Every builder but the one of value updates makes plain lists: money changes and dividends. *)
LEMMA BuiltMoney ==
    ASSUME LedgerAssumption, NEW c, Fields(c), NEW l,
           \/ c.kind = "money" /\ l \in buildMoneyChange(c)
           \/ c.kind = "cash_dividend" /\ l \in buildCashDividend(c)
    PROVE  Plain(l)
<1>0. "amount" \in Roles
  BY DEF Roles
<1>1. CASE c.kind = "money" /\ l \in buildMoneyChange(c)
  <2>1. PICK on, by : on = accountTarget(c.account, c.currency) /\ by = IF c.added THEN c.amount ELSE -c.amount
    OBVIOUS
  <2>2. l = <<Effect("amount", on, by)>> /\ c.amount > 0
    BY <1>1, <2>1 DEF buildMoneyChange, When
  <2>3. on \in Endpoints
    BY <1>1, <2>1, Targeted DEF Fields
  <2>4. by \in Int /\ by # 0
    BY <1>1, <2>1, <2>2 DEF Fields
  <2>5. Moves(Effect("amount", on, by))
    BY <1>0, <2>3, <2>4, EffectFacts
  <2> QED  BY <2>2, <2>5, PlainLists
<1>2. CASE c.kind = "cash_dividend" /\ l \in buildCashDividend(c)
  <2>1. PICK on : on = Cash(Home[c.holding], c.currency)
    OBVIOUS
  <2>2. l = <<Effect("amount", on, c.amount)>> /\ c.amount > 0
    BY <1>2, <2>1 DEF buildCashDividend, When
  <2>3. on \in Endpoints
    <3>1. Home[c.holding] \in Brokers /\ c.currency \in Currencies
      BY <1>2 DEF Fields, LedgerAssumption
    <3> QED  BY <2>1, <3>1, Formed
  <2>4. c.amount \in Int /\ c.amount # 0
    BY <1>2, <2>2 DEF Fields
  <2>5. Moves(Effect("amount", on, c.amount))
    BY <1>0, <2>3, <2>4, EffectFacts
  <2> QED  BY <2>2, <2>5, PlainLists
<1> QED  BY <1>1, <1>2

(* Transfers and conversions record plain lists, with a fee or without. *)
LEMMA BuiltTransfer ==
    ASSUME LedgerAssumption, NEW c, Fields(c), NEW l,
           \/ c.kind = "cash_transfer" /\ l \in buildCashTransfer(c)
           \/ c.kind = "fx_conversion" /\ l \in buildFXConversion(c)
           \/ c.kind = "position_transfer" /\ l \in buildPositionTransfer(c)
    PROVE  Plain(l)
<1>0. "transfer_from" \in Roles /\ "transfer_to" \in Roles
  BY DEF Roles
<1>1. ASSUME NEW from \in Endpoints, NEW to \in Endpoints, NEW out \in Int, NEW in \in Int, out > 0, in > 0,
             NEW x, NEW y, x = Effect("transfer_from", from, -out), y = Effect("transfer_to", to, in)
      PROVE  Moves(x) /\ Moves(y) /\ x.role = "transfer_from" /\ y.role = "transfer_to"
  <2>1. -out \in Int /\ -out # 0 /\ in # 0
    BY <1>1
  <2> QED  BY <1>0, <1>1, <2>1, EffectFacts
<1>2. CASE c.kind = "cash_transfer" /\ l \in buildCashTransfer(c)
  <2>1. PICK from, to, x, y : /\ from = accountTarget(c.from, c.sentIn) /\ to = accountTarget(c.to, c.receivedIn)
                              /\ x = Effect("transfer_from", from, -c.sent)
                              /\ y = Effect("transfer_to", to, c.received)
    OBVIOUS
  <2>2. l = <<x, y>> \o FeeEffect(from, c.fee) /\ c.sent > 0 /\ c.received > 0
    BY <1>2, <2>1 DEF buildCashTransfer, When
  <2>3. from \in Endpoints /\ to \in Endpoints
    BY <1>2, <2>1, Targeted DEF Fields
  <2>4. c.sent \in Int /\ c.received \in Int /\ c.fee \in Int
    BY <1>2 DEF Fields
  <2>5. Moves(x) /\ Moves(y) /\ x.role = "transfer_from" /\ y.role = "transfer_to"
    BY <1>1, <2>1, <2>2, <2>3, <2>4
  <2> QED  BY <2>2, <2>3, <2>4, <2>5, PlainFee
<1>3. CASE c.kind = "fx_conversion" /\ l \in buildFXConversion(c)
  <2>1. PICK from, to, x, y : /\ from = Cash(c.account, c.soldIn) /\ to = Cash(c.account, c.boughtIn)
                              /\ x = Effect("transfer_from", from, -c.sold)
                              /\ y = Effect("transfer_to", to, c.bought)
    OBVIOUS
  <2>2. l = <<x, y>> \o FeeEffect(from, c.fee) /\ c.sold > 0 /\ c.bought > 0 /\ c.account \in Brokers
    BY <1>3, <2>1 DEF buildFXConversion, When
  <2>3. c.sold \in Int /\ c.bought \in Int /\ c.fee \in Int /\ c.soldIn \in Currencies /\ c.boughtIn \in Currencies
    BY <1>3 DEF Fields
  <2>4. from \in Endpoints /\ to \in Endpoints
    BY <2>1, <2>2, <2>3, Formed
  <2>5. Moves(x) /\ Moves(y) /\ x.role = "transfer_from" /\ y.role = "transfer_to"
    BY <1>1, <2>1, <2>2, <2>3, <2>4
  <2> QED  BY <2>2, <2>3, <2>4, <2>5, PlainFee
<1>4. CASE c.kind = "position_transfer" /\ l \in buildPositionTransfer(c)
  <2>1. PICK from, to, x, y : /\ from = Quantity(c.from) /\ to = Quantity(c.to)
                              /\ x = Effect("transfer_from", from, -c.quantity)
                              /\ y = Effect("transfer_to", to, c.quantity)
    OBVIOUS
  <2>2. l = <<x, y>> /\ c.quantity > 0
    BY <1>4, <2>1 DEF buildPositionTransfer, When
  <2>3. c.quantity \in Int /\ from \in Endpoints /\ to \in Endpoints
    BY <1>4, <2>1, Formed DEF Fields
  <2>4. Moves(x) /\ Moves(y) /\ x.role = "transfer_from" /\ y.role = "transfer_to"
    BY <1>1, <2>1, <2>2, <2>3
  <2> QED  BY <2>2, <2>4, PlainLists
<1> QED  BY <1>2, <1>3, <1>4

(* Position and cost adjustments and trades record plain lists. *)
LEMMA BuiltPosition ==
    ASSUME LedgerAssumption, NEW c, Fields(c), NEW l,
           \/ c.kind = "position_adjustment" /\ l \in buildPositionAdjustment(c)
           \/ c.kind = "cost_adjustment" /\ l \in buildPositionCostAdjustment(c)
           \/ c.kind = "trade" /\ l \in buildTrade(c)
    PROVE  Plain(l)
<1>0. "quantity" \in Roles /\ "cost" \in Roles /\ "principal" \in Roles
  BY DEF Roles
<1>1. CASE c.kind = "position_adjustment" /\ l \in buildPositionAdjustment(c)
  <2>1. PICK on, by : on = Quantity(c.holding) /\ by = IF c.added THEN c.quantity ELSE -c.quantity
    OBVIOUS
  <2>2. l = <<Effect("quantity", on, by)>>
    BY <1>1, <2>1 DEF buildPositionAdjustment, When
  <2>3. on \in Endpoints /\ ~IsMoney(on)
    BY <1>1, <2>1, Formed DEF Fields
  <2>4. by \in Int
    BY <1>1, <2>1 DEF Fields
  <2>5. Moves(Effect("quantity", on, by))
    BY <1>0, <2>3, <2>4, EffectFacts
  <2> QED  BY <2>2, <2>5, PlainLists
<1>2. CASE c.kind = "cost_adjustment" /\ l \in buildPositionCostAdjustment(c)
  <2>1. PICK on : on = Cost(c.holding)
    OBVIOUS
  <2>2. l = <<Effect("cost", on, 0)>>
    BY <1>2, <2>1 DEF buildPositionCostAdjustment
  <2>3. on \in Places /\ ~IsMoney(on)
    BY <1>2, <2>1, Formed DEF Fields
  <2>4. Moves(Effect("cost", on, 0))
    BY <1>0, <2>3, EffectFacts
  <2> QED  BY <2>2, <2>4, PlainLists
<1>3. CASE c.kind = "trade" /\ l \in buildTrade(c)
  <2>1. PICK sign, cash, x, y : /\ sign = IF c.side = "buy" THEN 1 ELSE -1
                                /\ cash = Cash(c.account, c.currency)
                                /\ x = Effect("quantity", Quantity(c.holding), sign * c.quantity)
                                /\ y = Effect("principal", cash, -sign * c.gross)
    OBVIOUS
  <2>2. l = <<x, y>> \o FeeEffect(cash, c.fee) /\ c.gross > 0 /\ c.account \in Brokers
    BY <1>3, <2>1 DEF buildTrade, When
  <2>3. /\ c.holding \in Holdings /\ c.currency \in Currencies
        /\ c.quantity \in Int /\ c.gross \in Int /\ c.fee \in Int
    BY <1>3 DEF Fields
  <2>4. sign * c.quantity \in Int /\ -sign * c.gross \in Int /\ -sign * c.gross # 0
    <3>1. CASE sign = 1
      BY <2>2, <2>3, <3>1
    <3>2. CASE sign = -1
      BY <2>2, <2>3, <3>2
    <3> QED  BY <2>1, <3>1, <3>2
  <2>5. cash \in Endpoints /\ Quantity(c.holding) \in Endpoints /\ ~IsMoney(Quantity(c.holding))
    BY <2>1, <2>2, <2>3, Formed
  <2>6. Moves(x) /\ x.role = "quantity"
    BY <1>0, <2>1, <2>4, <2>5, EffectFacts
  <2>7. Moves(y) /\ y.role = "principal"
    BY <1>0, <2>1, <2>4, <2>5, EffectFacts
  <2> QED  BY <2>2, <2>3, <2>5, <2>6, <2>7, PlainFee
<1> QED  BY <1>1, <1>2, <1>3

(* Debt draws and payments record plain lists. *)
LEMMA BuiltDebt ==
    ASSUME LedgerAssumption, NEW c, Fields(c), NEW l,
           \/ c.kind = "debt_draw" /\ l \in buildDebtDraw(c)
           \/ c.kind = "debt_payment" /\ l \in buildDebtPayment(c)
    PROVE  Plain(l)
<1>0. "debt" \in Roles /\ "principal" \in Roles
  BY DEF Roles
<1>1. PICK debt, cash : debt = Value(c.debt) /\ cash = accountTarget(c.cash, c.currency)
  OBVIOUS
<1>2. c.principal \in Int /\ c.fee \in Int /\ cash \in Endpoints
  BY <1>1, Targeted DEF Fields
<1>3. ASSUME validateDebtEndpoints(c)
      PROVE  debt \in Endpoints /\ c.principal > 0
  BY <1>1, <1>3, Formed DEF validateDebtEndpoints
<1>4. ASSUME debt \in Endpoints, NEW by \in Int, by # 0,
             NEW x, NEW y, x = Effect("debt", debt, by), y = Effect("principal", cash, by)
      PROVE  Moves(x) /\ Moves(y) /\ x.role = "debt" /\ y.role = "principal"
  BY <1>0, <1>2, <1>4, EffectFacts
<1>5. CASE c.kind = "debt_draw" /\ l \in buildDebtDraw(c)
  <2>1. PICK x, y : x = Effect("debt", debt, c.principal) /\ y = Effect("principal", cash, c.principal)
    OBVIOUS
  <2>2. l = <<x, y>> /\ validateDebtEndpoints(c)
    BY <1>1, <1>5, <2>1 DEF buildDebtDraw, When
  <2>3. c.principal # 0 /\ debt \in Endpoints
    BY <1>2, <1>3, <2>2
  <2>4. Moves(x) /\ Moves(y) /\ x.role = "debt" /\ y.role = "principal"
    BY <1>2, <1>4, <2>1, <2>3
  <2> QED  BY <2>2, <2>4, PlainLists
<1>6. CASE c.kind = "debt_payment" /\ l \in buildDebtPayment(c)
  <2>1. PICK x, y : x = Effect("debt", debt, -c.principal) /\ y = Effect("principal", cash, -c.principal)
    OBVIOUS
  <2>2. l = <<x, y>> \o FeeEffect(cash, c.fee) /\ validateDebtEndpoints(c)
    BY <1>1, <1>6, <2>1 DEF buildDebtPayment, When
  <2>3. -c.principal \in Int /\ -c.principal # 0 /\ debt \in Endpoints
    BY <1>2, <1>3, <2>2
  <2>4. Moves(x) /\ Moves(y) /\ x.role = "debt" /\ y.role = "principal"
    BY <1>4, <2>1, <2>3
  <2> QED  BY <1>2, <2>2, <2>4, PlainFee
<1> QED  BY <1>5, <1>6

(* What a command records on the balances bal. *)
Made(bal, c, l) ==
    /\ CanApply(bal, l)
    /\ l \in Lists /\ l # <<>>
    /\ c.kind # "value_update" => Plain(l)
    /\ c.kind = "value_update" =>
          /\ Single(l) /\ l[1].on = Value(c.account) /\ l[1].by = c.value - bal[Value(c.account)]
          /\ Value(c.account) \in Endpoints

(* A builder accepts a value update that repeats the value only for a correction. *)
LEMMA Built ==
    ASSUME LedgerAssumption, NEW c, Fields(c), NEW bal \in Wallets, NEW z \in BOOLEAN,
           NEW l \in PreviewChange(bal, c, z)
    PROVE  /\ Made(bal, c, l)
           /\ c.kind = "value_update" => z \/ l[1].by # 0
<1>1. CanApply(bal, l)
  BY DEF PreviewChange
<1>2. ASSUME Plain(l), c.kind # "value_update"
      PROVE  Made(bal, c, l)
  BY <1>1, <1>2 DEF Made, Plain
<1>3. CASE c.kind \in {"money", "cash_dividend"}
  <2>1. \/ c.kind = "money" /\ l \in buildMoneyChange(c)
        \/ c.kind = "cash_dividend" /\ l \in buildCashDividend(c)
    BY <1>3 DEF PreviewChange
  <2> QED  BY <1>2, <1>3, <2>1, BuiltMoney
<1>4. CASE c.kind \in {"cash_transfer", "fx_conversion", "position_transfer"}
  <2>1. \/ c.kind = "cash_transfer" /\ l \in buildCashTransfer(c)
        \/ c.kind = "fx_conversion" /\ l \in buildFXConversion(c)
        \/ c.kind = "position_transfer" /\ l \in buildPositionTransfer(c)
    BY <1>4 DEF PreviewChange
  <2> QED  BY <1>2, <1>4, <2>1, BuiltTransfer
<1>5. CASE c.kind \in {"position_adjustment", "cost_adjustment", "trade"}
  <2>1. \/ c.kind = "position_adjustment" /\ l \in buildPositionAdjustment(c)
        \/ c.kind = "cost_adjustment" /\ l \in buildPositionCostAdjustment(c)
        \/ c.kind = "trade" /\ l \in buildTrade(c)
    BY <1>5 DEF PreviewChange
  <2> QED  BY <1>2, <1>5, <2>1, BuiltPosition
<1>6. CASE c.kind \in {"debt_draw", "debt_payment"}
  <2>1. \/ c.kind = "debt_draw" /\ l \in buildDebtDraw(c)
        \/ c.kind = "debt_payment" /\ l \in buildDebtPayment(c)
    BY <1>6 DEF PreviewChange
  <2> QED  BY <1>2, <1>6, <2>1, BuiltDebt
<1>7. CASE c.kind = "value_update"
  <2>1. l \in buildValueUpdateWithZero(bal, c, z)
    BY <1>7 DEF PreviewChange
  <2>2. PICK on, by, x : on = Value(c.account) /\ by = c.value - bal[on] /\ x = Effect("amount", on, by)
    OBVIOUS
  <2>3. c.account \notin Brokers /\ (by # 0 \/ z) /\ l = <<x>>
    BY <2>1, <2>2 DEF buildValueUpdateWithZero, When
  <2>4. c.account \in Assets \cup Debts /\ c.value \in Int
    BY <1>7, <2>3 DEF Fields, Accounts
  <2>5. on \in Endpoints /\ IsMoney(on)
    BY <2>2, <2>4, Formed
  <2>6. by \in Int
    BY <2>2, <2>4, <2>5 DEF Wallets
  <2>7. x \in EffectSet /\ x.on = on /\ x.by = by
    <3>1. "amount" \in Roles
      BY DEF Roles
    <3> QED  BY <2>2, <2>5, <2>6, <3>1, EffectFacts
  <2>8. l \in Lists /\ Len(l) = 1 /\ l[1] = x /\ l # <<>>
    BY <2>3, <2>7 DEF Lists
  <2>9. Single(l)
    BY <2>5, <2>7, <2>8 DEF Single
  <2> QED  BY <1>1, <1>7, <2>2, <2>3, <2>5, <2>7, <2>8, <2>9 DEF Made
<1> QED  BY <1>3, <1>4, <1>5, <1>6, <1>7 DEF Fields, Kinds

(* A correction that keeps the recorded fee is a command, too. *)
LEMMA CorrectedFields ==
    ASSUME NEW c, Fields(c), NEW a, NEW l \in Lists, NEW d, d = correctionTransferFee(c, a, l),
           c \in Commands
    PROVE  Fields(d) /\ d.kind = c.kind /\ (c.kind = "value_update" => d = c)
<1>1. PICK fees : fees = {n \in DOMAIN l : l[n].role = "fee"}
  OBVIOUS
<1>2. CASE d = c
  BY <1>2
<1>3. CASE d # c
  <2>1. c.kind = "cash_transfer" /\ \E fee, feeIn : d = [c EXCEPT !.fee = fee, !.feeIn = feeIn] /\ fee \in Int
    <3>1. CASE c.fee = 0 /\ c.feeIn = c.sentIn
      <4>1. c.kind = "cash_transfer" /\ d = [c EXCEPT !.fee = NoFee] /\ NoFee \in Int
        BY <1>3, <3>1 DEF correctionTransferFee, NoFee
      <4>2. PICK none, same : none = NoFee /\ same = c.feeIn
        OBVIOUS
      <4>3. d = [c EXCEPT !.fee = none, !.feeIn = same]
        BY <4>1, <4>2 DEF Commands
      <4> QED  BY <4>1, <4>2, <4>3
    <3>2. CASE ~(c.fee = 0 /\ c.feeIn = c.sentIn)
      <4>1. /\ c.kind = "cash_transfer" /\ fees # {}
            /\ d = [c EXCEPT !.fee = -l[Min(fees)].by, !.feeIn = CurrencyOf(l[Min(fees)].on)]
        BY <1>1, <1>3, <3>2 DEF correctionTransferFee
      <4>2. fees \in SUBSET Nat /\ fees \subseteq 1 .. Len(l)
        BY <1>1, ListFacts
      <4>3. Min(fees) \in 1 .. Len(l)
        BY <4>1, <4>2, MinMember
      <4>4. l[Min(fees)].by \in Int
        BY <4>3, ListFacts
      <4>5. -l[Min(fees)].by \in Int
        BY <4>4, MinusZero
      <4> QED  BY <4>1, <4>5
    <3> QED  BY <3>1, <3>2
  <2>2. PICK fee, feeIn : d = [c EXCEPT !.fee = fee, !.feeIn = feeIn] /\ fee \in Int
    BY <2>1
  <2>3. c \in [kind : {"cash_transfer"}, from : Accounts, to : Accounts, sent : Int,
               sentIn : Currencies, received : Int, receivedIn : Currencies, fee : Int,
               feeIn : Currencies]
    BY <2>1 DEF Commands
  <2>4. /\ d.kind = "cash_transfer" /\ d.from = c.from /\ d.to = c.to /\ d.sent = c.sent
        /\ d.sentIn = c.sentIn /\ d.received = c.received /\ d.receivedIn = c.receivedIn /\ d.fee = fee
    BY <2>2, <2>3
  <2>5. /\ d.from \in Accounts /\ d.to \in Accounts /\ d.sentIn \in Currencies
        /\ d.receivedIn \in Currencies /\ d.sent \in Int /\ d.received \in Int /\ d.fee \in Int
    BY <2>2, <2>3, <2>4
  <2>6. Fields(d)
    BY <2>4, <2>5 DEF Fields, Kinds
  <2> QED  BY <2>1, <2>4, <2>6
<1> QED  BY <1>2, <1>3

(* The target of a value update. *)
LEMMA TargetFacts ==
    ASSUME NEW c, Fields(c)
    PROVE  /\ c.kind = "value_update" =>
                 /\ DOMAIN TargetOf(c) = {Value(c.account)}
                 /\ TargetOf(c)[Value(c.account)] = c.value /\ c.value \in Int
           /\ c.kind # "value_update" => DOMAIN TargetOf(c) = {}
BY DEF TargetOf, Fields

(* The current values, refreshed at the endpoints that changed. *)
LEMMA RefreshedAll ==
    ASSUME NEW b \in Wallets, NEW T, current \in Wallets, \A e \in Endpoints \ T : b[e] = current[e]
    PROVE  Refreshed(b, T) = b
BY DEF Refreshed, Wallets
-----------------------------------------------------------------------------
(* One change *)

(* What the service reads off a ledger. *)
LEMMA LedgerFacts ==
    ASSUME LedgerAssumption, NEW A, NEW V, NEW cur, NEW t, NEW s, Ledger(A, V, cur, t, s),
           NEW L, L = LineOf(A, V, s), NEW E, E = ReplayMoneyEffects(L)
    PROVE  /\ Sound(A, V, t, s) /\ History(A, t) /\ IsOrder(A, s) /\ V \in Seq(RowSets)
           /\ Len(V) = Len(A) /\ Targets(A, V) /\ Len(A) \in Nat /\ DOMAIN A = 1 .. Len(A) /\ t \in Nat
           /\ IsLine(L) /\ Len(L) = Len(s) /\ Len(s) \in Nat /\ Len(E) = Len(s)
           /\ IsReplay(L, E, Balances(E)) /\ TimelineOf(A, V) = L
           /\ cur \in Wallets /\ cur = Balances(E)[Len(s)]
<1>1. Sound(A, V, t, s) /\ History(A, t) /\ IsOrder(A, s) /\ V \in Seq(RowSets) /\ Len(V) = Len(A)
  BY DEF Ledger, Sound
<1>2. Targets(A, V)
  BY <1>1, SoundTargets
<1>3. Len(A) \in Nat /\ DOMAIN A = 1 .. Len(A)
  BY <1>1, HistoryFacts
<1>4. t \in Nat
  BY <1>1 DEF History
<1>5. IsLine(L) /\ Len(L) = Len(s) /\ Len(s) \in Nat
  BY <1>1, SoundLine
<1>6. Len(E) = Len(s) /\ IsReplay(L, E, Balances(E)) /\ TimelineOf(A, V) = L
  BY <1>1, SoundLine
<1>7. cur = Balances(E)[Len(s)]
  BY <1>6 DEF Ledger, Final, BalanceAfter
<1>8. cur \in Wallets
  <2>1. Len(s) \in 0 .. Len(L)
    BY <1>5
  <2> QED  BY <1>6, <1>7, <2>1 DEF IsReplay
<1> QED  BY <1>1, <1>2, <1>3, <1>4, <1>5, <1>6, <1>7, <1>8

(* M is L with the entry x behind the first n, both replayed. *)
Joined(L, E, M, F, n, x) ==
    /\ IsReplay(L, E, Balances(E)) /\ IsReplay(M, F, Balances(F))
    /\ Len(L) \in Nat /\ Len(M) = Len(L) + 1 /\ Len(F) = Len(M) /\ n \in 0 .. Len(L)
    /\ M[n + 1] = x
    /\ \A m \in 1 .. n : M[m] = L[m] /\ F[m] = E[m]
    /\ Balances(F)[n] = Balances(E)[n] /\ Balances(E)[n] \in Wallets
    /\ Final(F) \in Wallets

(* A new activity in its place. *)
LEMMA PlacedReplay ==
    ASSUME LedgerAssumption, NEW A, NEW V, NEW cur, NEW t, NEW s, Ledger(A, V, cur, t, s),
           NEW a, New(A, a, t), NEW v, Observed(a) => v[a.eff[1].on] \in Int,
           NEW L, L = LineOf(A, V, s), NEW E, E = ReplayMoneyEffects(L),
           NEW n, n = Behind(A, s, a.at), NEW x, x = Entry(Len(A) + 1, a, v),
           NEW M, M = Placed(L, n, x), NEW F, F = ReplayMoneyEffects(M)
    PROVE  Joined(L, E, M, F, n, x)
<1>1. PICK A2, V2, s2, S : /\ A2 = Append(A, a) /\ V2 = Append(V, v) /\ s2 = Placed(s, n, Len(A) + 1)
                           /\ S = RowSets \cup {v}
  OBVIOUS
<1>2. /\ History(A, t) /\ IsOrder(A, s) /\ V \in Seq(RowSets) /\ Len(V) = Len(A) /\ Targets(A, V)
      /\ Len(L) = Len(s) /\ Len(s) \in Nat /\ IsReplay(L, E, Balances(E))
  BY LedgerFacts
<1>3. V \in Seq(S) /\ v \in S
  BY <1>1, <1>2
<1>4. M = Placed(L, n, Entry(Len(A) + 1, a, v))
  OBVIOUS
<1>5. Grown(A, t, s, a, S, v, L, n, A2, V2, s2, M)
  BY <1>1, <1>2, <1>3, <1>4, GrownLine
<1>6. /\ n \in 0 .. Len(s) /\ IsLine(M) /\ Len(M) = Len(s) + 1 /\ M[n + 1] = x
      /\ \A m \in 1 .. n : M[m] = L[m]
  BY <1>5 DEF Grown
<1>7. IsReplay(M, F, Balances(F)) /\ Len(F) = Len(M)
  BY <1>6, ReplayFacts
<1>8. n \in 0 .. Len(L) /\ n <= Len(M) /\ n \in 0 .. n /\ Len(M) \in 0 .. Len(M)
  BY <1>2, <1>6
<1>9. \A m \in 1 .. n : Alike(L[m], M[m])
  BY <1>6 DEF Alike
<1>10. IsReplay(L, E, Balances(E))
  BY <1>2
<1>11. IsReplay(M, F, Balances(F))
  BY <1>7
<1>12. /\ \A m \in 0 .. n : Balances(F)[m] = Balances(E)[m]
       /\ \A m \in 1 .. n : F[m] = E[m]
  <2>1. Agree(E, Balances(E), F, Balances(F), n)
    BY <1>8, <1>9, <1>10, <1>11, SamePrefix
  <2> QED  BY <2>1 DEF Agree
<1>13. Balances(F)[n] = Balances(E)[n] /\ Balances(E)[n] \in Wallets
  BY <1>2, <1>8, <1>12 DEF IsReplay
<1>14. Final(F) \in Wallets
  BY <1>7, <1>8 DEF IsReplay, Final, BalanceAfter
<1> QED  BY <1>2, <1>6, <1>7, <1>8, <1>12, <1>13, <1>14 DEF Joined

(* An activity that is not in the ledger yet, with the effects l of the command c. *)
Fresh(A, t, c, l, at, a) ==
    /\ New(A, a, t) /\ a.eff = l /\ a.at = at /\ a.kind = c.kind
    /\ Observed(a) <=> c.kind = "value_update"
    /\ Recorded(a) <=> c.kind # "value_update"

(* What the service writes for a command is one. *)
LEMMA NewActivity ==
    ASSUME NEW A, NEW t, History(A, t), NEW c, Fields(c), NEW bal, NEW l,
           Made(bal, c, l), NEW at \in Nat, at <= t,
           NEW a, a = Activity(c.kind, at, t, Len(A) + 1, l, None, None, FALSE)
    PROVE  Fresh(A, t, c, l, at, a)
<1>1. /\ a.eff = l /\ a.at = at /\ a.kind = c.kind /\ a.made = t /\ a.order = Len(A) + 1
      /\ a.reverses = None /\ a.replaces = None /\ a.fix = FALSE
  BY DEF Activity
<1>2. t \in Nat /\ Len(A) + 1 \in Nat /\ None \in Nat /\ FALSE \in BOOLEAN
  BY HistoryFacts DEF History, None
<1>3. c.kind \in Kinds
  BY DEF Fields, Kinds
<1>4. l \in Lists
  BY DEF Made
<1>5. a \in Acts
  BY <1>2, <1>3, <1>4 DEF Acts, Activity
<1>6. Observed(a) <=> c.kind = "value_update"
  BY <1>1 DEF Observed, Made
<1>7. Recorded(a) <=> c.kind # "value_update"
  BY <1>1 DEF Recorded, Made
<1> QED  BY <1>1, <1>5, <1>6, <1>7 DEF New, Fresh

(* One effect with the amount it has. *)
LEMMA MovingItself ==
    ASSUME NEW l, Single(l), l[1].by # 0
    PROVE  Moving(l[1], l[1].by) = l
<1>1. l[1] \in EffectSet /\ l \in Seq(EffectSet) /\ Len(l) = 1
  BY SingleTouched DEF Single, Lists
<1>2. [l[1] EXCEPT !.by = l[1].by] = l[1]
  BY <1>1 DEF EffectSet
<1>3. l = <<l[1]>>
  BY <1>1
<1>4. Moving(l[1], l[1].by) = <<[l[1] EXCEPT !.by = l[1].by]>>
  BY DEF Moving
<1> QED  BY <1>2, <1>3, <1>4

(* A new activity contributes what it recorded. *)
LEMMA FreshEffects ==
    ASSUME NEW L, NEW E, NEW M, NEW F, NEW n, NEW x, Joined(L, E, M, F, n, x),
           NEW c, Made(Balances(E)[n], c, x.eff),
           Observed(x) <=> c.kind = "value_update", Recorded(x) <=> c.kind # "value_update",
           c.kind = "value_update" => x.seen[Value(c.account)] = c.value
    PROVE  /\ c.kind # "value_update" => F[n + 1] = x.eff
           /\ x.eff[1].by # 0 => F[n + 1] = x.eff
<1>1. /\ IsReplay(M, F, Balances(F)) /\ n + 1 \in 1 .. Len(M) /\ (n + 1) - 1 = n /\ M[n + 1] = x
      /\ Balances(F)[n] = Balances(E)[n]
  BY DEF Joined
<1>2. Form(M, F, Balances(F)[n], n + 1)
  BY <1>1 DEF IsReplay
<1>3. CASE c.kind # "value_update"
  BY <1>1, <1>2, <1>3 DEF Form, Closed
<1>4. CASE c.kind = "value_update"
  <2>1. /\ Single(x.eff) /\ x.eff[1].on = Value(c.account)
        /\ x.eff[1].by = c.value - Balances(E)[n][Value(c.account)]
    BY <1>4 DEF Made
  <2>2. F[n + 1] = Moving(x.eff[1], x.seen[x.eff[1].on] - Balances(F)[n][x.eff[1].on])
    BY <1>1, <1>2, <1>4 DEF Form, Closed
  <2>3. F[n + 1] = Moving(x.eff[1], x.eff[1].by)
    BY <1>1, <1>4, <2>1, <2>2
  <2> QED  BY <1>4, <2>1, <2>3, MovingItself
<1> QED  BY <1>3, <1>4
-----------------------------------------------------------------------------
(* The invariant: the variables are a ledger, in some order *)

InOrder(s) == Ledger(acts, event, current, now, s)
LInv == \E s : InOrder(s)

(* An empty history is one. *)
LEMMA InitOrder ==
    ASSUME LedgerAssumption, Init
    PROVE  LInv
<1>1. acts = <<>> /\ event = <<>> /\ current = Opening /\ now = 0
  BY DEF Init
<1>2. PICK none : none = <<>>
  OBVIOUS
<1>3. Len(none) = 0 /\ DOMAIN none = {} /\ none \in Seq(Acts) /\ none \in Seq(RowSets)
  BY <1>2
<1>4. History(none, 0)
  BY <1>3 DEF History
<1>5. IsOrder(none, none)
  BY <1>3 DEF IsOrder
<1>6. Sound(none, none, 0, none)
  BY <1>3, <1>4, <1>5 DEF Sound
<1>7. PICK L, E : L = LineOf(none, none, none) /\ E = ReplayMoneyEffects(L)
  OBVIOUS
<1>8. /\ IsReplay(L, E, Balances(E)) /\ Len(L) = 0 /\ Len(E) = 0 /\ DOMAIN E = {}
  <2>1. IsReplay(L, E, Balances(E)) /\ Len(L) = Len(none) /\ Len(E) = Len(none) /\ DOMAIN E = 1 .. Len(none)
    BY <1>6, <1>7, SoundLine
  <2> QED  BY <1>3, <2>1
<1>9. Final(E) = Opening
  BY <1>8 DEF Final, BalanceAfter, IsReplay
<1>10. Replays(E)
  BY <1>8 DEF Replays
<1>11. Shown(L, E)
  BY <1>8 DEF Shown
<1>12. Ledger(none, none, Opening, 0, none)
  BY <1>6, <1>7, <1>9, <1>10, <1>11 DEF Ledger
<1>13. InOrder(none)
  BY <1>1, <1>2, <1>12 DEF InOrder
<1> QED  BY <1>13 DEF LInv

(* Time passes. *)
LEMMA TickOrder ==
    ASSUME LedgerAssumption, NEW s, InOrder(s), Tick
    PROVE  LInv'
<1>1. Sound(acts, event, now, s) /\ History(acts, now)
  BY DEF InOrder, Ledger, Sound
<1>2. acts' = acts /\ event' = event /\ current' = current /\ now' = now + 1
  BY DEF Tick
<1>3. History(acts, now + 1)
  <2>1. now \in Nat /\ now + 1 \in Nat
    BY <1>1 DEF History
  <2>2. \A i \in DOMAIN acts : acts[i].at \in Nat /\ acts[i].made \in Nat
    BY <1>1, HistoryFacts DEF AllStamped, Stamped
  <2>3. \A i \in DOMAIN acts : acts[i].at <= now + 1 /\ acts[i].made <= now + 1
    BY <1>1, <2>1, <2>2 DEF History
  <2> QED  BY <1>1, <2>1, <2>3 DEF History
<1>4. Sound(acts, event, now + 1, s)
  BY <1>1, <1>3 DEF Sound
<1>5. Ledger(acts, event, current, now + 1, s)
  BY <1>4 DEF InOrder, Ledger
<1>6. Ledger(acts', event', current', now', s)
  BY <1>2, <1>5
<1> QED  BY <1>6 DEF LInv, InOrder

(* A change at the present instant is the last entry, and needs no replay. *)
LEMMA RecordNowOrder ==
    ASSUME LedgerAssumption, NEW s, InOrder(s), NEW c \in Menu, RecordNow(c)
    PROVE  LInv'
<1>1. PICK L, E, n : L = LineOf(acts, event, s) /\ E = ReplayMoneyEffects(L) /\ n = Len(s)
  OBVIOUS
<1>2. /\ History(acts, now) /\ IsOrder(acts, s) /\ Len(acts) \in Nat /\ now \in Nat
      /\ current \in Wallets /\ current = Balances(E)[n]
  BY <1>1, LedgerFacts DEF InOrder
<1>3. Fields(c)
  BY CommandFields DEF LedgerAssumption
<1>4. PICK l \in PreviewChange(current, c, FALSE) :
        /\ acts' = Append(acts, Activity(c.kind, now, now, NewId, l, None, None, FALSE))
        /\ event' = Append(event, Rows(Applied(current, l), l))
        /\ current' = Refreshed(Applied(current, l), Touched(l))
  BY DEF RecordNow
<1>5. PICK a, after, row : /\ a = Activity(c.kind, now, now, Len(acts) + 1, l, None, None, FALSE)
                           /\ after = Applied(current, l) /\ row = Rows(after, l)
  OBVIOUS
<1>6. Made(current, c, l) /\ (c.kind = "value_update" => l[1].by # 0)
  BY <1>2, <1>3, Built
<1>7. l \in Lists /\ CanApply(current, l)
  BY <1>6 DEF Made
<1>8. now <= now
  BY <1>2
<1>9. /\ New(acts, a, now) /\ a.eff = l /\ a.at = now /\ a.kind = c.kind
      /\ Observed(a) <=> c.kind = "value_update"
      /\ Recorded(a) <=> c.kind # "value_update"
  <2>1. Fresh(acts, now, c, l, now, a)
    BY <1>2, <1>3, <1>5, <1>6, <1>8, NewActivity
  <2> QED  BY <2>1 DEF Fresh
<1>10. after \in Wallets /\ \A e \in Endpoints \ Touched(l) : after[e] = current[e]
  BY <1>2, <1>5, <1>7, AppliedFacts
<1>11. \A e \in Touched(l) : row[e] = after[e]
  BY <1>5, <1>10, RowsFacts
<1>12. c.kind = "value_update" => /\ row[Value(c.account)] = c.value /\ l[1].on = Value(c.account)
                                  /\ l[1].by # 0 /\ c.value \in Int
  <2> SUFFICES ASSUME c.kind = "value_update"
               PROVE  /\ row[Value(c.account)] = c.value /\ l[1].on = Value(c.account)
                      /\ l[1].by # 0 /\ c.value \in Int
    OBVIOUS
  <2>1. PICK on : on = Value(c.account)
    OBVIOUS
  <2>2. Single(l) /\ l[1].on = on /\ l[1].by = c.value - current[on] /\ on \in Endpoints /\ l[1].by # 0
    BY <1>6, <2>1 DEF Made
  <2>3. Touched(l) = {on} /\ l[1] \in EffectSet /\ Len(l) = 1
    BY <2>2, SingleTouched DEF Single
  <2>4. after = AddEffect(current, l[1])
    BY <1>2, <1>5, <1>7, <2>3, AppliedShort
  <2>5. after[on] = current[on] + l[1].by
    BY <1>2, <2>2, <2>3, <2>4, AddEffectFacts
  <2>6. current[on] \in Int /\ c.value \in Int
    BY <1>2, <1>3, <2>2 DEF Wallets, Fields
  <2>7. after[on] = c.value
    BY <2>2, <2>5, <2>6
  <2> QED  BY <1>11, <2>1, <2>2, <2>3, <2>6, <2>7
<1>13. Observed(a) => row[a.eff[1].on] \in Int
  BY <1>9, <1>12
<1>14. Behind(acts, s, a.at) = n
  BY <1>1, <1>2, <1>9, BehindAll
<1>15. PICK x, M, F : x = Entry(Len(acts) + 1, a, row) /\ M = Placed(L, n, x) /\ F = ReplayMoneyEffects(M)
  OBVIOUS
<1>16. Joined(L, E, M, F, n, x)
  BY <1>1, <1>9, <1>13, <1>14, <1>15, PlacedReplay DEF InOrder
<1>17. /\ x.eff = l /\ x.seen = row
       /\ Observed(x) <=> c.kind = "value_update"
       /\ Recorded(x) <=> c.kind # "value_update"
  BY <1>9, <1>15, EntryFields
<1>18. F[n + 1] = l
  <2>1. Made(Balances(E)[n], c, x.eff)
    BY <1>2, <1>6, <1>17
  <2>2. c.kind = "value_update" => x.seen[Value(c.account)] = c.value
    BY <1>12, <1>17
  <2>3. /\ c.kind # "value_update" => F[n + 1] = x.eff
        /\ x.eff[1].by # 0 => F[n + 1] = x.eff
    BY <1>16, <1>17, <2>1, <2>2, FreshEffects
  <2> QED  BY <1>12, <1>17, <2>3
<1>19. Ledger(Append(acts, a), Append(event, row), after, now, Placed(s, Len(s), Len(acts) + 1))
  <2>1. row = Rows(after, a.eff)
    BY <1>5, <1>9
  <2>2. M = Placed(LineOf(acts, event, s), Len(s), Entry(Len(acts) + 1, a, row))
    BY <1>1, <1>15
  <2>3. F = ReplayMoneyEffects(M)
    BY <1>15
  <2>4. CanApply(current, F[Len(s) + 1]) /\ after = Applied(current, F[Len(s) + 1])
    BY <1>1, <1>5, <1>7, <1>18
  <2>5. Behind(acts, s, a.at) = Len(s)
    BY <1>1, <1>14
  <2>6. Ledger(acts, event, current, now, s) /\ New(acts, a, now)
    BY <1>9 DEF InOrder
  <2> QED  BY <1>10, <2>1, <2>2, <2>3, <2>4, <2>5, <2>6, AppendLedger
<1>20. current' = after
  BY <1>2, <1>4, <1>5, <1>10, RefreshedAll
<1>21. now' = now
  BY DEF RecordNow
<1>22. acts' = Append(acts, a) /\ event' = Append(event, row)
  BY <1>4, <1>5 DEF NewId
<1>23. Ledger(acts', event', current', now', Placed(s, Len(s), Len(acts) + 1))
  BY <1>19, <1>20, <1>21, <1>22
<1> QED  BY <1>23 DEF LInv, InOrder

(* The part of RecordEarlier that follows the preview. *)
WriteEarlier(c, at, line, n, effects) ==
    LET a == Activity(c.kind, at, now, NewId, effects, None, None, FALSE)
        new == Placed(line, n, Entry(NewId, a, TargetOf(c)))
        eff == ReplayMoneyEffects(new)
        final == Final(eff)
    IN  /\ Replays(eff)
        /\ acts' = Append(acts, a)
        /\ event' = Rebuilt(Append(event, Rows(final, effects)), new, eff, n, FALSE)
        /\ current' = Refreshed(final, Touched(effects))

(* A change at an earlier instant is placed among the others, and everything behind it is
   replayed. *)
LEMMA RecordEarlierOrder ==
    ASSUME LedgerAssumption, NEW s, InOrder(s), NEW c \in Menu, NEW at \in 0 .. LastInstant, RecordEarlier(c, at)
    PROVE  LInv'
<1>1. PICK L, E, n : L = LineOf(acts, event, s) /\ E = ReplayMoneyEffects(L) /\ n = Behind(acts, s, at)
  OBVIOUS
<1>2. /\ History(acts, now) /\ IsOrder(acts, s) /\ Len(acts) \in Nat /\ now \in Nat
      /\ Timeline = L /\ current \in Wallets /\ IsReplay(L, E, Balances(E)) /\ Len(L) = Len(s) /\ Len(s) \in Nat
  BY <1>1, LedgerFacts DEF InOrder, Timeline
<1>3. at \in Nat /\ at < now /\ at <= now
  <2>1. at \in Nat /\ at < now
    BY DEF LedgerAssumption, RecordEarlier
  <2> QED  BY <1>2, <2>1
<1>4. Slot(L, at, now) = n
  BY <1>1, <1>2, <1>3, SlotIs
<1>5. n \in 0 .. Len(s)
  BY <1>1, <1>2, <1>3, BehindFacts
<1>6. PICK bal : bal = Balances(E)[n]
  OBVIOUS
<1>7. bal \in Wallets
  BY <1>2, <1>5, <1>6 DEF IsReplay
<1>8. Fields(c)
  BY CommandFields DEF LedgerAssumption
<1>9. PICK l \in PreviewChange(bal, c, FALSE) : WriteEarlier(c, at, L, n, l)
  <2>1. \E l \in PreviewChange(BalanceAfter(ReplayMoneyEffects(Timeline), Slot(Timeline, at, now)), c, FALSE) :
          WriteEarlier(c, at, Timeline, Slot(Timeline, at, now), l)
    BY DEF RecordEarlier, WriteEarlier
  <2>2. BalanceAfter(ReplayMoneyEffects(Timeline), Slot(Timeline, at, now)) = bal
    BY <1>1, <1>2, <1>4, <1>6 DEF BalanceAfter
  <2> QED  BY <1>2, <1>4, <2>1, <2>2
<1>10. PICK a, M, F, final :
          /\ a = Activity(c.kind, at, now, Len(acts) + 1, l, None, None, FALSE)
          /\ M = Placed(L, n, Entry(Len(acts) + 1, a, TargetOf(c)))
          /\ F = ReplayMoneyEffects(M) /\ final = Final(F) /\ Replays(F)
          /\ acts' = Append(acts, a)
          /\ event' = Rebuilt(Append(event, Rows(final, l)), M, F, n, FALSE)
          /\ current' = Refreshed(final, Touched(l))
  BY <1>9 DEF WriteEarlier, NewId
<1>11. Made(bal, c, l) /\ (c.kind = "value_update" => l[1].by # 0)
  BY <1>7, <1>8, Built
<1>12. Fresh(acts, now, c, l, at, a)
  BY <1>2, <1>3, <1>8, <1>10, <1>11, NewActivity
<1>13. /\ New(acts, a, now) /\ a.eff = l /\ a.at = at
       /\ Observed(a) <=> c.kind = "value_update"
       /\ Recorded(a) <=> c.kind # "value_update"
  BY <1>12 DEF Fresh
<1>14. c.kind = "value_update" => /\ TargetOf(c)[Value(c.account)] = c.value /\ c.value \in Int
                                  /\ l[1].on = Value(c.account)
  BY <1>8, <1>11, TargetFacts DEF Made
<1>15. PICK v, row : v = TargetOf(c) /\ row = Rows(final, l)
  OBVIOUS
<1>16. Observed(a) => v[a.eff[1].on] \in Int
  BY <1>13, <1>14, <1>15
<1>17. PICK x : x = Entry(Len(acts) + 1, a, v)
  OBVIOUS
<1>18. M = Placed(L, n, x) /\ n = Behind(acts, s, a.at)
  BY <1>1, <1>10, <1>13, <1>15, <1>17
<1>19. Joined(L, E, M, F, n, x)
  BY <1>1, <1>10, <1>13, <1>16, <1>17, <1>18, PlacedReplay DEF InOrder
<1>20. /\ x.eff = l /\ x.seen = v
       /\ Observed(x) <=> c.kind = "value_update"
       /\ Recorded(x) <=> c.kind # "value_update"
  BY <1>13, <1>17, EntryFields
<1>21. Observed(a) => F[n + 1] # <<>>
  <2>1. Made(Balances(E)[n], c, x.eff)
    BY <1>6, <1>11, <1>20
  <2>2. c.kind = "value_update" => x.seen[Value(c.account)] = c.value
    BY <1>14, <1>15, <1>20
  <2>3. /\ c.kind # "value_update" => F[n + 1] = x.eff
        /\ x.eff[1].by # 0 => F[n + 1] = x.eff
    BY <1>19, <1>20, <2>1, <2>2, FreshEffects
  <2>4. l # <<>>
    BY <1>11 DEF Made
  <2> QED  BY <1>11, <1>13, <1>20, <2>3, <2>4
<1>22. final \in Wallets
  BY <1>10, <1>19 DEF Joined
<1>23. row \in RowSets /\ DOMAIN row = Touched(a.eff)
  BY <1>13, <1>15, <1>22, RowsFacts
<1>24. /\ Ledger(Append(acts, a), Rebuilt(Append(event, row), M, F, n, FALSE), Final(F), now,
                 Placed(s, n, Len(acts) + 1))
       /\ \A e \in Endpoints \ Touched(a.eff) : Final(F)[e] = current[e]
  <2>1. M = Placed(LineOf(acts, event, s), n, Entry(Len(acts) + 1, a, v))
    BY <1>1, <1>17, <1>18
  <2>2. F = ReplayMoneyEffects(M) /\ Replays(F)
    BY <1>10
  <2>3. Ledger(acts, event, current, now, s) /\ n = Behind(acts, s, a.at) /\ New(acts, a, now)
    BY <1>13, <1>18 DEF InOrder
  <2>4. PICK undo \in BOOLEAN : undo = FALSE
    OBVIOUS
  <2>5. Inserted(acts, event, current, now, s, a, row, n, M, F, undo)
    BY <1>16, <1>21, <1>23, <2>1, <2>2, <2>3, InsertLedger
  <2> QED  BY <2>4, <2>5, Zenon DEF Inserted
<1>25. current' = Final(F)
  BY <1>2, <1>10, <1>13, <1>22, <1>24, RefreshedAll, ZenonT(30)
<1>26. now' = now
  BY DEF RecordEarlier
<1>27. Ledger(acts', event', current', now', Placed(s, n, Len(acts) + 1))
  BY <1>10, <1>15, <1>24, <1>25, <1>26
<1> QED  BY <1>27 DEF LInv, InOrder

(* A rebuild of everything changes neither the facts nor the targets of value updates. *)
LEMMA RebuildOrder ==
    ASSUME LedgerAssumption, NEW s, InOrder(s), RebuildDerivedData
    PROVE  LInv'
<1>1. PICK L, E, R, no : /\ L = LineOf(acts, event, s) /\ E = ReplayMoneyEffects(L)
                         /\ no \in BOOLEAN /\ no = FALSE /\ R = Rebuilt(event, L, E, 0, no)
  <2>1. PICK no \in BOOLEAN : no = FALSE
    OBVIOUS
  <2> QED  BY <2>1
<1>2. /\ Sound(acts, event, now, s) /\ History(acts, now) /\ IsOrder(acts, s) /\ Len(event) = Len(acts)
      /\ Len(acts) \in Nat /\ DOMAIN acts = 1 .. Len(acts) /\ Timeline = L /\ IsLine(L)
      /\ Len(L) = Len(s) /\ Len(s) \in Nat /\ event \in Seq(RowSets)
  BY <1>1, LedgerFacts DEF InOrder, Timeline
<1>3. /\ Replays(E) /\ acts' = acts /\ now' = now /\ current' = Final(E)
      /\ event' = [i \in DOMAIN event |-> IF acts[i].kind = "value_update" THEN event[i] ELSE R[i]]
  <2>1. R = Rebuilt(event, Timeline, ReplayMoneyEffects(Timeline), 0, FALSE)
    BY <1>1, <1>2, Zenon
  <2>2. /\ Replays(ReplayMoneyEffects(Timeline)) /\ UNCHANGED <<acts, now>>
        /\ event' = [i \in DOMAIN event |->
                        IF acts[i].kind = "value_update" THEN event[i]
                        ELSE Rebuilt(event, Timeline, ReplayMoneyEffects(Timeline), 0, FALSE)[i]]
        /\ current' = Final(ReplayMoneyEffects(Timeline))
    BY Zenon DEF RebuildDerivedData
  <2>3. event' = [i \in DOMAIN event |-> IF acts[i].kind = "value_update" THEN event[i] ELSE R[i]]
    BY <2>1, <2>2, Zenon
  <2> QED  BY <1>1, <1>2, <2>2, <2>3
<1>4. PICK W : W = event'
  OBVIOUS
<1>5. \A m \in 1 .. Len(s) : L[m] = Entry(s[m], acts[s[m]], event[s[m]]) /\ s[m] \in 1 .. Len(acts)
  BY <1>1, <1>2 DEF LineOf, IsOrder
<1>6. \A m \in 1 .. Len(s) : /\ L[m].id = s[m] /\ L[m].kind = acts[s[m]].kind /\ L[m].eff = acts[s[m]].eff
                             /\ L[m].seen = event[s[m]]
  BY <1>5, EntryFields
<1>7. Stands(L, acts, s)
  BY <1>2, <1>6 DEF Stands
<1>8. Sound(acts, R, now, s) /\ Rewritten(acts, R, event, s, L, E, 0)
  <2>1. 0 \in 0 .. Len(s)
    BY <1>2
  <2> QED  BY <1>1, <1>2, <1>7, <2>1, RebuiltRows
<1>9. /\ DOMAIN event = 1 .. Len(acts)
      /\ \A i \in 1 .. Len(acts) : W[i] = IF acts[i].kind = "value_update" THEN event[i] ELSE R[i]
      /\ W = [i \in 1 .. Len(acts) |-> W[i]]
  BY <1>2, <1>3, <1>4
<1>10. Sound(acts, W, now, s)
  <2>1. \A i \in 1 .. Len(acts) : /\ event[i] \in RowSets /\ DOMAIN event[i] = Touched(acts[i].eff)
                                  /\ R[i] \in RowSets /\ DOMAIN R[i] = Touched(acts[i].eff)
    BY <1>2, <1>8, <1>9 DEF Sound
  <2>2. \A i \in 1 .. Len(acts) : W[i] \in RowSets /\ DOMAIN W[i] = Touched(acts[i].eff)
    BY <1>9, <2>1
  <2>3. W \in Seq(RowSets) /\ Len(W) = Len(acts)
    BY <1>2, <1>9, <2>2
  <2> QED  BY <1>2, <2>2, <2>3 DEF Sound
<1>11. ASSUME NEW m \in 1 .. Len(s)
       PROVE  Alike(L[m], Entry(s[m], acts[s[m]], W[s[m]]))
  <2>1. PICK x : x = Entry(s[m], acts[s[m]], W[s[m]])
    OBVIOUS
  <2>2. /\ x.id = s[m] /\ x.kind = acts[s[m]].kind /\ x.reverses = acts[s[m]].reverses
        /\ x.eff = acts[s[m]].eff /\ x.seen = W[s[m]]
    BY <2>1, EntryFields
  <2>3. L[m].reverses = acts[s[m]].reverses
    BY <1>5, EntryFields
  <2>4. Observed(L[m]) => L[m].seen = x.seen
    BY <1>5, <1>6, <1>9, <2>2 DEF Observed
  <2> QED  BY <1>6, <2>1, <2>2, <2>3, <2>4 DEF Alike
<1>12. ASSUME NEW m \in 1 .. Len(s), E[m] # <<>>, NEW e \in Touched(acts[s[m]].eff)
       PROVE  W[s[m]][e] = Balances(E)[m][e]
  <2>1. CASE acts[s[m]].kind = "value_update"
    <3>1. Shown(L, E) /\ m \in 1 .. Len(L)
      BY <1>1, <1>2 DEF InOrder, Ledger
    <3>2. \A x \in Touched(L[m].eff) : L[m].seen[x] = Balances(E)[m][x]
      BY <1>12, <3>1 DEF Shown
    <3> QED  BY <1>5, <1>6, <1>9, <1>12, <2>1, <3>2
  <2>2. CASE acts[s[m]].kind # "value_update"
    <3>1. m > 0
      BY <1>2
    <3>2. R[s[m]][e] = Balances(E)[m][e]
      BY <1>8, <1>12, <3>1 DEF Rewritten
    <3> QED  BY <1>5, <1>9, <2>2, <3>2
  <2> QED  BY <2>1, <2>2
<1>13. Ledger(acts, W, Final(E), now, s)
  BY <1>1, <1>2, <1>3, <1>10, <1>11, <1>12, Settle
<1>14. Ledger(acts', event', current', now', s)
  BY <1>3, <1>4, <1>13
<1> QED  BY <1>14 DEF LInv, InOrder
-----------------------------------------------------------------------------
(* Undo *)

(* A single effect that moves nothing. *)
LEMMA StillFacts ==
    ASSUME NEW b \in Wallets, NEW l, Single(l), l[1].by = 0
    PROVE  Applied(b, l) = b
<1>1. l[1] \in EffectSet /\ l \in Lists /\ Len(l) = 1 /\ l[1].on \in Endpoints
  BY SingleTouched DEF Single
<1>2. Applied(b, l) = AddEffect(b, l[1])
  BY <1>1, AppliedShort
<1>3. AddEffect(b, l[1]) \in Wallets /\ \A e \in Endpoints : AddEffect(b, l[1])[e] = IF l[1].on = e THEN b[e] + l[1].by ELSE b[e]
  BY <1>1, AddEffectFacts
<1>4. \A e \in Endpoints : AddEffect(b, l[1])[e] = b[e]
  BY <1>3 DEF Wallets
<1>5. AddEffect(b, l[1]) = b
  BY <1>3, <1>4 DEF Wallets
<1> QED  BY <1>2, <1>5

(* An empty list can always be applied. *)
LEMMA EmptyFacts ==
    ASSUME NEW b \in Wallets
    PROVE  CanApply(b, <<>>) /\ Applied(b, <<>>) = b
<1>1. <<>> \in Lists
  BY DEF Lists
<1>2. Applied(b, <<>>) = b
  BY <1>1, AppliedShort
<1>3. CanApply(b, <<>>)
  BY DEF CanApply
<1> QED  BY <1>2, <1>3

(* What an undo of o takes back when o contributes l: a list inv that records the undo, and
   that has the effect of the inverse of l. *)
TakesBack(o, l, inv) ==
    /\ inv \in Lists
    /\ Recorded(o) => inv = InverseOf(o.eff)
    /\ Observed(o) => Single(inv) /\ inv[1].on = o.eff[1].on /\ inv[1].role = o.eff[1].role
    /\ \A b \in Wallets : Applied(b, inv) = Applied(b, InverseOf(l))
    /\ \A b \in Wallets : CanApply(b, inv) => CanApply(b, InverseOf(l))

(* The list that an undo records takes back what its original contributes. *)
LEMMA UndoneList ==
    ASSUME NEW o, NEW l, NEW inv, inv = InverseOf(Undoable(o, l)),
           \/ Recorded(o) /\ l = o.eff
           \/ Observed(o) /\ \E d \in Int : l = Moving(o.eff[1], d)
    PROVE  TakesBack(o, l, inv)
<1>1. CASE Recorded(o) /\ l = o.eff
  <2>1. Undoable(o, l) = l /\ ~Observed(o) /\ o.eff \in Lists
    BY <1>1 DEF Undoable, Recorded, Observed, Plain
  <2>2. inv = InverseOf(l) /\ inv \in Lists
    BY <1>1, <2>1, InverseFacts
  <2> QED  BY <1>1, <2>1, <2>2 DEF TakesBack
<1>2. CASE Observed(o) /\ \E d \in Int : l = Moving(o.eff[1], d)
  <2>1. PICK d \in Int : l = Moving(o.eff[1], d)
    BY <1>2
  <2>2. Single(o.eff) /\ o.kind = "value_update" /\ ~Recorded(o)
    BY <1>2 DEF Observed, Recorded
  <2>3. /\ l \in Lists /\ (d = 0 => l = <<>>)
        /\ d # 0 => /\ l # <<>> /\ Len(l) = 1 /\ l[1] \in EffectSet
                    /\ l[1].by = d /\ l[1].on = o.eff[1].on /\ l[1].role = o.eff[1].role
    BY <2>1, <2>2, MovesBy
  <2>4. PICK u : u = Undoable(o, l)
    OBVIOUS
  <2>5. u \in Lists /\ Len(u) = 1 /\ u[1] \in EffectSet /\ u[1].on = o.eff[1].on /\ u[1].role = o.eff[1].role
        /\ u[1].by = d
    <3>1. CASE d # 0
      <4>1. u = l
        BY <2>3, <2>4, <3>1 DEF Undoable
      <4> QED  BY <2>3, <3>1, <4>1
    <3>2. CASE d = 0
      <4>1. PICK x : x = [o.eff[1] EXCEPT !.by = 0]
        OBVIOUS
      <4>2. o.eff[1] \in EffectSet /\ DOMAIN o.eff = {1}
        BY <2>2, SingleTouched DEF Single, Lists
      <4>3. x \in EffectSet /\ x.on = o.eff[1].on /\ x.role = o.eff[1].role /\ x.by = 0
        BY <4>1, <4>2 DEF EffectSet
      <4>4. u = [n \in DOMAIN o.eff |-> [o.eff[n] EXCEPT !.by = 0]]
        BY <2>2, <2>3, <2>4, <3>2 DEF Undoable
      <4>5. u = [n \in 1 .. 1 |-> x]
        BY <4>1, <4>2, <4>4
      <4>6. u \in Lists /\ Len(u) = 1 /\ u[1] = x
        BY <4>3, <4>5 DEF Lists
      <4> QED  BY <3>2, <4>3, <4>6
    <3> QED  BY <3>1, <3>2
  <2>6. inv = InverseOf(u) /\ inv \in Lists /\ Len(inv) = 1
    BY <2>4, <2>5, InverseFacts
  <2>7. inv[1].on = o.eff[1].on /\ inv[1].role = o.eff[1].role /\ inv[1].by = -d
    <3>1. 1 \in 1 .. Len(u) /\ Len(u) + 1 - 1 = 1
      BY <2>5
    <3>2. u \in Lists
      BY <2>5
    <3>3. \A n \in 1 .. Len(u) : /\ InverseOf(u)[n].on = u[Len(u) + 1 - n].on
                                 /\ InverseOf(u)[n].role = u[Len(u) + 1 - n].role
                                 /\ InverseOf(u)[n].by = -u[Len(u) + 1 - n].by
      BY <3>2, InverseFacts, Zenon
    <3>4. inv[1].on = u[1].on /\ inv[1].role = u[1].role /\ inv[1].by = -u[1].by
      BY <2>6, <3>1, <3>3
    <3> QED  BY <2>5, <3>4
  <2>8. Single(inv)
    BY <2>2, <2>6, <2>7 DEF Single
  <2>9. CASE d # 0
    <3>1. u = l
      BY <2>3, <2>4, <2>9 DEF Undoable
    <3> QED  BY <2>2, <2>6, <2>7, <2>8, <3>1 DEF TakesBack
  <2>10. CASE d = 0
    <3>1. InverseOf(l) = <<>>
      <4>1. l = <<>> /\ l \in Lists /\ Len(l) = 0
        BY <2>3, <2>10
      <4>2. InverseOf(l) \in Lists /\ Len(InverseOf(l)) = 0
        BY <4>1, InverseFacts
      <4> QED  BY <4>2 DEF Lists
    <3>2. inv[1].by = 0
      BY <2>7, <2>10, MinusZero
    <3>3. \A b \in Wallets : Applied(b, inv) = Applied(b, InverseOf(l)) /\ CanApply(b, InverseOf(l))
      BY <2>8, <3>1, <3>2, StillFacts, EmptyFacts
    <3> QED  BY <2>2, <2>6, <2>7, <2>8, <3>3 DEF TakesBack
  <2> QED  BY <2>9, <2>10
<1> QED  BY <1>1, <1>2

(* Where an activity stands in a timeline. *)
Position(L, i) == CHOOSE n \in DOMAIN L : L[n].id = i

(* The place k of an activity i that nothing has taken back. *)
Live(A, V, s, L, E, i, k) ==
    /\ k \in 1 .. Len(s) /\ s[k] = i /\ L[k] = Entry(i, A[i], V[i]) /\ Position(L, i) = k
    /\ i \in 1 .. Len(A)
    /\ Recorded(A[i]) \/ Observed(A[i])
    /\ \A j \in DOMAIN A : A[j].replaces # i
    /\ \/ Recorded(L[k]) /\ E[k] = L[k].eff
       \/ Observed(L[k]) /\ \E d \in Int : E[k] = Moving(L[k].eff[1], d)

(* An activity that nothing reverses has its place in the timeline, and was built. *)
LEMMA LivePosition ==
    ASSUME LedgerAssumption, NEW A, NEW V, NEW cur, NEW t, NEW s, Ledger(A, V, cur, t, s),
           NEW L, L = LineOf(A, V, s), NEW E, E = ReplayMoneyEffects(L),
           NEW i \in DOMAIN A, A[i].reverses = None, \A j \in DOMAIN A : A[j].reverses # i
    PROVE  \E k : Live(A, V, s, L, E, i, k)
<1>1. /\ History(A, t) /\ IsOrder(A, s) /\ Len(A) \in Nat /\ DOMAIN A = 1 .. Len(A)
      /\ IsLine(L) /\ Len(L) = Len(s) /\ Len(s) \in Nat /\ IsReplay(L, E, Balances(E))
  BY LedgerFacts
<1>2. \A j \in DOMAIN A : A[j].replaces # i
  <2>1. i # None
    BY <1>1 DEF None
  <2> QED  BY <1>1, <2>1 DEF History
<1>3. Economic(A, i)
  BY <1>2 DEF Economic
<1>4. PICK k \in 1 .. Len(s) : s[k] = i
  BY <1>1, <1>3 DEF IsOrder
<1>5. L[k] = Entry(i, A[i], V[i])
  BY <1>4 DEF LineOf
<1>6. L[k].id = i /\ k \in 1 .. Len(L) /\ k \in DOMAIN L
  BY <1>1, <1>4, <1>5, EntryFields DEF IsLine
<1>7. \A m \in DOMAIN L : L[m].id = i => m = k
  BY <1>1, <1>6 DEF IsLine
<1>8. Position(L, i) = k
  BY <1>6, <1>7 DEF Position
<1>9. Recorded(A[i]) \/ Observed(A[i])
  <2>1. ~Reversal(A, i)
    BY <1>1 DEF Reversal, None
  <2> QED  BY <1>1, <2>1 DEF History
<1>10. (Recorded(L[k]) <=> Recorded(A[i])) /\ (Observed(L[k]) <=> Observed(A[i]))
  BY <1>5, EntryFields
<1>11. CASE Recorded(L[k])
  <2>1. E[k] = L[k].eff
    BY <1>1, <1>6, <1>11 DEF IsReplay, Form, Closed
  <2> QED  BY <1>1, <1>2, <1>4, <1>5, <1>8, <1>9, <1>11, <2>1 DEF Live
<1>12. CASE Observed(L[k])
  <2>1. PICK d : d = L[k].seen[L[k].eff[1].on] - Balances(E)[k - 1][L[k].eff[1].on]
    OBVIOUS
  <2>2. E[k] = Moving(L[k].eff[1], d) /\ L[k].eff[1].on \in Endpoints
    <3>1. Hits(L[k], E[k], Balances(E)[k - 1], Balances(E)[k])
      BY <1>1, <1>6, <1>12, ObservedHits
    <3> QED  BY <2>1, <3>1 DEF Hits
  <2>3. d \in Int
    <3>1. Carries(L[k], E[k], Balances(E)[k - 1], Balances(E)[k])
      BY <1>1, <1>6, EntryTouches
    <3>2. Balances(E)[k - 1][L[k].eff[1].on] \in Int
      BY <2>2, <3>1 DEF Carries, Wallets
    <3>3. L[k].seen[L[k].eff[1].on] \in Int
      BY <1>1, <1>6, <1>12 DEF IsLine
    <3>4. \A x, y \in Int : x - y \in Int
      OBVIOUS
    <3> QED  BY <2>1, <3>2, <3>3, <3>4, Zenon
  <2> QED  BY <1>1, <1>2, <1>4, <1>5, <1>8, <1>9, <1>12, <2>2, <2>3 DEF Live
<1> QED  BY <1>9, <1>10, <1>11, <1>12

(* The part of UndoChange behind its guards, for the entry k of the timeline. *)
WriteUndo(i, at, line, eff, k, n) ==
    LET inverse == InverseOf(Undoable(line[k], eff[k]))
        before == IF n < Len(line) THEN BalanceAfter(eff, n) ELSE current
        a == Activity("reversal", at, now, NewId, inverse, i, None, FALSE)
        new == Placed(line, n, Entry(NewId, a, <<>>))
        neff == ReplayMoneyEffects(new)
        final == Final(neff)
        after == Applied(before, inverse)
    IN  /\ CanApply(before, inverse)
        /\ acts' = Append(acts, a)
        /\ IF n < Len(line)
           THEN /\ Replays(neff)
                /\ event' = Rebuilt(Append(event, Rows(final, inverse)), new, neff, n, TRUE)
                /\ current' = Refreshed(final, Touched(inverse))
           ELSE /\ event' = Append(event, Rows(after, inverse))
                /\ current' = Refreshed(after, Touched(inverse))

(* An undo is written as a new entry behind its original, at its own date. *)
LEMMA UndoOrder ==
    ASSUME LedgerAssumption, NEW s, InOrder(s), NEW i \in DOMAIN acts, NEW at \in 0 .. LastInstant, UndoChange(i, at)
    PROVE  LInv'
<1>1. PICK L, E, n : L = LineOf(acts, event, s) /\ E = ReplayMoneyEffects(L) /\ n = Behind(acts, s, at)
  OBVIOUS
<1>2. /\ History(acts, now) /\ IsOrder(acts, s) /\ Len(acts) \in Nat /\ DOMAIN acts = 1 .. Len(acts)
      /\ now \in Nat /\ Timeline = L /\ current \in Wallets /\ IsReplay(L, E, Balances(E))
      /\ Len(L) = Len(s) /\ Len(s) \in Nat /\ current = Balances(E)[Len(s)]
  BY <1>1, LedgerFacts DEF InOrder, Timeline
<1>3. at \in Nat /\ at <= now /\ acts[i].at <= at
  BY DEF LedgerAssumption, UndoChange
<1>4. acts[i].reverses = None /\ \A j \in DOMAIN acts : acts[j].reverses # i
  BY DEF UndoChange, HasReversal
<1>5. PICK k : Live(acts, event, s, L, E, i, k)
  BY <1>1, <1>4, LivePosition DEF InOrder
<1>6. /\ k \in 1 .. Len(s) /\ s[k] = i /\ L[k] = Entry(i, acts[i], event[i]) /\ Position(L, i) = k
      /\ i \in 1 .. Len(acts) /\ \A j \in DOMAIN acts : acts[j].replaces # i
      /\ \/ Recorded(L[k]) /\ E[k] = L[k].eff
         \/ Observed(L[k]) /\ \E d \in Int : E[k] = Moving(L[k].eff[1], d)
  BY <1>5 DEF Live
<1>7. Passed(L, at) = n
  BY <1>1, <1>2, <1>3, SlotIs
<1>8. /\ n \in 0 .. Len(s)
      /\ \A m \in 1 .. Len(s) : acts[s[m]].at <= at <=> m <= n
  BY <1>1, <1>2, <1>3, BehindFacts
<1>9. WriteUndo(i, at, L, E, k, n)
  <2>1. WriteUndo(i, at, Timeline, ReplayMoneyEffects(Timeline), Position(Timeline, i), Passed(Timeline, at))
    BY DEF UndoChange, WriteUndo, Position, Passed
  <2> QED  BY <1>1, <1>2, <1>6, <1>7, <2>1
<1>10. PICK inv, before, a, new, F, after, final :
         /\ inv = InverseOf(Undoable(L[k], E[k]))
         /\ before = IF n < Len(L) THEN BalanceAfter(E, n) ELSE current
         /\ a = Activity("reversal", at, now, Len(acts) + 1, inv, i, None, FALSE)
         /\ new = Placed(L, n, Entry(Len(acts) + 1, a, <<>>))
         /\ F = ReplayMoneyEffects(new) /\ final = Final(F) /\ after = Applied(before, inv)
         /\ CanApply(before, inv) /\ acts' = Append(acts, a)
         /\ IF n < Len(L)
            THEN /\ Replays(F)
                 /\ event' = Rebuilt(Append(event, Rows(final, inv)), new, F, n, TRUE)
                 /\ current' = Refreshed(final, Touched(inv))
            ELSE /\ event' = Append(event, Rows(after, inv))
                 /\ current' = Refreshed(after, Touched(inv))
  BY <1>9 DEF WriteUndo, NewId
<1>11. TakesBack(L[k], E[k], inv)
  BY <1>6, <1>10, UndoneList
<1>12. /\ a.eff = inv /\ a.at = at /\ a.kind = "reversal" /\ a.reverses = i /\ a.made = now
       /\ a.order = Len(acts) + 1 /\ a.replaces = None /\ a.fix = FALSE
  BY <1>10 DEF Activity
<1>13. L[k].eff = acts[i].eff /\ L[k].id = i /\ (Recorded(L[k]) <=> Recorded(acts[i])) /\ (Observed(L[k]) <=> Observed(acts[i]))
  BY <1>6, EntryFields
<1>14. Undoes(a, acts[i])
  <2>1. a.reverses # None /\ a.kind # "value_update"
    BY <1>6, <1>12 DEF None
  <2> QED  BY <1>6, <1>11, <1>12, <1>13, <2>1 DEF Undoes, TakesBack
<1>15. New(acts, a, now)
  <2>1. a \in Acts
    <3>1. inv \in Lists
      BY <1>11 DEF TakesBack
    <3>2. "reversal" \in Kinds /\ Len(acts) + 1 \in Nat /\ i \in Nat /\ None \in Nat
      BY <1>2, <1>6 DEF Kinds, None
    <3> QED  BY <1>2, <1>3, <1>10, <3>1, <3>2 DEF Acts, Activity
  <2> QED  BY <1>3, <1>6, <1>12, <1>14, <2>1 DEF New
<1>16. ~Observed(a)
  BY <1>14 DEF Undoes, Observed
<1>17. n = Behind(acts, s, a.at)
  BY <1>1, <1>12
<1>18. now' = now
  BY DEF UndoChange
<1>19. CASE n < Len(L)
  <2>1. PICK row, v, yes : row = Rows(final, inv) /\ v = <<>> /\ yes \in BOOLEAN /\ yes = TRUE
    <3>1. PICK yes \in BOOLEAN : yes = TRUE
      OBVIOUS
    <3> QED  BY <3>1
  <2>2. PICK x : x = Entry(Len(acts) + 1, a, v)
    OBVIOUS
  <2>3. new = Placed(L, n, x) /\ Replays(F) /\ F = ReplayMoneyEffects(new)
    BY <1>10, <1>19, <2>1, <2>2
  <2>4. Joined(L, E, new, F, n, x)
    BY <1>1, <1>15, <1>16, <1>17, <2>2, <2>3, PlacedReplay DEF InOrder
  <2>5. final \in Wallets
    BY <1>10, <2>4 DEF Joined
  <2>6. row \in RowSets /\ DOMAIN row = Touched(a.eff)
    BY <1>12, <2>1, <2>5, RowsFacts
  <2>7. Inserted(acts, event, current, now, s, a, row, n, new, F, yes)
    <3>1. new = Placed(LineOf(acts, event, s), n, Entry(Len(acts) + 1, a, v))
      BY <1>1, <2>2, <2>3
    <3>2. Ledger(acts, event, current, now, s)
      BY DEF InOrder
    <3>3. yes \in BOOLEAN
      BY <2>1
    <3> QED  BY <1>15, <1>16, <1>17, <2>3, <2>6, <3>1, <3>2, <3>3, InsertLedger
  <2>8. /\ Ledger(Append(acts, a), Rebuilt(Append(event, row), new, F, n, TRUE), Final(F), now,
                  Placed(s, n, Len(acts) + 1))
        /\ \A e \in Endpoints \ Touched(a.eff) : Final(F)[e] = current[e]
    BY <2>1, <2>7, Zenon DEF Inserted
  <2>9. current' = Final(F)
    <3>1. current' = Refreshed(final, Touched(inv)) /\ final = Final(F)
      BY <1>10, <1>19
    <3>2. current \in Wallets /\ \A e \in Endpoints \ Touched(inv) : final[e] = current[e]
      BY <1>2, <1>12, <2>8, <3>1
    <3>3. Refreshed(final, Touched(inv)) = final
      BY <2>5, <3>2, RefreshedAll
    <3> QED  BY <3>1, <3>3
  <2>10. event' = Rebuilt(Append(event, row), new, F, n, TRUE) /\ acts' = Append(acts, a)
    BY <1>10, <1>19, <2>1
  <2>11. Ledger(acts', event', current', now', Placed(s, n, Len(acts) + 1))
    BY <1>18, <2>8, <2>9, <2>10
  <2> QED  BY <2>11 DEF LInv, InOrder
<1>20. CASE ~(n < Len(L))
  <2>1. n = Len(s) /\ before = current
    BY <1>2, <1>8, <1>10, <1>20
  <2>2. PICK row, x, M, G : /\ row = Rows(after, inv) /\ x = Entry(Len(acts) + 1, a, row)
                            /\ M = Placed(L, n, x) /\ G = ReplayMoneyEffects(M)
    OBVIOUS
  <2>3. Joined(L, E, M, G, n, x)
    BY <1>1, <1>15, <1>16, <1>17, <2>2, PlacedReplay DEF InOrder
  <2>4. /\ IsReplay(M, G, Balances(G)) /\ n + 1 \in 1 .. Len(M) /\ M[n + 1] = x
        /\ \A m \in 1 .. n : M[m] = L[m] /\ G[m] = E[m]
    BY <2>3 DEF Joined
  <2>5. k \in 1 .. n /\ k \in 1 .. (n + 1) - 1
    BY <1>2, <1>6, <2>1
  <2>6. M[k] = L[k] /\ G[k] = E[k]
    BY <2>4, <2>5
  <2>7. M[n + 1].reverses = M[k].id
    BY <1>12, <1>13, <2>2, <2>4, <2>6, EntryFields
  <2>8. Undoes(M[n + 1], M[k])
    <3>1. Undoes(a, L[k])
      BY <1>6, <1>14, EntryFields
    <3> QED  BY <2>2, <2>4, <2>6, <3>1, EntryFields
  <2>9. G[n + 1] = InverseOf(E[k])
    BY <2>4, <2>5, <2>6, <2>7, <2>8, UndoCancels
  <2>10. CanApply(current, G[n + 1]) /\ after = Applied(current, G[n + 1])
    BY <1>2, <1>10, <1>11, <2>1, <2>9 DEF TakesBack
  <2>11. after \in Wallets /\ \A e \in Endpoints \ Touched(inv) : after[e] = current[e]
    BY <1>2, <1>10, <1>11, <2>1, AppliedFacts DEF TakesBack
  <2>12. Ledger(Append(acts, a), Append(event, row), after, now, Placed(s, Len(s), Len(acts) + 1))
    <3>1. row = Rows(after, a.eff)
      BY <1>12, <2>2
    <3>2. M = Placed(LineOf(acts, event, s), Len(s), Entry(Len(acts) + 1, a, row))
      BY <1>1, <2>1, <2>2
    <3>3. G = ReplayMoneyEffects(M)
      BY <2>2
    <3>4. CanApply(current, G[Len(s) + 1]) /\ after = Applied(current, G[Len(s) + 1])
      BY <2>1, <2>10
    <3>5. Behind(acts, s, a.at) = Len(s)
      BY <1>17, <2>1
    <3>6. Ledger(acts, event, current, now, s) /\ New(acts, a, now)
      BY <1>15 DEF InOrder
    <3> QED  BY <2>11, <3>1, <3>2, <3>3, <3>4, <3>5, <3>6, AppendLedger
  <2>13. current' = after
    BY <1>2, <1>10, <1>20, <2>11, RefreshedAll
  <2>14. event' = Append(event, row) /\ acts' = Append(acts, a)
    BY <1>10, <1>20, <2>2
  <2>15. Ledger(acts', event', current', now', Placed(s, Len(s), Len(acts) + 1))
    BY <1>18, <2>12, <2>13, <2>14
  <2> QED  BY <2>15 DEF LInv, InOrder
<1> QED  BY <1>19, <1>20
-----------------------------------------------------------------------------
(* Fix *)

(* A sequence with two more elements. *)
LEMMA AppendTwo ==
    ASSUME NEW S, NEW A \in Seq(S), NEW x \in S, NEW y \in S
    PROVE  /\ A \o <<x, y>> \in Seq(S) /\ Len(A \o <<x, y>>) = Len(A) + 2 /\ Len(A) \in Nat
           /\ DOMAIN (A \o <<x, y>>) = 1 .. Len(A) + 2
           /\ \A i \in 1 .. Len(A) : (A \o <<x, y>>)[i] = A[i]
           /\ (A \o <<x, y>>)[Len(A) + 1] = x /\ (A \o <<x, y>>)[Len(A) + 2] = y
           /\ \A i \in 1 .. Len(A) + 2 : i \in 1 .. Len(A) \/ i = Len(A) + 1 \/ i = Len(A) + 2
OBVIOUS

(* The two activities of a fix of i: the evidence r and the replacement a. *)
Fixes(A, t, i, r, a) ==
    /\ i \in 1 .. Len(A) /\ A[i].reverses = None
    /\ \A j \in DOMAIN A : A[j].reverses # i /\ A[j].replaces # i
    /\ r \in Acts /\ r.at = A[i].at /\ r.made = t /\ r.order = Len(A) + 1
    /\ r.reverses = i /\ r.replaces = None /\ r.fix = TRUE
    /\ a \in Acts /\ a.at = A[i].at /\ a.made = A[i].made /\ a.order = A[i].order
    /\ a.reverses = None /\ a.replaces = i /\ a.fix = TRUE
    /\ Recorded(a) \/ Observed(a)

(* The history with both. *)
Longer(A, r, a, B) ==
    /\ B \in Seq(Acts) /\ Len(A) \in Nat /\ DOMAIN A = 1 .. Len(A) /\ DOMAIN B = 1 .. Len(A) + 2 /\ Len(B) = Len(A) + 2
    /\ \A j \in 1 .. Len(A) : B[j] = A[j] /\ j \in 1 .. Len(A) + 2
    /\ B[Len(A) + 1] = r /\ B[Len(A) + 2] = a
    /\ \A j \in 1 .. Len(A) + 2 : j \in 1 .. Len(A) \/ j = Len(A) + 1 \/ j = Len(A) + 2

(* Two activities appended to a history. *)
LEMMA LongerHistory ==
    ASSUME NEW A, NEW t, History(A, t), NEW r \in Acts, NEW a \in Acts, NEW B, B = A \o <<r, a>>
    PROVE  Longer(A, r, a, B)
<1>1. A \in Seq(Acts)
  BY DEF History
<1>2. /\ B \in Seq(Acts) /\ Len(B) = Len(A) + 2 /\ Len(A) \in Nat /\ DOMAIN B = 1 .. Len(A) + 2
      /\ \A i \in 1 .. Len(A) : B[i] = A[i]
      /\ B[Len(A) + 1] = r /\ B[Len(A) + 2] = a
      /\ \A i \in 1 .. Len(A) + 2 : i \in 1 .. Len(A) \/ i = Len(A) + 1 \/ i = Len(A) + 2
  BY <1>1, AppendTwo
<1>3. DOMAIN A = 1 .. Len(A)
  BY <1>1
<1> QED  BY <1>2, <1>3 DEF Longer

(* A fix keeps the history well formed. *)
LEMMA FixHistory ==
    ASSUME NEW A, NEW t, History(A, t), NEW i, NEW r, NEW a, Fixes(A, t, i, r, a), NEW B, Longer(A, r, a, B)
    PROVE  History(B, t)
<1>1. PICK N : N = Len(A)
  OBVIOUS
<1>2. /\ B \in Seq(Acts) /\ N \in Nat /\ DOMAIN A = 1 .. N /\ DOMAIN B = 1 .. N + 2
      /\ \A j \in 1 .. N : B[j] = A[j] /\ j \in 1 .. N + 2
      /\ B[N + 1] = r /\ B[N + 2] = a /\ N + 1 \in 1 .. N + 2
      /\ \A j \in 1 .. N + 2 : j \in 1 .. N \/ j = N + 1 \/ j = N + 2
      /\ t \in Nat
  BY <1>1 DEF Longer, History
<1>3. i \in 1 .. N /\ A[i].reverses = None /\ \A j \in 1 .. N : A[j].reverses # i /\ A[j].replaces # i
  BY <1>1, <1>2 DEF Fixes
<1>4. Stamped(A[i]) /\ A[i].at <= t /\ A[i].made <= t /\ A[i].order <= i
  BY <1>2, <1>3, HistoryFacts DEF History, AllStamped
<1>5. \A j \in 1 .. N + 2 : B[j].at <= t /\ B[j].made <= t /\ B[j].order <= j
  <2> TAKE j \in 1 .. N + 2
  <2>1. CASE j \in 1 .. N
    BY <1>2, <2>1 DEF History
  <2>2. CASE j = N + 1
    BY <1>1, <1>2, <1>4, <2>2 DEF Fixes
  <2>3. CASE j = N + 2
    <3>1. B[j].at = A[i].at /\ B[j].made = A[i].made /\ B[j].order = A[i].order
      BY <1>2, <2>3 DEF Fixes
    <3>2. A[i].order <= N + 2
      BY <1>2, <1>3, <1>4 DEF Stamped
    <3> QED  BY <1>4, <2>3, <3>1, <3>2
  <2> QED  BY <1>2, <2>1, <2>2, <2>3
<1>6. \A j \in 1 .. N + 2 : B[j].replaces # None =>
          B[j].replaces \in 1 .. j - 1 /\ \E k \in 1 .. N + 2 : B[k].reverses = B[j].replaces
  <2> TAKE j \in 1 .. N + 2
  <2>1. CASE j \in 1 .. N
    <3>1. B[j] = A[j] /\ j \in DOMAIN A
      BY <1>2, <2>1
    <3>2. A[j].replaces # None => A[j].replaces \in 1 .. j - 1 /\ \E k \in 1 .. N : A[k].reverses = A[j].replaces
      BY <1>2, <3>1 DEF History
    <3> QED  BY <1>2, <3>1, <3>2
  <2>2. CASE j = N + 1
    BY <1>2, <2>2 DEF Fixes
  <2>3. CASE j = N + 2
    <3>1. B[j].replaces = i /\ B[N + 1].reverses = i
      BY <1>2, <2>3 DEF Fixes
    <3>2. i \in 1 .. j - 1
      BY <1>2, <1>3, <2>3
    <3> QED  BY <1>2, <3>1, <3>2
  <2> QED  BY <1>2, <2>1, <2>2, <2>3
<1>7. \A j \in 1 .. N + 2 : Recorded(B[j]) \/ Observed(B[j]) \/ Reversal(B, j)
  <2> TAKE j \in 1 .. N + 2
  <2>1. CASE j \in 1 .. N
    <3>1. B[j] = A[j] /\ j \in DOMAIN A
      BY <1>2, <2>1
    <3>2. ASSUME Reversal(A, j)
          PROVE  Reversal(B, j)
      <4>1. PICK q : q = A[j].reverses
        OBVIOUS
      <4>2. q \in 1 .. j - 1 /\ q \in 1 .. N /\ q # i
        BY <1>2, <1>3, <2>1, <3>2, <4>1 DEF Reversal
      <4>3. B[q] = A[q]
        BY <1>2, <4>2
      <4>4. (\A m \in DOMAIN A : A[m].replaces # q) => \A m \in DOMAIN B : B[m].replaces # q
        <5>1. r.replaces # q /\ a.replaces # q
          BY <4>2 DEF Fixes, None
        <5> QED  BY <1>2, <5>1
      <4> QED  BY <3>1, <3>2, <4>1, <4>2, <4>3, <4>4 DEF Reversal
    <3> QED  BY <3>1, <3>2 DEF History
  <2>2. CASE j = N + 1
    <3>1. B[j].reverses = i /\ B[j].fix = TRUE
      BY <1>2, <2>2 DEF Fixes
    <3>2. i \in 1 .. j - 1
      BY <1>2, <1>3, <2>2
    <3> QED  BY <3>1, <3>2 DEF Reversal
  <2>3. CASE j = N + 2
    BY <1>2, <2>3 DEF Fixes
  <2> QED  BY <1>2, <2>1, <2>2, <2>3
<1> QED  BY <1>2, <1>5, <1>6, <1>7 DEF History

(* The order u: the identity id instead of the k-th one of s. *)
Takes(s, k, id, u) == u = [s EXCEPT ![k] = id]
Moved(A, B, s, i, k, u) ==
    /\ IsOrder(B, u) /\ Len(u) = Len(s) /\ u[k] = Len(A) + 2
    /\ \A m \in 1 .. Len(s) : m # k => u[m] = s[m] /\ s[m] # i

(* The replacement stands where the original stood. *)
LEMMA FixOrder ==
    ASSUME NEW A, NEW t, History(A, t), NEW i, NEW r, NEW a, Fixes(A, t, i, r, a), NEW B, Longer(A, r, a, B),
           NEW s, IsOrder(A, s), NEW k \in 1 .. Len(s), s[k] = i,
           NEW u, Takes(s, k, Len(A) + 2, u)
    PROVE  Moved(A, B, s, i, k, u)
<1>1. PICK N : N = Len(A)
  OBVIOUS
<1>2. /\ N \in Nat /\ DOMAIN A = 1 .. N /\ DOMAIN B = 1 .. N + 2
      /\ \A j \in 1 .. N : B[j] = A[j] /\ j \in 1 .. N + 2
      /\ B[N + 1] = r /\ B[N + 2] = a /\ N + 2 \in 1 .. N + 2
      /\ \A j \in 1 .. N + 2 : j \in 1 .. N \/ j = N + 1 \/ j = N + 2
  BY <1>1 DEF Longer
<1>3. i \in 1 .. N /\ \A j \in 1 .. N : A[j].reverses # i /\ A[j].replaces # i
  BY <1>1, <1>2 DEF Fixes
<1>4. Len(s) \in Nat /\ DOMAIN s = 1 .. Len(s)
  BY DEF IsOrder
<1>5. /\ DOMAIN u = 1 .. Len(s) /\ u[k] = N + 2
      /\ \A m \in 1 .. Len(s) : m # k => u[m] = s[m]
  BY <1>1, <1>4 DEF Takes
<1>6. Len(u) = Len(s)
  BY <1>4, <1>5
<1>7. \A m \in 1 .. Len(s) : m # k => s[m] # i
  BY HistoryFacts, OrderFacts
<1>8. \A j \in 1 .. N : Economic(B, j) <=> Economic(A, j) /\ j # i
  <2> TAKE j \in 1 .. N
  <2>1. r.replaces # j /\ a.replaces = i /\ B[j] = A[j]
    BY <1>2 DEF Fixes, None
  <2>2. (\A m \in DOMAIN B : B[m].replaces # j) <=> (\A m \in DOMAIN A : A[m].replaces # j) /\ j # i
    BY <1>2, <2>1
  <2> QED  BY <2>1, <2>2 DEF Economic
<1>9. ~Economic(B, N + 1)
  <2>1. B[N + 1].fix /\ B[N + 1].reverses # None
    BY <1>2, <1>3 DEF Fixes, None
  <2> QED  BY <2>1 DEF Economic
<1>10. Economic(B, N + 2)
  <2>1. B[N + 2].reverses = None
    BY <1>2 DEF Fixes
  <2>2. \A j \in 1 .. N : A[j].replaces # N + 2
    <3> TAKE j \in 1 .. N
    <3>1. A[j].replaces = 0 \/ A[j].replaces \in 1 .. j - 1
      BY <1>2 DEF History, None
    <3> QED  BY <1>2, <3>1
  <2>3. r.replaces # N + 2 /\ a.replaces # N + 2
    BY <1>2, <1>3 DEF Fixes, None
  <2> QED  BY <1>2, <2>1, <2>2, <2>3 DEF Economic
<1>11. \A m \in 1 .. Len(s) : s[m] \in 1 .. N /\ Economic(A, s[m])
  BY <1>2 DEF IsOrder
<1>12. \A m \in 1 .. Len(s) : u[m] \in DOMAIN B /\ Economic(B, u[m])
  <2> TAKE m \in 1 .. Len(s)
  <2>1. CASE m = k
    BY <1>2, <1>5, <1>10, <2>1
  <2>2. CASE m # k
    BY <1>2, <1>5, <1>7, <1>8, <1>11, <2>2
  <2> QED  BY <2>1, <2>2
<1>13. ASSUME NEW j \in DOMAIN B, Economic(B, j)
       PROVE  \E m \in 1 .. Len(s) : u[m] = j
  <2>1. CASE j \in 1 .. N
    <3>1. Economic(A, j) /\ j # i
      BY <1>8, <1>13, <2>1
    <3>2. PICK m \in 1 .. Len(s) : s[m] = j
      BY <1>2, <2>1, <3>1 DEF IsOrder
    <3>3. m # k
      BY <3>1, <3>2
    <3> QED  BY <1>5, <3>2, <3>3
  <2>2. CASE j = N + 2
    BY <1>5, <2>2
  <2> QED  BY <1>2, <1>9, <1>13, <2>1, <2>2
<1>14. \A m \in 1 .. Len(s) : B[u[m]].at = A[s[m]].at /\ B[u[m]].made = A[s[m]].made /\ B[u[m]].order = A[s[m]].order
  <2> TAKE m \in 1 .. Len(s)
  <2>1. CASE m = k
    BY <1>2, <1>5, <2>1 DEF Fixes
  <2>2. CASE m # k
    BY <1>2, <1>5, <1>11, <2>2
  <2> QED  BY <2>1, <2>2
<1>15. ASSUME NEW m \in 1 .. Len(s), NEW n \in 1 .. Len(s), m < n
       PROVE  Precedes(B[u[m]], B[u[n]])
  <2>1. Precedes(A[s[m]], A[s[n]])
    BY <1>15 DEF IsOrder
  <2> QED  BY <1>14, <2>1 DEF Precedes
<1>16. IsOrder(B, u)
  BY <1>4, <1>5, <1>6, <1>12, <1>13, <1>15 DEF IsOrder
<1> QED  BY <1>1, <1>5, <1>6, <1>7, <1>16 DEF Moved

(* The timeline with the replacement, on hypothetical rows. *)
Swapped(s, k, x, L, M) ==
    /\ IsLine(M) /\ Len(M) = Len(s) /\ Replaces(L, M, k) /\ M[k] = x
    /\ \A m \in 1 .. Len(s) : m # k => M[m] = L[m]

(* The timeline with the replacement in the original's place is one. *)
LEMMA FixLine ==
    ASSUME NEW A, NEW t, History(A, t), NEW i, NEW r, NEW a, Fixes(A, t, i, r, a), NEW B, Longer(A, r, a, B),
           NEW s, IsOrder(A, s), NEW k \in 1 .. Len(s), s[k] = i,
           NEW V \in Seq(RowSets), Len(V) = Len(A), Targets(A, V),
           NEW v, Observed(a) => v[a.eff[1].on] \in Int,
           NEW L, L = LineOf(A, V, s), NEW x, x = Entry(Len(A) + 2, a, v),
           NEW M, M = [L EXCEPT ![k] = x]
    PROVE  Swapped(s, k, x, L, M)
<1>1. PICK N, S, u, W : /\ N = Len(A) /\ S = RowSets \cup {v} /\ Takes(s, k, Len(A) + 2, u)
                        /\ W = V \o <<v, v>>
  BY DEF Takes
<1>0. Moved(A, B, s, i, k, u)
  <2>1. Takes(s, k, Len(A) + 2, u)
    BY <1>1
  <2> QED  BY <2>1, FixOrder
<1>2. /\ IsOrder(B, u) /\ Len(u) = Len(s) /\ u[k] = N + 2
      /\ \A m \in 1 .. Len(s) : m # k => u[m] = s[m] /\ s[m] # i
  BY <1>0, <1>1 DEF Moved
<1>3. History(B, t)
  BY FixHistory
<1>4. /\ N \in Nat /\ DOMAIN A = 1 .. N /\ DOMAIN B = 1 .. N + 2
      /\ \A j \in 1 .. N : B[j] = A[j]
      /\ B[N + 1] = r /\ B[N + 2] = a
      /\ \A j \in 1 .. N + 2 : j \in 1 .. N \/ j = N + 1 \/ j = N + 2
  BY <1>1 DEF Longer
<1>5. V \in Seq(S) /\ v \in S
  BY <1>1
<1>6. W[N + 2] = v /\ \A j \in 1 .. N : W[j] = V[j]
  <2>1. /\ (V \o <<v, v>>)[Len(V) + 2] = v
        /\ \A j \in 1 .. Len(V) : (V \o <<v, v>>)[j] = V[j]
    BY <1>5, AppendTwo
  <2> QED  BY <1>1, <2>1
<1>7. Targets(B, W)
  <2> SUFFICES ASSUME NEW j \in DOMAIN B, Observed(B[j])
               PROVE  W[j][B[j].eff[1].on] \in Int
    BY DEF Targets
  <2>1. CASE j \in 1 .. N
    <3>1. B[j] = A[j] /\ W[j] = V[j] /\ j \in DOMAIN A
      BY <1>4, <1>6, <2>1
    <3> QED  BY <3>1 DEF Targets
  <2>2. CASE j = N + 1
    <3>1. r.reverses = i /\ i \in 1 .. N
      BY <1>1 DEF Fixes
    <3>2. ~Observed(r)
      BY <1>4, <3>1 DEF Observed, None
    <3> QED  BY <1>4, <2>2, <3>2
  <2>3. CASE j = N + 2
    <3>1. B[j] = a /\ W[j] = v
      BY <1>4, <1>6, <2>3
    <3> QED  BY <3>1
  <2> QED  BY <1>4, <2>1, <2>2, <2>3
<1>8. PICK K : K = LineOf(B, W, u)
  OBVIOUS
<1>9. IsLine(K) /\ Len(K) = Len(s) /\ \A m \in 1 .. Len(s) : K[m] = Entry(u[m], B[u[m]], W[u[m]])
  BY <1>2, <1>3, <1>7, <1>8, HistoryLine
<1>10. /\ Len(s) \in Nat /\ L = [m \in 1 .. Len(s) |-> Entry(s[m], A[s[m]], V[s[m]])]
       /\ \A m \in 1 .. Len(s) : s[m] \in 1 .. N
  BY <1>4 DEF LineOf, IsOrder
<1>11. /\ Len(L) = Len(s) /\ DOMAIN L = 1 .. Len(s) /\ DOMAIN M = 1 .. Len(s) /\ M[k] = x
       /\ \A m \in 1 .. Len(s) : m # k => M[m] = L[m]
       /\ M = [m \in 1 .. Len(s) |-> M[m]]
  <2>1. DOMAIN L = 1 .. Len(s)
    BY <1>10
  <2>2. Len(L) = Len(s)
    BY <1>10, <2>1
  <2>3. DOMAIN M = 1 .. Len(s) /\ M[k] = x /\ \A m \in 1 .. Len(s) : m # k => M[m] = L[m]
    BY <2>1
  <2>4. M = [m \in 1 .. Len(s) |-> M[m]]
    BY <2>1
  <2> QED  BY <2>1, <2>2, <2>3, <2>4
<1>12. \A m \in 1 .. Len(s) : K[m] = M[m]
  <2> TAKE m \in 1 .. Len(s)
  <2>1. CASE m = k
    <3>1. K[k] = Entry(u[k], B[u[k]], W[u[k]])
      BY <1>9
    <3>2. B[u[k]] = a /\ W[u[k]] = v /\ u[k] = Len(A) + 2
      BY <1>1, <1>2, <1>4, <1>6
    <3> QED  BY <1>11, <2>1, <3>1, <3>2
  <2>2. CASE m # k
    <3>1. u[m] = s[m] /\ s[m] \in 1 .. N /\ L[m] = Entry(s[m], A[s[m]], V[s[m]])
      BY <1>2, <1>10, <2>2
    <3> QED  BY <1>4, <1>6, <1>9, <1>11, <2>2, <3>1
  <2> QED  BY <2>1, <2>2
<1>13. K = [m \in 1 .. Len(s) |-> K[m]]
  BY <1>2, <1>8 DEF LineOf
<1>14. K = M
  BY <1>11, <1>12, <1>13
<1>15. Replaces(L, M, k)
  BY <1>9, <1>11, <1>14 DEF Replaces, Alike
<1> QED  BY <1>9, <1>11, <1>14, <1>15 DEF Swapped

(* A fix replaces an entry, and everything behind it is replayed: the ledger is in order, and
   only the balances of the original and of the replacement change. *)
Repaired(A, V, cur, t, i, s, r, a, R, k, M, F, B, u) ==
    /\ Ledger(B, Rebuilt(R, M, F, k - 1, FALSE), Final(F), t, u)
    /\ \A e \in Endpoints \ (Touched(A[i].eff) \cup Touched(a.eff)) : Final(F)[e] = cur[e]

(* The repaired ledger. *)
LEMMA FixLedger ==
    ASSUME LedgerAssumption, NEW A, NEW V, NEW cur, NEW t, NEW s, Ledger(A, V, cur, t, s),
           NEW i, NEW r, NEW a, Fixes(A, t, i, r, a), NEW B, Longer(A, r, a, B),
           NEW k \in 1 .. Len(s), s[k] = i, NEW u, Takes(s, k, Len(A) + 2, u),
           NEW v, Observed(a) => v[a.eff[1].on] \in Int,
           NEW L, L = LineOf(A, V, s), NEW x, x = Entry(Len(A) + 2, a, v),
           NEW M, Swapped(s, k, x, L, M), NEW F, F = ReplayMoneyEffects(M), Replays(F),
           NEW R, R \in Seq(RowSets), Len(R) = Len(A) + 2, \A j \in 1 .. Len(A) : R[j] = V[j],
           DOMAIN R[Len(A) + 1] = Touched(r.eff), DOMAIN R[Len(A) + 2] = Touched(a.eff),
           Observed(a) => R[Len(A) + 2][a.eff[1].on] = v[a.eff[1].on]
    PROVE  Repaired(A, V, cur, t, i, s, r, a, R, k, M, F, B, u)
<1>1. PICK N, E, from, no : /\ N = Len(A) /\ E = ReplayMoneyEffects(L) /\ from = k - 1
                            /\ no \in BOOLEAN /\ no = FALSE
  <2>1. PICK no \in BOOLEAN : no = FALSE
    OBVIOUS
  <2> QED  BY <2>1
<1>2. /\ Sound(A, V, t, s) /\ History(A, t) /\ IsOrder(A, s) /\ N \in Nat /\ DOMAIN A = 1 .. N
      /\ Len(L) = Len(s) /\ Len(s) \in Nat /\ IsReplay(L, E, Balances(E)) /\ cur = Balances(E)[Len(s)]
  BY <1>1, LedgerFacts
<1>3. /\ IsOrder(B, u) /\ Len(u) = Len(s) /\ u[k] = N + 2
      /\ \A m \in 1 .. Len(s) : m # k => u[m] = s[m]
  <2>1. History(A, t) /\ IsOrder(A, s)
    BY <1>2
  <2>2. Moved(A, B, s, i, k, u)
    BY <2>1, FixOrder
  <2> QED  BY <1>1, <2>2 DEF Moved
<1>4. History(B, t)
  BY <1>2, FixHistory
<1>5. /\ DOMAIN B = 1 .. N + 2 /\ Len(B) = N + 2
      /\ \A j \in 1 .. N : B[j] = A[j]
      /\ B[N + 1] = r /\ B[N + 2] = a
      /\ \A j \in 1 .. N + 2 : j \in 1 .. N \/ j = N + 1 \/ j = N + 2
  BY <1>1 DEF Longer
<1>6. Sound(B, R, t, u)
  <2>1. \A j \in 1 .. N : DOMAIN V[j] = Touched(A[j].eff)
    BY <1>2 DEF Sound
  <2>2. \A j \in 1 .. N + 2 : DOMAIN R[j] = Touched(B[j].eff)
    <3> TAKE j \in 1 .. N + 2
    <3>1. CASE j \in 1 .. N
      BY <1>1, <1>5, <2>1, <3>1
    <3>2. CASE j = N + 1
      BY <1>1, <1>5, <3>2
    <3>3. CASE j = N + 2
      BY <1>1, <1>5, <3>3
    <3> QED  BY <1>5, <3>1, <3>2, <3>3
  <2> QED  BY <1>1, <1>3, <1>4, <1>5, <2>2 DEF Sound
<1>7. /\ IsLine(M) /\ Len(M) = Len(s) /\ Replaces(L, M, k) /\ M[k] = x
      /\ \A m \in 1 .. Len(s) : m # k => M[m] = L[m]
  BY DEF Swapped
<1>8. IsReplay(M, F, Balances(F)) /\ Len(F) = Len(s)
  BY <1>7, ReplayFacts
<1>9. from \in 0 .. Len(L) /\ from <= Len(M) /\ from \in 0 .. Len(u) /\ \A m \in 1 .. from : m # k /\ m \in 1 .. Len(s)
  BY <1>1, <1>2, <1>3, <1>7
<1>10. /\ \A m \in 0 .. from : Balances(F)[m] = Balances(E)[m]
       /\ \A m \in 1 .. from : F[m] = E[m]
  <2>1. \A m \in 1 .. from : Alike(L[m], M[m])
    BY <1>7, <1>9 DEF Alike
  <2>2. IsReplay(L, E, Balances(E)) /\ IsReplay(M, F, Balances(F))
    BY <1>2, <1>8
  <2>3. from \in 0 .. Len(L) /\ from <= Len(M)
    BY <1>9
  <2>4. Agree(E, Balances(E), F, Balances(F), from)
    BY <2>1, <2>2, <2>3, SamePrefix
  <2> QED  BY <2>4 DEF Agree
<1>11. \A m \in 1 .. Len(s) : L[m] = Entry(s[m], A[s[m]], V[s[m]]) /\ s[m] \in 1 .. N
  BY <1>2 DEF LineOf, IsOrder
<1>12. ASSUME NEW m \in 1 .. Len(u)
       PROVE  M[m] = Entry(u[m], B[u[m]], M[m].seen)
  <2>1. CASE m = k
    BY <1>1, <1>3, <1>5, <1>7, <2>1, EntryFields
  <2>2. CASE m # k
    <3>1. M[m] = L[m] /\ u[m] = s[m] /\ s[m] \in 1 .. N /\ L[m] = Entry(s[m], A[s[m]], V[s[m]])
      BY <1>3, <1>7, <1>11, <2>2
    <3>2. L[m].seen = V[s[m]]
      BY <3>1, EntryFields
    <3> QED  BY <1>5, <3>1, <3>2
  <2> QED  BY <2>1, <2>2
<1>13. \A m \in 1 .. Len(u) : Alike(M[m], Entry(u[m], B[u[m]], M[m].seen))
  BY <1>12 DEF Alike
<1>14. ASSUME NEW m \in 1 .. Len(u), m # k
       PROVE  R[u[m]] = M[m].seen /\ B[u[m]].eff = L[m].eff /\ M[m].seen = L[m].seen
  <2>1. M[m] = L[m] /\ u[m] = s[m] /\ s[m] \in 1 .. N /\ L[m] = Entry(s[m], A[s[m]], V[s[m]])
    BY <1>3, <1>7, <1>11, <1>14
  <2>2. L[m].seen = V[s[m]] /\ L[m].eff = A[s[m]].eff
    BY <2>1, EntryFields
  <2> QED  BY <1>1, <1>5, <2>1, <2>2
<1>15. ASSUME NEW m \in 1 .. Len(u), Observed(M[m])
       PROVE  R[u[m]][M[m].eff[1].on] = M[m].seen[M[m].eff[1].on]
  <2>1. CASE m = k
    <3>1. M[m].eff = a.eff /\ M[m].seen = v /\ Observed(a)
      BY <1>7, <1>15, <2>1, EntryFields
    <3> QED  BY <1>1, <1>3, <2>1, <3>1
  <2>2. CASE m # k
    BY <1>14, <2>2
  <2> QED  BY <2>1, <2>2
<1>16. ASSUME NEW m \in 1 .. Len(u), m <= from, F[m] # <<>>, NEW e \in Touched(B[u[m]].eff)
       PROVE  R[u[m]][e] = Balances(F)[m][e]
  <2>1. m \in 1 .. from /\ m \in 0 .. from /\ m # k /\ m \in 1 .. Len(L)
    BY <1>1, <1>2, <1>3, <1>16
  <2>2. F[m] = E[m] /\ Balances(F)[m] = Balances(E)[m]
    BY <1>10, <2>1
  <2>3. Shown(L, E)
    BY <1>1 DEF Ledger
  <2>4. \A y \in Touched(L[m].eff) : L[m].seen[y] = Balances(E)[m][y]
    BY <1>16, <2>1, <2>2, <2>3 DEF Shown
  <2>5. e \in Touched(L[m].eff) /\ R[u[m]] = L[m].seen
    BY <1>14, <1>16, <2>1
  <2> QED  BY <2>2, <2>4, <2>5
<1>17. Ledger(B, Rebuilt(R, M, F, from, no), Final(F), t, u)
  <2>1. \A m \in 1 .. Len(u) : Observed(M[m]) /\ (m <= from \/ F[m] = <<>>) =>
              R[u[m]][M[m].eff[1].on] = M[m].seen[M[m].eff[1].on]
    BY <1>15
  <2>2. \A m \in 1 .. Len(u) : m <= from /\ F[m] # <<>> =>
              \A e \in Touched(B[u[m]].eff) : R[u[m]][e] = Balances(F)[m][e]
    BY <1>16
  <2>3. Len(M) = Len(u) /\ IsLine(M)
    BY <1>3, <1>7
  <2>4. from \in 0 .. Len(u) /\ no \in BOOLEAN
    BY <1>1, <1>9
  <2>5. Len(M) = Len(u)
    BY <2>3
  <2>6. IsLine(M)
    BY <2>3
  <2>7. from \in 0 .. Len(u)
    BY <2>4
  <2>8. no \in BOOLEAN
    BY <2>4
  <2> QED  BY <1>6, <1>13, <2>1, <2>2, <2>5, <2>6, <2>7, <2>8, Resettle
<1>18. Ledger(B, Rebuilt(R, M, F, k - 1, FALSE), Final(F), t, u)
  BY <1>1, <1>17, Zenon
<1>19. ASSUME NEW e \in Endpoints \ (Touched(A[i].eff) \cup Touched(a.eff))
       PROVE  Final(F)[e] = cur[e]
  <2>1. L[k].eff = A[i].eff /\ M[k].eff = a.eff
    BY <1>7, <1>11, EntryFields
  <2>2. e \in Endpoints /\ e \notin Touched(L[k].eff) /\ e \notin Touched(M[k].eff) /\ k \in 1 .. Len(L)
    BY <1>2, <2>1
  <2>3. IsReplay(L, E, Balances(E))
    BY <1>2
  <2>4. IsReplay(M, F, Balances(F))
    BY <1>8
  <2>5. Replaces(L, M, k)
    BY <1>7
  <2>6. Balances(F)[Len(M)][e] = Balances(E)[Len(L)][e]
    BY <2>2, <2>3, <2>4, <2>5, ReplaceLocal
  <2> QED  BY <1>2, <1>7, <1>8, <2>6 DEF Final, BalanceAfter
<1> QED  BY <1>18, <1>19 DEF Repaired

(* The part of FixChange that follows the preview, for the entry k of the timeline. *)
WriteFix(i, c, line, k, effects) ==
    LET o == line[k]
        inverse == InverseOf(acts[i].eff)
        id == NewId + 1
        a == Activity(c.kind, o.at, o.made, o.order, effects, None, i, TRUE)
        new == [line EXCEPT ![k] = Entry(id, a, TargetOf(c))]
        neff == ReplayMoneyEffects(new)
        final == Final(neff)
        rows == event \o <<Rows(final, inverse), Over(TargetOf(c), Rows(final, effects))>>
    IN  /\ Replays(neff)
        /\ acts' = acts \o <<Activity("reversal", o.at, now, NewId, inverse, i, None, TRUE), a>>
        /\ event' = Rebuilt(rows, new, neff, k - 1, FALSE)
        /\ current' = Refreshed(final, Touched(inverse) \cup Touched(effects))

(* The activities that a fix writes. *)
Evidence(A, t, i, r) ==
    r = Activity("reversal", A[i].at, t, Len(A) + 1, InverseOf(A[i].eff), i, None, TRUE)
Substitute(A, i, c, l, a) ==
    a = Activity(c.kind, A[i].at, A[i].made, A[i].order, l, None, i, TRUE)
FixedBy(A, t, i, c, l, r, a) ==
    /\ Fixes(A, t, i, r, a) /\ a.eff = l /\ r.eff = InverseOf(A[i].eff)
    /\ Observed(a) <=> c.kind = "value_update"

(* They are the activities of a fix. *)
LEMMA FixActivities ==
    ASSUME NEW A, NEW t, History(A, t), NEW i \in 1 .. Len(A), A[i].reverses = None,
           \A j \in DOMAIN A : A[j].reverses # i /\ A[j].replaces # i,
           NEW c, Fields(c), NEW bal, NEW l, Made(bal, c, l),
           NEW r, Evidence(A, t, i, r), NEW a, Substitute(A, i, c, l, a)
    PROVE  FixedBy(A, t, i, c, l, r, a)
<1>1. /\ a.eff = l /\ a.at = A[i].at /\ a.kind = c.kind /\ a.made = A[i].made /\ a.order = A[i].order
      /\ a.reverses = None /\ a.replaces = i /\ a.fix = TRUE
  BY DEF Activity, Substitute
<1>2. /\ r.eff = InverseOf(A[i].eff) /\ r.at = A[i].at /\ r.kind = "reversal" /\ r.made = t
      /\ r.order = Len(A) + 1 /\ r.reverses = i /\ r.replaces = None /\ r.fix = TRUE
  BY DEF Activity, Evidence
<1>3. Stamped(A[i]) /\ A[i].eff \in Lists /\ Len(A) + 1 \in Nat /\ i \in Nat /\ t \in Nat
  <2>1. Len(A) \in Nat /\ DOMAIN A = 1 .. Len(A) /\ AllStamped(A) /\ A[i].eff \in Lists
    BY HistoryFacts
  <2>2. t \in Nat
    BY DEF History
  <2> QED  BY <2>1, <2>2 DEF AllStamped
<1>4. None \in Nat /\ TRUE \in BOOLEAN /\ "reversal" \in Kinds /\ c.kind \in Kinds
  BY DEF None, Kinds, Fields
<1>5. l \in Lists /\ InverseOf(A[i].eff) \in Lists
  BY <1>3, InverseFacts DEF Made
<1>6. a \in Acts
  BY <1>3, <1>4, <1>5 DEF Acts, Activity, Stamped, Substitute
<1>7. r \in Acts
  BY <1>3, <1>4, <1>5 DEF Acts, Activity, Stamped, Evidence
<1>8. Observed(a) <=> c.kind = "value_update"
  BY <1>1 DEF Observed, Made
<1>9. Recorded(a) \/ Observed(a)
  BY <1>1 DEF Observed, Recorded, Made
<1>10. Fixes(A, t, i, r, a)
  BY <1>1, <1>2, <1>6, <1>7, <1>9 DEF Fixes
<1> QED  BY <1>1, <1>2, <1>8, <1>10 DEF FixedBy

(* The rows that a fix writes before the replay: the balances, and the target of a corrected
   observation. *)
Drafted(V, b, c, l, inv, R) == R = V \o <<Rows(b, inv), Over(TargetOf(c), Rows(b, l))>>
Draft(V, c, l, inv, R) ==
    /\ R \in Seq(RowSets) /\ Len(R) = Len(V) + 2 /\ \A j \in 1 .. Len(V) : R[j] = V[j]
    /\ DOMAIN R[Len(V) + 1] = Touched(inv) /\ DOMAIN R[Len(V) + 2] = Touched(l)
    /\ c.kind = "value_update" => R[Len(V) + 2][l[1].on] = TargetOf(c)[l[1].on]

(* Their endpoints, and the target among them. *)
LEMMA FixRows ==
    ASSUME NEW V \in Seq(RowSets), NEW b \in Wallets, NEW c, Fields(c), NEW bal, NEW l, Made(bal, c, l),
           NEW inv, NEW R, Drafted(V, b, c, l, inv, R)
    PROVE  Draft(V, c, l, inv, R)
<1>1. PICK x, y, T : x = Rows(b, inv) /\ y = Over(T, Rows(b, l)) /\ T = TargetOf(c)
  OBVIOUS
<1>2. x \in RowSets /\ DOMAIN x = Touched(inv)
  BY <1>1, RowsFacts
<1>3. Rows(b, l) \in RowSets /\ DOMAIN Rows(b, l) = Touched(l)
  BY RowsFacts
<1>4. c.kind = "value_update" =>
         /\ DOMAIN T = {Value(c.account)} /\ T[Value(c.account)] \in Int
         /\ l[1].on = Value(c.account) /\ Value(c.account) \in Endpoints /\ 1 \in DOMAIN l
  <2> HAVE c.kind = "value_update"
  <2>1. DOMAIN T = {Value(c.account)} /\ T[Value(c.account)] \in Int
    BY <1>1, TargetFacts
  <2>2. Single(l) /\ l[1].on = Value(c.account) /\ Value(c.account) \in Endpoints
    BY DEF Made
  <2>3. 1 \in DOMAIN l
    BY <2>2, ListFacts DEF Single
  <2> QED  BY <2>1, <2>2, <2>3
<1>5. c.kind # "value_update" => DOMAIN T = {}
  BY <1>1, TargetFacts
<1>6. DOMAIN T \subseteq Touched(l) /\ \A e \in DOMAIN T : T[e] \in Int
  BY <1>4, <1>5 DEF Touched
<1>7. /\ y \in RowSets /\ DOMAIN y = Touched(l)
      /\ \A e \in Touched(l) : y[e] = IF e \in DOMAIN T THEN T[e] ELSE Rows(b, l)[e]
  BY <1>1, <1>3, <1>6, OverFacts
<1>8. c.kind = "value_update" => y[l[1].on] = T[l[1].on]
  BY <1>4, <1>6, <1>7
<1>9. /\ R \in Seq(RowSets) /\ Len(R) = Len(V) + 2 /\ \A j \in 1 .. Len(V) : R[j] = V[j]
      /\ R[Len(V) + 1] = x /\ R[Len(V) + 2] = y
  <2>1. R = V \o <<x, y>>
    BY <1>1 DEF Drafted
  <2> QED  BY <1>2, <1>7, <2>1, AppendTwo
<1> QED  BY <1>1, <1>2, <1>7, <1>8, <1>9 DEF Draft

(* A fix puts the replacement where the original was, and everything from there on is
   replayed. *)
LEMMA FixChangeOrder ==
    ASSUME LedgerAssumption, NEW s, InOrder(s), NEW i \in DOMAIN acts, NEW c \in Menu, FixChange(i, c)
    PROVE  LInv'
<1>1. PICK L, E : L = LineOf(acts, event, s) /\ E = ReplayMoneyEffects(L)
  OBVIOUS
<1>2. /\ History(acts, now) /\ IsOrder(acts, s) /\ Len(acts) \in Nat /\ DOMAIN acts = 1 .. Len(acts)
      /\ now \in Nat /\ Timeline = L /\ current \in Wallets /\ IsReplay(L, E, Balances(E))
      /\ Len(L) = Len(s) /\ Len(s) \in Nat /\ event \in Seq(RowSets) /\ Len(event) = Len(acts)
      /\ Targets(acts, event)
  BY <1>1, LedgerFacts DEF InOrder, Timeline
<1>3. acts[i].reverses = None /\ \A j \in DOMAIN acts : acts[j].reverses # i
  BY DEF FixChange, HasReversal
<1>4. PICK k : Live(acts, event, s, L, E, i, k)
  BY <1>1, <1>3, LivePosition DEF InOrder
<1>5. /\ k \in 1 .. Len(s) /\ s[k] = i /\ L[k] = Entry(i, acts[i], event[i]) /\ Position(L, i) = k
      /\ i \in 1 .. Len(acts) /\ \A j \in DOMAIN acts : acts[j].replaces # i
  BY <1>4 DEF Live
<1>6. Fields(c) /\ c \in Commands
  BY CommandFields DEF LedgerAssumption
<1>7. PICK bal, d : bal = Balances(E)[k - 1] /\ d = correctionTransferFee(c, L[k], E[k])
  OBVIOUS
<1>8. bal \in Wallets /\ E[k] \in Lists
  <2>1. Carries(L[k], E[k], Balances(E)[k - 1], Balances(E)[k])
    BY <1>2, <1>5, EntryTouches
  <2> QED  BY <1>7, <2>1 DEF Carries
<1>9. Fields(d) /\ d.kind = c.kind /\ (c.kind = "value_update" => d = c)
  BY <1>6, <1>7, <1>8, CorrectedFields
<1>10. PICK l : l \in PreviewChange(bal, d, L[k].kind = "value_update") /\ WriteFix(i, c, L, k, l)
  <2>1. \E l \in PreviewChange(BalanceAfter(ReplayMoneyEffects(Timeline), Position(Timeline, i) - 1),
                               correctionTransferFee(c, Timeline[Position(Timeline, i)],
                                                     ReplayMoneyEffects(Timeline)[Position(Timeline, i)]),
                               Timeline[Position(Timeline, i)].kind = "value_update") :
          WriteFix(i, c, Timeline, Position(Timeline, i), l)
    BY DEF FixChange, WriteFix, Position
  <2>2. BalanceAfter(ReplayMoneyEffects(Timeline), Position(Timeline, i) - 1) = bal
    BY <1>1, <1>2, <1>5, <1>7 DEF BalanceAfter
  <2>3. Timeline = L /\ ReplayMoneyEffects(Timeline) = E /\ Position(Timeline, i) = k
    BY <1>1, <1>2, <1>5
  <2> QED  BY <1>7, <2>1, <2>2, <2>3
<1>11. Made(bal, d, l)
  <2>1. PICK z \in BOOLEAN : z = (L[k].kind = "value_update")
    OBVIOUS
  <2>2. l \in PreviewChange(bal, d, z)
    BY <1>10, <2>1, Zenon
  <2> QED  BY <1>8, <1>9, <2>1, <2>2, Built
<1>12. Made(bal, c, l)
  BY <1>9, <1>11 DEF Made
<1>13. PICK inv, r, a, v, x, M, F, final, R :
          /\ inv = InverseOf(acts[i].eff)
          /\ r = Activity("reversal", L[k].at, now, Len(acts) + 1, inv, i, None, TRUE)
          /\ a = Activity(c.kind, L[k].at, L[k].made, L[k].order, l, None, i, TRUE)
          /\ v = TargetOf(c) /\ x = Entry(Len(acts) + 1 + 1, a, v)
          /\ M = [L EXCEPT ![k] = x]
          /\ F = ReplayMoneyEffects(M) /\ final = Final(F) /\ Replays(F)
          /\ R = event \o <<Rows(final, inv), Over(TargetOf(c), Rows(final, l))>>
          /\ acts' = acts \o <<r, a>>
          /\ event' = Rebuilt(R, M, F, k - 1, FALSE)
          /\ current' = Refreshed(final, Touched(inv) \cup Touched(l))
  BY <1>10 DEF WriteFix, NewId
<1>14. L[k].at = acts[i].at /\ L[k].made = acts[i].made /\ L[k].order = acts[i].order
  BY <1>5, EntryFields
<1>15. /\ Fixes(acts, now, i, r, a) /\ a.eff = l /\ r.eff = inv
       /\ Observed(a) <=> c.kind = "value_update"
  <2>1. Evidence(acts, now, i, r)
    BY <1>13, <1>14 DEF Evidence
  <2>2. Substitute(acts, i, c, l, a)
    BY <1>13, <1>14 DEF Substitute
  <2>3. History(acts, now)
    BY <1>2
  <2>4. \A j \in DOMAIN acts : acts[j].reverses # i /\ acts[j].replaces # i
    BY <1>3, <1>5
  <2>5. i \in 1 .. Len(acts) /\ acts[i].reverses = None
    BY <1>3, <1>5
  <2>6. Fields(c)
    BY <1>6
  <2>7. FixedBy(acts, now, i, c, l, r, a)
    BY <1>12, <2>1, <2>2, <2>3, <2>4, <2>5, <2>6, FixActivities
  <2> QED  BY <1>13, <2>7 DEF FixedBy
<1>16. PICK B : B = acts \o <<r, a>>
  OBVIOUS
<1>17. Longer(acts, r, a, B)
  <2>1. r \in Acts /\ a \in Acts
    BY <1>15 DEF Fixes
  <2> QED  BY <1>2, <1>16, <2>1, LongerHistory
<1>18. PICK u : Takes(s, k, Len(acts) + 2, u)
  BY DEF Takes
<1>19. Observed(a) => v[a.eff[1].on] \in Int
  <2>1. c.kind = "value_update" => TargetOf(c)[Value(c.account)] \in Int /\ l[1].on = Value(c.account)
    BY <1>6, <1>12, TargetFacts DEF Made
  <2> QED  BY <1>13, <1>15, <2>1
<1>20. x = Entry(Len(acts) + 2, a, v)
  <2>1. Len(acts) + 1 + 1 = Len(acts) + 2
    BY <1>2
  <2> QED  BY <1>13, <2>1
<1>21. Swapped(s, k, x, L, M)
  <2>1. History(acts, now)
    BY <1>2
  <2>2. IsOrder(acts, s)
    BY <1>2
  <2>3. event \in Seq(RowSets) /\ Len(event) = Len(acts)
    BY <1>2
  <2>4. Targets(acts, event)
    BY <1>2
  <2>5. M = [L EXCEPT ![k] = x]
    BY <1>13
  <2>6. k \in 1 .. Len(s) /\ s[k] = i
    BY <1>5
  <2>7. Fixes(acts, now, i, r, a)
    BY <1>15
  <2> QED  BY <1>1, <1>17, <1>19, <1>20, <2>1, <2>2, <2>3, <2>4, <2>5, <2>6, <2>7, FixLine
<1>22. final \in Wallets
  <2>1. IsLine(M)
    BY <1>21 DEF Swapped
  <2>2. IsReplay(M, F, Balances(F)) /\ Len(F) = Len(M)
    BY <1>13, <2>1, ReplayFacts
  <2>3. Len(M) \in 0 .. Len(M)
    BY <2>1 DEF IsLine
  <2> QED  BY <1>13, <2>2, <2>3 DEF IsReplay, Final, BalanceAfter
<1>23. /\ R \in Seq(RowSets) /\ Len(R) = Len(event) + 2 /\ \A j \in 1 .. Len(event) : R[j] = event[j]
       /\ DOMAIN R[Len(event) + 1] = Touched(inv) /\ DOMAIN R[Len(event) + 2] = Touched(l)
       /\ c.kind = "value_update" => R[Len(event) + 2][l[1].on] = TargetOf(c)[l[1].on]
  <2>1. event \in Seq(RowSets)
    BY <1>2
  <2>2. Drafted(event, final, c, l, inv, R)
    BY <1>13 DEF Drafted
  <2>3. Fields(c)
    BY <1>6
  <2>4. Draft(event, c, l, inv, R)
    BY <1>12, <1>22, <2>1, <2>2, <2>3, FixRows
  <2> QED  BY <2>4 DEF Draft
<1>24. Repaired(acts, event, current, now, i, s, r, a, R, k, M, F, B, u)
  <2>1. Ledger(acts, event, current, now, s)
    BY DEF InOrder
  <2>2. F = ReplayMoneyEffects(M) /\ Replays(F)
    BY <1>13
  <2>3. R \in Seq(RowSets) /\ Len(R) = Len(acts) + 2
    BY <1>2, <1>23
  <2>4. \A j \in 1 .. Len(acts) : R[j] = event[j]
    BY <1>2, <1>23
  <2>5. DOMAIN R[Len(acts) + 1] = Touched(r.eff) /\ DOMAIN R[Len(acts) + 2] = Touched(a.eff)
    BY <1>2, <1>15, <1>23
  <2>6. Observed(a) => R[Len(acts) + 2][a.eff[1].on] = v[a.eff[1].on]
    BY <1>2, <1>13, <1>15, <1>23
  <2>7. k \in 1 .. Len(s) /\ s[k] = i
    BY <1>5
  <2>8. Fixes(acts, now, i, r, a)
    BY <1>15
  <2> QED  BY <1>1, <1>17, <1>18, <1>19, <1>20, <1>21, <2>1, <2>2, <2>3, <2>4, <2>5, <2>6, <2>7, <2>8, FixLedger
<1>25. /\ Ledger(B, Rebuilt(R, M, F, k - 1, FALSE), Final(F), now, u)
       /\ \A e \in Endpoints \ (Touched(acts[i].eff) \cup Touched(a.eff)) : Final(F)[e] = current[e]
  BY <1>24 DEF Repaired
<1>26. Touched(inv) = Touched(acts[i].eff)
  BY <1>2, <1>5, <1>13, HistoryFacts, InverseFacts
<1>27. current' = Final(F)
  <2>1. PICK T : T = Touched(inv) \cup Touched(l)
    OBVIOUS
  <2>2. \A e \in Endpoints \ T : final[e] = current[e]
    BY <1>13, <1>15, <1>25, <1>26, <2>1
  <2>3. Refreshed(final, T) = final
    BY <1>2, <1>22, <2>2, RefreshedAll
  <2> QED  BY <1>13, <2>1, <2>3
<1>28. now' = now
  BY DEF FixChange
<1>29. Ledger(acts', event', current', now', u)
  BY <1>13, <1>16, <1>25, <1>27, <1>28
<1> QED  BY <1>29 DEF LInv, InOrder
-----------------------------------------------------------------------------
(* Batch *)

(* The activity y is x with the effects l. *)
Copy(x, l, y) ==
    \E kind, at, made, order, old :
        /\ x = Activity(kind, at, made, order, old, None, None, FALSE)
        /\ y = Activity(kind, at, made, order, l, None, None, FALSE)
Remade(A, t, id, x, v, l, y) ==
    /\ y.eff = l /\ y.at = x.at /\ y \in Acts
    /\ \A B : Len(B) = Len(A) => New(B, y, t)
    /\ Alike(Entry(id, x, v), Entry(id, y, v))
    /\ Touched(l) = Touched(x.eff)

(* A batch records the effects of the replay instead of the previewed ones: no replay can
   tell them apart. *)
LEMMA BatchActivity ==
    ASSUME NEW M, NEW F, NEW C, IsReplay(M, F, C), NEW p \in 1 .. Len(M),
           NEW id, NEW x, NEW v, M[p] = Entry(id, x, v),
           NEW A, NEW t, New(A, x, t), Recorded(x) \/ Observed(x),
           NEW l, l = F[p], l # <<>>, NEW y, Copy(x, l, y)
    PROVE  Remade(A, t, id, x, v, l, y)
<1>1. PICK kind, at, made, order, old :
        /\ x = Activity(kind, at, made, order, old, None, None, FALSE)
        /\ y = Activity(kind, at, made, order, l, None, None, FALSE)
  BY DEF Copy
<1>2. /\ x.kind = kind /\ x.at = at /\ x.made = made /\ x.order = order /\ x.eff = old
      /\ x.reverses = None /\ x.replaces = None /\ x.fix = FALSE
  BY <1>1 DEF Activity
<1>3. /\ y.kind = kind /\ y.at = at /\ y.made = made /\ y.order = order /\ y.eff = l
      /\ y.reverses = None /\ y.replaces = None /\ y.fix = FALSE
  BY <1>1 DEF Activity
<1>4. l \in Lists /\ M[p].eff \in Lists /\ (l # <<>> => Touched(l) = Touched(M[p].eff))
  <2>1. Carries(M[p], F[p], C[p - 1], C[p])
    BY EntryTouches
  <2> QED  BY <2>1 DEF Carries
<1>5. M[p].eff = old /\ M[p].seen = v /\ (Recorded(M[p]) <=> Recorded(x)) /\ (Observed(M[p]) <=> Observed(x))
  BY <1>2, EntryFields
<1>6. Form(M, F, C[p - 1], p)
  BY DEF IsReplay
<1>7. \/ Recorded(x) /\ Recorded(y) /\ l = old
      \/ /\ Observed(x) /\ Observed(y) /\ l[1].on = old[1].on /\ l[1].role = old[1].role
         /\ kind = "value_update" /\ Single(l) /\ Single(old)
  <2>1. CASE Recorded(x)
    <3>1. l = old
      BY <1>5, <1>6, <2>1 DEF Form, Closed
    <3> QED  BY <1>2, <1>3, <2>1, <3>1 DEF Recorded
  <2>2. CASE Observed(x)
    <3>1. PICK d : d = v[old[1].on] - C[p - 1][old[1].on]
      OBVIOUS
    <3>2. l = Moving(old[1], d)
      BY <1>5, <1>6, <2>2, <3>1 DEF Form, Closed
    <3>3. Single(old) /\ kind = "value_update"
      BY <1>2, <2>2 DEF Observed
    <3>4. l = <<[old[1] EXCEPT !.by = d]>>
      BY <3>2 DEF Moving
    <3>5. old[1] \in EffectSet /\ old[1].on \in Endpoints /\ IsMoney(old[1].on)
      BY <3>3, SingleTouched DEF Single
    <3>6. l[1].on = old[1].on /\ l[1].role = old[1].role /\ Len(l) = 1
      BY <3>4, <3>5 DEF EffectSet
    <3>7. Single(l)
      BY <1>4, <3>5, <3>6 DEF Single
    <3>8. Observed(y)
      BY <1>3, <3>3, <3>7 DEF Observed
    <3> QED  BY <2>2, <3>3, <3>6, <3>7, <3>8
  <2> QED  BY <2>1, <2>2
<1>8. y \in Acts
  <2>1. x \in Acts
    BY DEF New
  <2>2. kind \in Kinds /\ at \in Nat /\ made \in Nat /\ order \in Nat /\ None \in Nat /\ FALSE \in BOOLEAN
    BY <1>2, <2>1 DEF Acts, None
  <2> QED  BY <1>1, <1>4, <2>2 DEF Acts, Activity
<1>9. ASSUME NEW B, Len(B) = Len(A)
      PROVE  New(B, y, t)
  BY <1>2, <1>3, <1>7, <1>8, <1>9 DEF New
<1>10. Alike(Entry(id, x, v), Entry(id, y, v))
  <2>1. PICK g, h : g = Entry(id, x, v) /\ h = Entry(id, y, v)
    OBVIOUS
  <2>2. /\ g.id = id /\ g.kind = kind /\ g.reverses = None /\ g.eff = old /\ g.seen = v
        /\ h.id = id /\ h.kind = kind /\ h.reverses = None /\ h.eff = l /\ h.seen = v
        /\ Observed(g) <=> Observed(x)
    BY <1>2, <1>3, <2>1, EntryFields
  <2>3. Alike(g, h)
    BY <1>7, <2>2 DEF Alike
  <2> QED  BY <2>1, <2>3
<1> QED  BY <1>2, <1>3, <1>4, <1>5, <1>8, <1>9, <1>10 DEF Remade

(* The timeline M of L and two more activities x and y, x behind the first n entries and y
   behind the first q of these, on hypothetical rows: what is not new is as before. *)
Paired(A, V, s, x, v, y, w, n, q, L, K, M, u) ==
    /\ n \in 0 .. Len(s) /\ q \in 0 .. Len(s) + 1 /\ n + 1 <= q /\ Len(s) \in Nat
    /\ IsLine(K) /\ Len(K) = Len(s) + 1 /\ Extends(L, K, n) /\ K[n + 1] = Entry(Len(A) + 1, x, v)
    /\ IsLine(M) /\ Len(M) = Len(s) + 2 /\ Extends(K, M, q) /\ M[n + 1] = Entry(Len(A) + 1, x, v)
    /\ M[q + 1] = Entry(Len(A) + 2, y, w)
    /\ Len(u) = Len(s) + 2
    /\ \A m \in 1 .. Len(s) + 2 :
          \/ m = n + 1 /\ u[m] = Len(A) + 1
          \/ m = q + 1 /\ u[m] = Len(A) + 2
          \/ u[m] \in 1 .. Len(A) /\ M[m] = Entry(u[m], A[u[m]], V[u[m]])

(* Two activities placed one after the other. *)
LEMMA BatchLine ==
    ASSUME NEW A, NEW t, History(A, t), NEW s, IsOrder(A, s),
           NEW x, New(A, x, t), NEW A1, A1 = Append(A, x), NEW y, New(A1, y, t), x.at <= y.at,
           NEW V \in Seq(RowSets), Len(V) = Len(A), Targets(A, V),
           NEW v, Observed(x) => v[x.eff[1].on] \in Int, NEW w, Observed(y) => w[y.eff[1].on] \in Int,
           NEW L, L = LineOf(A, V, s), NEW n, n = Behind(A, s, x.at),
           NEW K, K = Placed(L, n, Entry(Len(A) + 1, x, v)),
           NEW s1, s1 = Placed(s, n, Len(A) + 1), NEW q, q = Behind(A1, s1, y.at),
           NEW M, M = Placed(K, q, Entry(Len(A) + 2, y, w)), NEW u, u = Placed(s1, q, Len(A) + 2)
    PROVE  Paired(A, V, s, x, v, y, w, n, q, L, K, M, u)
<1>1. PICK S, V1, V2, A2 : /\ S = RowSets \cup {v, w} /\ V1 = Append(V, v) /\ V2 = Append(V1, w)
                           /\ A2 = Append(A1, y)
  OBVIOUS
<1>2. V \in Seq(S) /\ v \in S /\ w \in S
  BY <1>1
<1>3. Grown(A, t, s, x, S, v, L, n, A1, V1, s1, K)
  BY <1>1, <1>2, GrownLine
<1>4. /\ History(A1, t) /\ IsOrder(A1, s1) /\ Targets(A1, V1) /\ V1 \in Seq(S)
      /\ Len(V1) = Len(A1) /\ Len(A1) = Len(A) + 1 /\ Len(s1) = Len(s) + 1
      /\ n \in 0 .. Len(s) /\ Len(s) \in Nat
      /\ K = LineOf(A1, V1, s1) /\ IsLine(K) /\ Len(K) = Len(s) + 1
      /\ K[n + 1] = Entry(Len(A) + 1, x, v) /\ Extends(L, K, n)
      /\ s1[n + 1] = Len(A) + 1
  BY <1>3 DEF Grown
<1>5. Len(A) \in Nat /\ Len(A1) + 1 = Len(A) + 2 /\ Len(A) + 1 \in Nat
  BY <1>4, HistoryFacts
<1>6. Grown(A1, t, s1, y, S, w, K, q, A2, V2, u, M)
  <2>1. M = Placed(K, q, Entry(Len(A1) + 1, y, w)) /\ u = Placed(s1, q, Len(A1) + 1)
    BY <1>5
  <2>2. History(A1, t) /\ IsOrder(A1, s1)
    BY <1>4
  <2>3. V1 \in Seq(S) /\ Len(V1) = Len(A1)
    BY <1>4
  <2>4. Targets(A1, V1)
    BY <1>4
  <2>5. K = LineOf(A1, V1, s1)
    BY <1>4
  <2> QED  BY <1>1, <1>2, <2>1, <2>2, <2>3, <2>4, <2>5, GrownLine
<1>7. /\ IsOrder(A2, u) /\ Len(u) = Len(s1) + 1
      /\ q \in 0 .. Len(s1)
      /\ M = LineOf(A2, V2, u) /\ IsLine(M) /\ Len(M) = Len(s1) + 1
      /\ M[q + 1] = Entry(Len(A1) + 1, y, w) /\ Extends(K, M, q)
      /\ \A m \in 1 .. q : M[m] = K[m] /\ u[m] = s1[m]
      /\ u[q + 1] = Len(A1) + 1
  BY <1>6 DEF Grown
<1>8. Len(u) = Len(s) + 2 /\ Len(M) = Len(s) + 2 /\ q \in 0 .. Len(s) + 1
  BY <1>4, <1>7
<1>9. /\ \A i \in 1 .. Len(A) : A1[i] = A[i] /\ V1[i] = V[i]
      /\ A1[Len(A) + 1] = x /\ V1[Len(A) + 1] = v
  <2>1. A \in Seq(Acts) /\ x \in Acts
    BY DEF History, New
  <2> QED  BY <1>1, <1>2, <2>1, AppendFacts
<1>10. n + 1 <= q
  <2>1. n + 1 \in 1 .. Len(s1) /\ A1[s1[n + 1]] = x
    BY <1>4, <1>9
  <2>2. y.at \in Nat
    BY DEF New, Acts
  <2>3. \A m \in 1 .. Len(s1) : A1[s1[m]].at <= y.at <=> m <= q
    BY <1>4, <2>2, BehindFacts
  <2> QED  BY <2>1, <2>3
<1>11. /\ \A i \in 1 .. Len(A) + 1 : A2[i] = A1[i] /\ V2[i] = V1[i]
       /\ DOMAIN A2 = 1 .. Len(A) + 2
  <2>1. A1 \in Seq(Acts) /\ y \in Acts
    BY <1>4 DEF History, New
  <2>2. Len(A1) = Len(A) + 1 /\ Len(V1) = Len(A) + 1
    BY <1>4
  <2>3. V1 \in Seq(S)
    BY <1>4
  <2>4. (\A i \in 1 .. Len(A1) : A2[i] = A1[i]) /\ DOMAIN A2 = 1 .. Len(A1) + 1
    BY <1>1, <2>1, AppendFacts
  <2>5. \A i \in 1 .. Len(V1) : V2[i] = V1[i]
    BY <1>1, <1>2, <2>3, AppendFacts
  <2> QED  BY <1>5, <2>2, <2>4, <2>5
<1>12. n + 1 \in 1 .. q
  BY <1>4, <1>8, <1>10
<1>13. M[n + 1] = Entry(Len(A) + 1, x, v) /\ u[n + 1] = Len(A) + 1
  BY <1>4, <1>7, <1>12
<1>14. ASSUME NEW m \in 1 .. Len(s) + 2
       PROVE  \/ m = n + 1 /\ u[m] = Len(A) + 1
              \/ m = q + 1 /\ u[m] = Len(A) + 2
              \/ u[m] \in 1 .. Len(A) /\ M[m] = Entry(u[m], A[u[m]], V[u[m]])
  <2>1. u[m] \in 1 .. Len(A) + 2 /\ M[m] = Entry(u[m], A2[u[m]], V2[u[m]])
    <3>1. m \in 1 .. Len(u)
      BY <1>8
    <3>2. u[m] \in DOMAIN A2
      BY <1>7, <3>1 DEF IsOrder
    <3>3. LineOf(A2, V2, u)[m] = Entry(u[m], A2[u[m]], V2[u[m]])
      BY <3>1 DEF LineOf
    <3> QED  BY <1>7, <1>11, <3>2, <3>3
  <2>2. M[m].id = u[m] /\ M[n + 1].id = Len(A) + 1 /\ M[q + 1].id = Len(A) + 2
    BY <1>5, <1>7, <1>13, <2>1, EntryFields
  <2>3. n + 1 \in 1 .. Len(M) /\ q + 1 \in 1 .. Len(M) /\ m \in 1 .. Len(M)
    BY <1>4, <1>8, <1>10
  <2>4. \A j, k \in 1 .. Len(M) : M[j].id = M[k].id => j = k
    BY <1>7 DEF IsLine
  <2>5. CASE u[m] = Len(A) + 1
    BY <2>2, <2>3, <2>4, <2>5
  <2>6. CASE u[m] = Len(A) + 2
    BY <2>2, <2>3, <2>4, <2>6
  <2>7. CASE u[m] \in 1 .. Len(A)
    <3>1. A2[u[m]] = A[u[m]] /\ V2[u[m]] = V[u[m]]
      BY <1>5, <1>9, <1>11, <2>7
    <3> QED  BY <2>1, <2>7, <3>1
  <2> QED  BY <1>5, <2>1, <2>5, <2>6, <2>7
<1> QED  BY <1>4, <1>5, <1>7, <1>8, <1>10, <1>13, <1>14 DEF Paired

SameInstants(A, B, s) == \A m \in 1 .. Len(s) : A[s[m]].at = B[s[m]].at

(* How many entries are not later depends on the instants only. *)
LEMMA BehindSame ==
    ASSUME NEW A, NEW B, NEW s, SameInstants(A, B, s), NEW at
    PROVE  Behind(A, s, at) = Behind(B, s, at)
<1>1. {m \in 1 .. Len(s) : A[s[m]].at <= at} = {m \in 1 .. Len(s) : B[s[m]].at <= at}
  BY DEF SameInstants
<1> QED  BY <1>1 DEF Behind

(* The history with both activities of a batch, and rows for them. *)
LEMMA BatchSound ==
    ASSUME NEW A, NEW V, NEW t, NEW s, Sound(A, V, t, s),
           NEW x, New(A, x, t), NEW A1, A1 = Append(A, x), NEW y, New(A1, y, t),
           NEW a, NEW b, a \in Acts, a.at = x.at, b.at = y.at,
           \A B : Len(B) = Len(A) => New(B, a, t), \A B : Len(B) = Len(A1) => New(B, b, t),
           NEW row \in RowSets, DOMAIN row = Touched(a.eff),
           NEW last \in RowSets, DOMAIN last = Touched(b.eff),
           NEW n, n = Behind(A, s, x.at), NEW s1, s1 = Placed(s, n, Len(A) + 1),
           NEW q, q = Behind(A1, s1, y.at), NEW u, u = Placed(s1, q, Len(A) + 2)
    PROVE  Sound(Append(Append(A, a), b), Append(Append(V, row), last), t, u)
<1>1. PICK B, R : B = Append(A, a) /\ R = Append(V, row)
  OBVIOUS
<1>2. New(A, a, t)
  OBVIOUS
<1>3. Sound(B, R, t, s1)
  <2>1. Sound(Append(A, a), Append(V, row), t, Placed(s, Behind(A, s, a.at), Len(A) + 1))
    BY <1>2, SoundGrows
  <2> QED  BY <1>1, <2>1
<1>4. A \in Seq(Acts) /\ x \in Acts /\ a \in Acts
  BY DEF Sound, History, New
<1>5. /\ Len(A1) = Len(A) + 1 /\ Len(B) = Len(A) + 1 /\ Len(A) \in Nat
      /\ DOMAIN B = 1 .. Len(A) + 1
      /\ \A i \in 1 .. Len(A) : A1[i] = A[i] /\ B[i] = A[i]
      /\ A1[Len(A) + 1] = x /\ B[Len(A) + 1] = a
      /\ \A i \in 1 .. Len(A) + 1 : i \in 1 .. Len(A) \/ i = Len(A) + 1
  BY <1>1, <1>4, AppendFacts
<1>6. IsOrder(B, s1)
  BY <1>3 DEF Sound
<1>7. \A m \in 1 .. Len(s1) : A1[s1[m]].at = B[s1[m]].at
  <2> TAKE m \in 1 .. Len(s1)
  <2>1. s1[m] \in 1 .. Len(A) + 1
    BY <1>5, <1>6 DEF IsOrder
  <2>2. CASE s1[m] \in 1 .. Len(A)
    BY <1>5, <2>2
  <2>3. CASE s1[m] = Len(A) + 1
    BY <1>5, <2>3
  <2> QED  BY <1>5, <2>1, <2>2, <2>3
<1>8. q = Behind(B, s1, b.at)
  <2>1. SameInstants(A1, B, s1)
    BY <1>7 DEF SameInstants
  <2>2. Behind(A1, s1, y.at) = Behind(B, s1, y.at)
    BY <2>1, BehindSame
  <2> QED  BY <2>2
<1>9. New(B, b, t)
  BY <1>5
<1>10. Sound(Append(B, b), Append(R, last), t, Placed(s1, Behind(B, s1, b.at), Len(B) + 1))
  BY <1>3, <1>9, SoundGrows
<1>11. u = Placed(s1, Behind(B, s1, b.at), Len(B) + 1)
  <2>1. Len(B) + 1 = Len(A) + 2
    BY <1>5
  <2> QED  BY <1>8, <2>1
<1> QED  BY <1>1, <1>10, <1>11

(* The ledger with a batch in it: it is in order, and only the balances that the batch
   touches have changed. *)
Batched(A, V, cur, t, a, b, row, last, M, F, u) ==
    /\ Ledger(Append(Append(A, a), b), Rebuilt(Append(Append(V, row), last), M, F, 0, FALSE), Final(F), t, u)
    /\ \A e \in Endpoints \ (Touched(a.eff) \cup Touched(b.eff)) : Final(F)[e] = cur[e]

(* A batch is placed into the timeline and everything is replayed. *)
LEMMA BatchLedger ==
    ASSUME LedgerAssumption, NEW A, NEW V, NEW cur, NEW t, NEW s, Ledger(A, V, cur, t, s),
           NEW x, NEW v, NEW y, NEW w, NEW n, NEW q, NEW L, L = LineOf(A, V, s), NEW K, NEW M, NEW u,
           Paired(A, V, s, x, v, y, w, n, q, L, K, M, u),
           NEW F, F = ReplayMoneyEffects(M), Replays(F),
           NEW A1, Len(A1) = Len(A) + 1,
           NEW a, Remade(A, t, Len(A) + 1, x, v, F[n + 1], a), F[n + 1] # <<>>,
           NEW b, Remade(A1, t, Len(A) + 2, y, w, F[q + 1], b), F[q + 1] # <<>>,
           NEW row, NEW last,
           Sound(Append(Append(A, a), b), Append(Append(V, row), last), t, u)
    PROVE  Batched(A, V, cur, t, a, b, row, last, M, F, u)
<1>1. PICK N, E, B, R, zero, no :
        /\ N = Len(A) /\ E = ReplayMoneyEffects(L) /\ B = Append(Append(A, a), b)
        /\ R = Append(Append(V, row), last) /\ zero = 0 /\ no \in BOOLEAN /\ no = FALSE
  <2>1. PICK no \in BOOLEAN : no = FALSE
    OBVIOUS
  <2> QED  BY <2>1
<1>2. /\ History(A, t) /\ N \in Nat /\ DOMAIN A = 1 .. N /\ Len(V) = N
      /\ Len(L) = Len(s) /\ Len(s) \in Nat /\ IsReplay(L, E, Balances(E)) /\ cur = Balances(E)[Len(s)]
  BY <1>1, LedgerFacts
<1>3. /\ n \in 0 .. Len(s) /\ q \in 0 .. Len(s) + 1 /\ n + 1 <= q
      /\ IsLine(K) /\ Len(K) = Len(s) + 1 /\ Extends(L, K, n) /\ K[n + 1] = Entry(N + 1, x, v)
      /\ IsLine(M) /\ Len(M) = Len(s) + 2 /\ Extends(K, M, q) /\ M[n + 1] = Entry(N + 1, x, v)
      /\ M[q + 1] = Entry(N + 2, y, w)
      /\ Len(u) = Len(s) + 2
      /\ \A m \in 1 .. Len(s) + 2 :
            \/ m = n + 1 /\ u[m] = N + 1
            \/ m = q + 1 /\ u[m] = N + 2
            \/ u[m] \in 1 .. N /\ M[m] = Entry(u[m], A[u[m]], V[u[m]])
  BY <1>1 DEF Paired
<1>4. A \in Seq(Acts) /\ a \in Acts /\ b \in Acts
  BY <1>2 DEF History, Remade
<1>5. /\ \A i \in 1 .. N : B[i] = A[i]
      /\ B[N + 1] = a /\ B[N + 2] = b
  <2>1. PICK G : G = Append(A, a)
    OBVIOUS
  <2>2. /\ G \in Seq(Acts) /\ Len(G) = N + 1 /\ (\A i \in 1 .. N : G[i] = A[i]) /\ G[N + 1] = a
    BY <1>1, <1>4, <2>1, AppendFacts
  <2>3. B = Append(G, b)
    BY <1>1, <2>1
  <2>4. (\A i \in 1 .. Len(G) : B[i] = G[i]) /\ B[Len(G) + 1] = b
    BY <1>4, <2>2, <2>3, AppendFacts
  <2>5. N + 1 + 1 = N + 2 /\ N + 1 \in 1 .. N + 1 /\ \A i \in 1 .. N : i \in 1 .. N + 1
    BY <1>2
  <2> QED  BY <2>2, <2>4, <2>5
<1>6. \A i \in 1 .. N : R[i] = V[i]
  <2>1. V \in Seq(RowSets)
    BY DEF Ledger, Sound
  <2>2. PICK S, G : S = RowSets \cup {row, last} /\ G = Append(V, row)
    OBVIOUS
  <2>3. V \in Seq(S) /\ row \in S /\ last \in S
    BY <2>1, <2>2
  <2>4. G \in Seq(S) /\ Len(G) = N + 1 /\ \A i \in 1 .. N : G[i] = V[i]
    BY <1>2, <2>2, <2>3, AppendFacts
  <2>5. R = Append(G, last)
    BY <1>1, <2>2
  <2>6. \A i \in 1 .. Len(G) : R[i] = G[i]
    BY <2>3, <2>4, <2>5, AppendFacts
  <2>7. \A i \in 1 .. N : i \in 1 .. N + 1
    BY <1>2
  <2> QED  BY <2>4, <2>6, <2>7
<1>7. ASSUME NEW m \in 1 .. Len(u)
      PROVE  Alike(M[m], Entry(u[m], B[u[m]], M[m].seen))
  <2>1. m \in 1 .. Len(s) + 2
    BY <1>3
  <2>2. CASE m = n + 1 /\ u[m] = N + 1
    <3>1. M[m] = Entry(N + 1, x, v) /\ B[u[m]] = a
      BY <1>3, <1>5, <2>2
    <3>2. M[m].seen = v
      BY <3>1, EntryFields
    <3>3. Alike(Entry(N + 1, x, v), Entry(N + 1, a, v))
      BY <1>1 DEF Remade
    <3> QED  BY <2>2, <3>1, <3>2, <3>3
  <2>3. CASE m = q + 1 /\ u[m] = N + 2
    <3>1. M[m] = Entry(N + 2, y, w) /\ B[u[m]] = b
      BY <1>3, <1>5, <2>3
    <3>2. M[m].seen = w
      BY <3>1, EntryFields
    <3>3. Alike(Entry(N + 2, y, w), Entry(N + 2, b, w))
      BY <1>1 DEF Remade
    <3> QED  BY <2>3, <3>1, <3>2, <3>3
  <2>4. CASE u[m] \in 1 .. N /\ M[m] = Entry(u[m], A[u[m]], V[u[m]])
    <3>1. M[m].seen = V[u[m]] /\ B[u[m]] = A[u[m]]
      BY <1>5, <2>4, EntryFields
    <3>2. M[m] = Entry(u[m], B[u[m]], M[m].seen)
      BY <2>4, <3>1
    <3> QED  BY <3>2 DEF Alike
  <2> QED  BY <1>3, <2>1, <2>2, <2>3, <2>4
<1>8. ASSUME NEW m \in 1 .. Len(u), Observed(M[m]), m <= zero \/ F[m] = <<>>
      PROVE  R[u[m]][M[m].eff[1].on] = M[m].seen[M[m].eff[1].on]
  <2>1. m \in 1 .. Len(s) + 2
    BY <1>3
  <2>2. F[m] = <<>>
    BY <1>1, <1>8
  <2>3. u[m] \in 1 .. N /\ M[m] = Entry(u[m], A[u[m]], V[u[m]])
    BY <1>3, <2>1, <2>2
  <2>4. M[m].seen = V[u[m]]
    BY <2>3, EntryFields
  <2> QED  BY <1>6, <2>3, <2>4
<1>9. Ledger(B, Rebuilt(R, M, F, zero, no), Final(F), t, u)
  <2>1. \A m \in 1 .. Len(u) : Observed(M[m]) /\ (m <= zero \/ F[m] = <<>>) =>
              R[u[m]][M[m].eff[1].on] = M[m].seen[M[m].eff[1].on]
    BY <1>8
  <2>2. \A m \in 1 .. Len(u) : m <= zero /\ F[m] # <<>> =>
              \A e \in Touched(B[u[m]].eff) : R[u[m]][e] = Balances(F)[m][e]
    BY <1>1
  <2>3. \A m \in 1 .. Len(u) : Alike(M[m], Entry(u[m], B[u[m]], M[m].seen))
    BY <1>7
  <2>4. Len(M) = Len(u)
    BY <1>3
  <2>5. IsLine(M)
    BY <1>3
  <2>6. zero \in 0 .. Len(u)
    BY <1>1, <1>2, <1>3
  <2>7. no \in BOOLEAN
    BY <1>1
  <2>8. Sound(B, R, t, u)
    BY <1>1
  <2> QED  BY <2>1, <2>2, <2>3, <2>4, <2>5, <2>6, <2>7, <2>8, Resettle
<1>10. Ledger(B, Rebuilt(R, M, F, 0, FALSE), Final(F), t, u)
  BY <1>1, <1>9, Zenon
<1>11. ASSUME NEW e \in Endpoints \ (Touched(a.eff) \cup Touched(b.eff))
       PROVE  Final(F)[e] = cur[e]
  <2>1. PICK D : D = ReplayMoneyEffects(K)
    OBVIOUS
  <2>2. IsReplay(K, D, Balances(D))
    BY <1>3, <2>1, ReplayFacts
  <2>3. IsReplay(M, F, Balances(F)) /\ Len(F) = Len(M)
    BY <1>3, ReplayFacts
  <2>4. IsReplay(M, F, Balances(F))
    BY <2>3
  <2>5. IsReplay(L, E, Balances(E))
    BY <1>2
  <2>6. K[n + 1].eff = x.eff /\ M[q + 1].eff = y.eff
    BY <1>3, EntryFields
  <2>7. Touched(a.eff) = Touched(x.eff) /\ Touched(b.eff) = Touched(y.eff)
    BY DEF Remade
  <2>8. e \in Endpoints /\ e \notin Touched(K[n + 1].eff) /\ e \notin Touched(M[q + 1].eff)
    BY <2>6, <2>7
  <2>9. n \in 0 .. Len(L) /\ q \in 0 .. Len(K) /\ Extends(L, K, n) /\ Extends(K, M, q)
    BY <1>2, <1>3
  <2>10. Balances(D)[Len(K)][e] = Balances(E)[Len(L)][e]
    BY <2>2, <2>5, <2>8, <2>9, InsertLocal
  <2>11. Balances(F)[Len(M)][e] = Balances(D)[Len(K)][e]
    BY <2>2, <2>4, <2>8, <2>9, InsertLocal
  <2> QED  BY <1>2, <2>3, <2>10, <2>11 DEF Final, BalanceAfter
<1> QED  BY <1>1, <1>10, <1>11 DEF Batched

(* The part of RecordBatch behind the preview, for the timeline with both commands. *)
WriteBatch(c, at, d, dat, line, eff, one, two) ==
    LET final == Final(eff)
    IN  /\ Replays(eff)
        /\ one # <<>> /\ two # <<>>
        /\ acts' = acts \o <<Activity(c.kind, at, now, NewId, one, None, None, FALSE),
                             Activity(d.kind, dat, now, NewId + 1, two, None, None, FALSE)>>
        /\ event' = Rebuilt(event \o <<Rows(final, one), Rows(final, two)>>, line, eff, 0, FALSE)
        /\ current' = Refreshed(final, Touched(one) \cup Touched(two))

(* A command as RecordBatch places it into the timeline L of a history. *)
Stage(A, t, L, n, bal, c, at, l, x, M) ==
    /\ Made(bal, c, l) /\ (c.kind = "value_update" => l[1].by # 0)
    /\ x = Activity(c.kind, at, t, Len(A) + 1, l, None, None, FALSE)
    /\ Fresh(A, t, c, l, at, x)
    /\ Recorded(x) \/ Observed(x)
    /\ Observed(x) => TargetOf(c)[x.eff[1].on] \in Int
    /\ M = Placed(L, n, Entry(Len(A) + 1, x, TargetOf(c)))

(* What a member of Staged is. *)
LEMMA StageFacts ==
    ASSUME LedgerAssumption, NEW A, NEW t, t = now, History(A, t), NEW s, IsOrder(A, s), NEW V, Targets(A, V),
           NEW L, L = LineOf(A, V, s), NEW c, Fields(c), NEW at \in Nat, at <= t,
           NEW id, id = Len(A) + 1, NEW M \in Staged(L, id, c, at),
           NEW n, n = Behind(A, s, at), NEW bal, bal = Balances(ReplayMoneyEffects(L))[n]
    PROVE  \E l, x : Stage(A, t, L, n, bal, c, at, l, x, M)
<1>1. Slot(L, at, now) = n
  BY SlotIs
<1>2. n \in 0 .. Len(s)
  BY BehindFacts
<1>3. IsLine(L) /\ Len(L) = Len(s)
  BY HistoryLine
<1>4. bal \in Wallets
  <2>1. PICK E : E = ReplayMoneyEffects(L)
    OBVIOUS
  <2>2. IsReplay(L, E, Balances(E))
    BY <1>3, <2>1, ReplayFacts
  <2>3. n \in 0 .. Len(L)
    BY <1>2, <1>3
  <2> QED  BY <2>1, <2>2, <2>3 DEF IsReplay
<1>5. PICK l \in PreviewChange(bal, c, FALSE) :
         M = Placed(L, n, Entry(id, Activity(c.kind, at, now, id, l, None, None, FALSE), TargetOf(c)))
  BY <1>1 DEF Staged, BalanceAfter
<1>6. Made(bal, c, l) /\ (c.kind = "value_update" => l[1].by # 0)
  BY <1>4, Built
<1>7. PICK x : x = Activity(c.kind, at, t, Len(A) + 1, l, None, None, FALSE)
  OBVIOUS
<1>8. Fresh(A, t, c, l, at, x)
  BY <1>6, <1>7, NewActivity
<1>9. /\ x.eff = l
      /\ Observed(x) <=> c.kind = "value_update"
      /\ Recorded(x) <=> c.kind # "value_update"
  BY <1>8 DEF Fresh
<1>10. Observed(x) => TargetOf(c)[x.eff[1].on] \in Int
  <2>1. c.kind = "value_update" => TargetOf(c)[Value(c.account)] \in Int /\ l[1].on = Value(c.account)
    BY <1>6, TargetFacts DEF Made
  <2> QED  BY <1>9, <2>1
<1>11. M = Placed(L, n, Entry(Len(A) + 1, x, TargetOf(c)))
  BY <1>5, <1>7
<1>12. Stage(A, t, L, n, bal, c, at, l, x, M)
  BY <1>6, <1>7, <1>8, <1>9, <1>10, <1>11 DEF Stage
<1> QED  BY <1>12

(* Two elements at once, or one after the other. *)
LEMMA AppendTwice ==
    ASSUME NEW S, NEW A \in Seq(S), NEW x \in S, NEW y \in S
    PROVE  A \o <<x, y>> = Append(Append(A, x), y)
<1>1. PICK N, G, H, K : N = Len(A) /\ G = A \o <<x, y>> /\ H = Append(A, x) /\ K = Append(H, y)
  OBVIOUS
<1>2. /\ G \in Seq(S) /\ DOMAIN G = 1 .. N + 2 /\ N \in Nat
      /\ \A i \in 1 .. N : G[i] = A[i]
      /\ G[N + 1] = x /\ G[N + 2] = y
  BY <1>1, AppendTwo
<1>3. H \in Seq(S) /\ Len(H) = N + 1 /\ (\A i \in 1 .. N : H[i] = A[i]) /\ H[N + 1] = x
  BY <1>1, AppendFacts
<1>4. /\ K \in Seq(S) /\ DOMAIN K = 1 .. N + 2 /\ (\A i \in 1 .. N + 1 : K[i] = H[i])
      /\ K[N + 2] = y
  <2>1. /\ K \in Seq(S) /\ DOMAIN K = 1 .. Len(H) + 1 /\ (\A i \in 1 .. Len(H) : K[i] = H[i])
        /\ K[Len(H) + 1] = y
    BY <1>1, <1>3, AppendFacts
  <2>2. Len(H) + 1 = N + 2
    BY <1>2, <1>3
  <2> QED  BY <1>3, <2>1, <2>2
<1>5. \A i \in 1 .. N + 2 : G[i] = K[i]
  <2> TAKE i \in 1 .. N + 2
  <2>1. CASE i \in 1 .. N
    BY <1>2, <1>3, <1>4, <2>1
  <2>2. CASE i = N + 1
    BY <1>2, <1>3, <1>4, <2>2
  <2>3. CASE i = N + 2
    BY <1>2, <1>4, <2>3
  <2> QED  BY <1>2, <2>1, <2>2, <2>3
<1>6. G = [i \in 1 .. N + 2 |-> G[i]] /\ K = [i \in 1 .. N + 2 |-> K[i]]
  BY <1>2, <1>4
<1> QED  BY <1>1, <1>5, <1>6

(* A batch is placed among the other changes, and everything is replayed. *)
LEMMA RecordBatchOrder ==
    ASSUME LedgerAssumption, NEW s, InOrder(s), NEW c \in BatchMenu, NEW d \in BatchMenu,
           NEW at \in 0 .. LastInstant, NEW dat \in 0 .. LastInstant, RecordBatch(c, at, d, dat)
    PROVE  LInv'
<1>1. PICK L, E, N, t, A, V : /\ L = LineOf(acts, event, s) /\ E = ReplayMoneyEffects(L) /\ N = Len(acts)
                              /\ t = now /\ A = acts /\ V = event
  OBVIOUS
<1>2. /\ Sound(A, V, t, s) /\ History(A, t) /\ IsOrder(A, s) /\ N \in Nat /\ DOMAIN A = 1 .. N
      /\ t \in Nat /\ Timeline = L /\ current \in Wallets /\ IsReplay(L, E, Balances(E))
      /\ Len(L) = Len(s) /\ Len(s) \in Nat /\ V \in Seq(RowSets) /\ Len(V) = N
      /\ Targets(A, V)
  BY <1>1, LedgerFacts DEF InOrder, Timeline
<1>3. at \in Nat /\ dat \in Nat /\ at <= dat /\ dat <= t /\ at <= t
  <2>1. at \in Nat /\ dat \in Nat /\ at <= dat /\ dat <= t
    BY <1>1 DEF LedgerAssumption, RecordBatch
  <2> QED  BY <1>2, <2>1
<1>4. Fields(c) /\ Fields(d)
  BY CommandFields DEF LedgerAssumption
<1>0. PICK K \in Staged(L, N + 1, c, at) : \E M \in Staged(K, N + 1 + 1, d, dat) :
         WriteBatch(c, at, d, dat, M, ReplayMoneyEffects(M), ReplayMoneyEffects(M)[Position(M, N + 1)],
                    ReplayMoneyEffects(M)[Position(M, N + 1 + 1)])
  <2>1. \E K \in Staged(Timeline, NewId, c, at) : \E M \in Staged(K, NewId + 1, d, dat) :
         WriteBatch(c, at, d, dat, M, ReplayMoneyEffects(M), ReplayMoneyEffects(M)[Position(M, NewId)],
                    ReplayMoneyEffects(M)[Position(M, NewId + 1)])
    BY DEF RecordBatch, WriteBatch, Position
  <2>2. NewId = N + 1 /\ Timeline = L
    BY <1>1, <1>2 DEF NewId
  <2> QED  BY <2>1, <2>2
<1>5. PICK M \in Staged(K, N + 1 + 1, d, dat) :
         WriteBatch(c, at, d, dat, M, ReplayMoneyEffects(M), ReplayMoneyEffects(M)[Position(M, N + 1)],
                    ReplayMoneyEffects(M)[Position(M, N + 1 + 1)])
  BY <1>0
<1>6. PICK n, v, w : n = Behind(A, s, at) /\ v = TargetOf(c) /\ w = TargetOf(d)
  OBVIOUS
<1>7. PICK l, x : Stage(A, t, L, n, Balances(ReplayMoneyEffects(L))[n], c, at, l, x, K)
  <2>1. PICK bal, id : bal = Balances(ReplayMoneyEffects(L))[n] /\ id = N + 1
    OBVIOUS
  <2>2. K \in Staged(L, id, c, at) /\ id = Len(A) + 1 /\ t = now /\ L = LineOf(A, V, s)
    BY <1>1, <1>5, <2>1
  <2>3. History(A, t) /\ IsOrder(A, s) /\ Targets(A, V)
    BY <1>2
  <2>4. at \in Nat /\ at <= t /\ Fields(c)
    BY <1>3, <1>4
  <2>5. \E l, x : Stage(A, t, L, n, bal, c, at, l, x, K)
    BY <1>6, <2>1, <2>2, <2>3, <2>4, StageFacts
  <2> QED  BY <2>1, <2>5
<1>8. /\ x = Activity(c.kind, at, t, N + 1, l, None, None, FALSE)
      /\ New(A, x, t) /\ x.at = at
      /\ Recorded(x) \/ Observed(x)
      /\ Observed(x) => v[x.eff[1].on] \in Int
      /\ K = Placed(L, n, Entry(N + 1, x, v))
  BY <1>1, <1>6, <1>7 DEF Stage, Fresh
<1>9. PICK A1, V1, s1, S : /\ A1 = Append(A, x) /\ V1 = Append(V, v) /\ s1 = Placed(s, n, N + 1)
                           /\ S = RowSets \cup {v}
  OBVIOUS
<1>10. Grown(A, t, s, x, S, v, L, n, A1, V1, s1, K)
  <2>1. V \in Seq(S) /\ v \in S /\ Len(V) = Len(A)
    BY <1>1, <1>2, <1>9
  <2>2. History(A, t) /\ IsOrder(A, s) /\ Targets(A, V)
    BY <1>2
  <2>3. L = LineOf(A, V, s) /\ n = Behind(A, s, x.at)
    BY <1>1, <1>6, <1>8
  <2>4. s1 = Placed(s, n, Len(A) + 1) /\ K = Placed(L, n, Entry(Len(A) + 1, x, v))
    BY <1>1, <1>8, <1>9
  <2>5. New(A, x, t)
    BY <1>8
  <2>6. Observed(x) => v[x.eff[1].on] \in Int
    BY <1>8
  <2> QED  BY <1>9, <2>1, <2>2, <2>3, <2>4, <2>5, <2>6, GrownLine
<1>11. History(A1, t) /\ IsOrder(A1, s1) /\ Targets(A1, V1) /\ K = LineOf(A1, V1, s1) /\ Len(A1) = N + 1
  BY <1>1, <1>10 DEF Grown
<1>12. PICK q : q = Behind(A1, s1, dat)
  OBVIOUS
<1>13. N + 1 + 1 = N + 2 /\ Len(A1) + 1 = N + 2
  BY <1>2, <1>11
<1>14. PICK k, y : Stage(A1, t, K, q, Balances(ReplayMoneyEffects(K))[q], d, dat, k, y, M)
  <2>1. PICK bal, id : bal = Balances(ReplayMoneyEffects(K))[q] /\ id = N + 1 + 1
    OBVIOUS
  <2>2. M \in Staged(K, id, d, dat) /\ id = Len(A1) + 1 /\ t = now /\ K = LineOf(A1, V1, s1)
    BY <1>1, <1>5, <1>11, <1>13, <2>1
  <2>3. History(A1, t) /\ IsOrder(A1, s1) /\ Targets(A1, V1)
    BY <1>11
  <2>4. dat \in Nat /\ dat <= t /\ Fields(d)
    BY <1>3, <1>4
  <2>5. \E k, y : Stage(A1, t, K, q, bal, d, dat, k, y, M)
    BY <1>12, <2>1, <2>2, <2>3, <2>4, StageFacts
  <2> QED  BY <2>1, <2>5
<1>15. /\ y = Activity(d.kind, dat, t, N + 2, k, None, None, FALSE)
       /\ New(A1, y, t) /\ y.at = dat
       /\ Recorded(y) \/ Observed(y)
       /\ Observed(y) => w[y.eff[1].on] \in Int
       /\ M = Placed(K, q, Entry(N + 2, y, w))
  BY <1>6, <1>13, <1>14 DEF Stage, Fresh
<1>16. PICK u : u = Placed(s1, q, N + 2)
  OBVIOUS
<1>17. Paired(A, V, s, x, v, y, w, n, q, L, K, M, u)
  <2>1. History(A, t) /\ IsOrder(A, s)
    BY <1>2
  <2>2. New(A, x, t) /\ New(A1, y, t) /\ x.at <= y.at
    BY <1>3, <1>8, <1>15
  <2>3. V \in Seq(RowSets) /\ Len(V) = Len(A)
    BY <1>1, <1>2
  <2>4. Targets(A, V)
    BY <1>2
  <2>5. Observed(x) => v[x.eff[1].on] \in Int
    BY <1>8
  <2>6. Observed(y) => w[y.eff[1].on] \in Int
    BY <1>15
  <2>7. L = LineOf(A, V, s) /\ n = Behind(A, s, x.at) /\ q = Behind(A1, s1, y.at) /\ A1 = Append(A, x)
    BY <1>1, <1>6, <1>8, <1>9, <1>12, <1>15
  <2>8. K = Placed(L, n, Entry(Len(A) + 1, x, v)) /\ s1 = Placed(s, n, Len(A) + 1)
    BY <1>1, <1>8, <1>9
  <2>9. M = Placed(K, q, Entry(Len(A) + 2, y, w)) /\ u = Placed(s1, q, Len(A) + 2)
    BY <1>1, <1>15, <1>16
  <2> QED  BY <2>1, <2>2, <2>3, <2>4, <2>5, <2>6, <2>7, <2>8, <2>9, BatchLine
<1>18. /\ n \in 0 .. Len(s) /\ q \in 0 .. Len(s) + 1
       /\ IsLine(M) /\ Len(M) = Len(s) + 2 /\ M[n + 1] = Entry(N + 1, x, v)
       /\ M[q + 1] = Entry(N + 2, y, w)
  BY <1>1, <1>17 DEF Paired
<1>19. n + 1 \in 1 .. Len(M) /\ q + 1 \in 1 .. Len(M) /\ DOMAIN M = 1 .. Len(M) /\ Len(M) \in 0 .. Len(M)
  <2>1. DOMAIN M = 1 .. Len(M)
    BY <1>18 DEF IsLine
  <2> QED  BY <1>2, <1>18, <2>1
<1>20. Position(M, N + 1) = n + 1 /\ Position(M, N + 2) = q + 1
  <2>1. M[n + 1].id = N + 1 /\ M[q + 1].id = N + 2
    BY <1>18, EntryFields
  <2>2. \A i, j \in 1 .. Len(M) : M[i].id = M[j].id => i = j
    BY <1>18 DEF IsLine
  <2> QED  BY <1>19, <2>1, <2>2 DEF Position
<1>21. PICK F, one, two, final, a, b, row, last :
         /\ F = ReplayMoneyEffects(M) /\ one = F[n + 1] /\ two = F[q + 1] /\ final = Final(F)
         /\ a = Activity(c.kind, at, t, N + 1, one, None, None, FALSE)
         /\ b = Activity(d.kind, dat, t, N + 2, two, None, None, FALSE)
         /\ row = Rows(final, one) /\ last = Rows(final, two)
  OBVIOUS
<1>22. WriteBatch(c, at, d, dat, M, F, one, two)
  BY <1>5, <1>13, <1>20, <1>21
<1>23. /\ Replays(F) /\ one # <<>> /\ two # <<>>
       /\ acts' = A \o <<a, b>>
       /\ event' = Rebuilt(V \o <<row, last>>, M, F, 0, FALSE)
       /\ current' = Refreshed(final, Touched(one) \cup Touched(two))
  <2>1. NewId = N + 1 /\ NewId + 1 = N + 2
    BY <1>1, <1>13 DEF NewId
  <2> QED  BY <1>1, <1>21, <1>22, <2>1 DEF WriteBatch
<1>24. IsReplay(M, F, Balances(F)) /\ Len(F) = Len(M)
  BY <1>18, <1>21, ReplayFacts
<1>25. Remade(A, t, N + 1, x, v, one, a)
  <2>1. IsReplay(M, F, Balances(F))
    BY <1>24
  <2>2. Copy(x, one, a)
    BY <1>8, <1>21 DEF Copy
  <2>3. M[n + 1] = Entry(N + 1, x, v) /\ n + 1 \in 1 .. Len(M)
    BY <1>18, <1>19
  <2>4. New(A, x, t) /\ (Recorded(x) \/ Observed(x))
    BY <1>8
  <2>5. one = F[n + 1] /\ one # <<>>
    BY <1>21, <1>23
  <2> QED  BY <2>1, <2>2, <2>3, <2>4, <2>5, BatchActivity
<1>26. Remade(A1, t, N + 2, y, w, two, b)
  <2>1. IsReplay(M, F, Balances(F))
    BY <1>24
  <2>2. Copy(y, two, b)
    BY <1>15, <1>21 DEF Copy
  <2>3. M[q + 1] = Entry(N + 2, y, w) /\ q + 1 \in 1 .. Len(M)
    BY <1>18, <1>19
  <2>4. New(A1, y, t) /\ (Recorded(y) \/ Observed(y))
    BY <1>15
  <2>5. two = F[q + 1] /\ two # <<>>
    BY <1>21, <1>23
  <2> QED  BY <2>1, <2>2, <2>3, <2>4, <2>5, BatchActivity
<1>27. final \in Wallets
  BY <1>19, <1>21, <1>24 DEF IsReplay, Final, BalanceAfter
<1>28. /\ a.eff = one /\ a.at = x.at /\ a \in Acts /\ b.eff = two /\ b.at = y.at /\ b \in Acts
       /\ \A B : Len(B) = Len(A) => New(B, a, t)
       /\ \A B : Len(B) = Len(A1) => New(B, b, t)
  BY <1>25, <1>26 DEF Remade
<1>29. row \in RowSets /\ DOMAIN row = Touched(a.eff) /\ last \in RowSets /\ DOMAIN last = Touched(b.eff)
  <2>1. Rows(final, one) \in RowSets /\ DOMAIN Rows(final, one) = Touched(one)
    BY <1>27, RowsFacts
  <2>2. Rows(final, two) \in RowSets /\ DOMAIN Rows(final, two) = Touched(two)
    BY <1>27, RowsFacts
  <2> QED  BY <1>21, <1>28, <2>1, <2>2
<1>30. Sound(Append(Append(A, a), b), Append(Append(V, row), last), t, u)
  <2>1. Sound(A, V, t, s)
    BY <1>2
  <2>2. New(A, x, t) /\ New(A1, y, t) /\ A1 = Append(A, x)
    BY <1>8, <1>9, <1>15
  <2>3. n = Behind(A, s, x.at) /\ q = Behind(A1, s1, y.at)
    BY <1>6, <1>8, <1>12, <1>15
  <2>4. s1 = Placed(s, n, Len(A) + 1) /\ u = Placed(s1, q, Len(A) + 2)
    BY <1>1, <1>9, <1>16
  <2>5. a.at = x.at /\ b.at = y.at /\ a \in Acts
    BY <1>28
  <2>6. \A B : Len(B) = Len(A) => New(B, a, t)
    BY <1>28
  <2>7. \A B : Len(B) = Len(A1) => New(B, b, t)
    BY <1>28
  <2> QED  BY <1>29, <2>1, <2>2, <2>3, <2>4, <2>5, <2>6, <2>7, BatchSound, ZenonT(30)
<1>31. Batched(A, V, current, t, a, b, row, last, M, F, u)
  <2>1. PICK cur : cur = current
    OBVIOUS
  <2>2. Ledger(A, V, cur, t, s)
    BY <1>1, <2>1 DEF InOrder
  <2>3. L = LineOf(A, V, s) /\ F = ReplayMoneyEffects(M) /\ Replays(F) /\ Len(A1) = Len(A) + 1
    BY <1>1, <1>11, <1>21, <1>23
  <2>4. Remade(A, t, Len(A) + 1, x, v, F[n + 1], a) /\ F[n + 1] # <<>>
    BY <1>1, <1>21, <1>23, <1>25
  <2>5. Remade(A1, t, Len(A) + 2, y, w, F[q + 1], b) /\ F[q + 1] # <<>>
    BY <1>1, <1>21, <1>23, <1>26
  <2>6. Batched(A, V, cur, t, a, b, row, last, M, F, u)
    BY <1>17, <1>30, <2>2, <2>3, <2>4, <2>5, BatchLedger
  <2> QED  BY <2>1, <2>6
<1>32. A \o <<a, b>> = Append(Append(A, a), b) /\ V \o <<row, last>> = Append(Append(V, row), last)
  <2>1. A \in Seq(Acts)
    BY <1>2 DEF History
  <2>2. A \o <<a, b>> = Append(Append(A, a), b)
    BY <1>28, <2>1, AppendTwice
  <2>3. V \o <<row, last>> = Append(Append(V, row), last)
    BY <1>2, <1>29, AppendTwice
  <2> QED  BY <2>2, <2>3
<1>33. /\ Ledger(A \o <<a, b>>, Rebuilt(V \o <<row, last>>, M, F, 0, FALSE), Final(F), t, u)
       /\ \A e \in Endpoints \ (Touched(one) \cup Touched(two)) : final[e] = current[e]
  <2>1. /\ Ledger(Append(Append(A, a), b), Rebuilt(Append(Append(V, row), last), M, F, 0, FALSE), Final(F), t, u)
        /\ \A e \in Endpoints \ (Touched(a.eff) \cup Touched(b.eff)) : Final(F)[e] = current[e]
    BY <1>31 DEF Batched
  <2>2. \A e \in Endpoints \ (Touched(one) \cup Touched(two)) : final[e] = current[e]
    BY <1>21, <1>28, <2>1
  <2> QED  BY <1>32, <2>1, <2>2
<1>34. current' = Final(F)
  <2>1. PICK T : T = Touched(one) \cup Touched(two)
    OBVIOUS
  <2>2. \A e \in Endpoints \ T : final[e] = current[e]
    BY <1>33, <2>1
  <2>3. Refreshed(final, T) = final
    BY <1>2, <1>27, <2>2, RefreshedAll
  <2> QED  BY <1>21, <1>23, <2>1, <2>3
<1>35. now' = t
  BY <1>1 DEF RecordBatch
<1>36. Ledger(acts', event', current', now', u)
  BY <1>23, <1>33, <1>34, <1>35
<1> QED  BY <1>36 DEF LInv, InOrder
-----------------------------------------------------------------------------
(* The theorems *)

(* Every step of the service keeps the ledger in order. *)
LEMMA NextOrder ==
    ASSUME LedgerAssumption, LInv, [Next]_vars
    PROVE  LInv'
<1>1. PICK s : InOrder(s)
  BY DEF LInv
<1>2. CASE \E c \in Menu : RecordNow(c)
  BY <1>1, <1>2, RecordNowOrder
<1>3. CASE \E c \in Menu, at \in 0 .. LastInstant : RecordEarlier(c, at)
  BY <1>1, <1>3, RecordEarlierOrder
<1>4. CASE \E c, d \in BatchMenu, at, dat \in 0 .. LastInstant : RecordBatch(c, at, d, dat)
  BY <1>1, <1>4, RecordBatchOrder
<1>5. CASE \E i \in DOMAIN acts, at \in 0 .. LastInstant : UndoChange(i, at)
  BY <1>1, <1>5, UndoOrder
<1>6. CASE \E i \in DOMAIN acts, c \in Menu : FixChange(i, c)
  BY <1>1, <1>6, FixChangeOrder
<1>7. CASE RebuildDerivedData
  BY <1>1, <1>7, RebuildOrder
<1>8. CASE Tick
  BY <1>1, <1>8, TickOrder
<1>9. CASE UNCHANGED vars
  <2>1. acts' = acts /\ event' = event /\ current' = current /\ now' = now
    BY <1>9 DEF vars
  <2>2. Ledger(acts', event', current', now', s)
    BY <1>1, <2>1 DEF InOrder
  <2> QED  BY <2>2 DEF LInv, InOrder
<1> QED  BY <1>2, <1>3, <1>4, <1>5, <1>6, <1>7, <1>8, <1>9 DEF Next

(* The inductive invariant: after any changes, back-dated changes, batches, undos, fixes and
   rebuilds the history is well formed, its timeline has an order, the stored rows are those
   of a replay of it and the stored current values are its result. *)
THEOREM LedgerStaysInOrder == Spec => []LInv
<1>1. LedgerAssumption
  BY LedgerAssumption
<1>2. Init => LInv
  BY <1>1, InitOrder
<1>3. LInv /\ [Next]_vars => LInv'
  BY <1>1, NextOrder
<1> QED  BY <1>2, <1>3, PTL DEF Spec

(* What a ledger in order shows of its timeline. *)
LEMMA OrderedFacts ==
    ASSUME LedgerAssumption, LInv
    PROVE  \E s, L, E :
             /\ Timeline = L /\ ReplayMoneyEffects(Timeline) = E
             /\ L = LineOf(acts, event, s) /\ Len(L) = Len(s) /\ Len(s) \in Nat
             /\ IsReplay(L, E, Balances(E)) /\ Shown(L, E) /\ Replays(E) /\ current = Final(E)
             /\ Sound(acts, event, now, s)
<1>1. PICK s : InOrder(s)
  BY DEF LInv
<1>2. PICK L, E : L = LineOf(acts, event, s) /\ E = ReplayMoneyEffects(L)
  OBVIOUS
<1>3. /\ Sound(acts, event, now, s) /\ Len(L) = Len(s) /\ Len(s) \in Nat
      /\ IsReplay(L, E, Balances(E)) /\ Timeline = L
  BY <1>1, <1>2, LedgerFacts DEF InOrder, Timeline
<1>4. Shown(L, E) /\ Replays(E) /\ current = Final(E)
  BY <1>1, <1>2 DEF InOrder, Ledger
<1> QED  BY <1>2, <1>3, <1>4

(* The stored current values are always the result of a replay of the whole history. *)
THEOREM CurrentValuesAreReplay == Spec => []CurrentIsReplay
<1>1. LInv => CurrentIsReplay
  BY LedgerAssumption, OrderedFacts DEF CurrentIsReplay
<1> QED  BY <1>1, LedgerStaysInOrder, PTL

(* The history can always be replayed without a negative balance: no accepted change blocks
   the changes and rebuilds after it. *)
THEOREM HistoryAlwaysReplays == Spec => []HistoryReplays
<1>1. LInv => HistoryReplays
  BY LedgerAssumption, OrderedFacts DEF HistoryReplays
<1> QED  BY <1>1, LedgerStaysInOrder, PTL

(* In every replay of the history a reversal takes back what its original contributes in that
   replay. *)
THEOREM ReversalsAlwaysCancel == Spec => []ReversalsCancel
<1>1. ASSUME LInv
      PROVE  ReversalsCancel
  <2>1. PICK s, L, E : Timeline = L /\ ReplayMoneyEffects(Timeline) = E /\ IsReplay(L, E, Balances(E))
    BY <1>1, LedgerAssumption, OrderedFacts
  <2>2. IsLine(L)
    BY <2>1 DEF IsReplay
  <2>3. ASSUME NEW n \in DOMAIN L, L[n].reverses # None
        PROVE  \E m \in 1 .. n - 1 : L[m].id = L[n].reverses /\ E[n] = InverseOf(E[m])
    <3>1. n \in 1 .. Len(L)
      BY <2>2, <2>3 DEF IsLine
    <3>2. PICK m \in 1 .. n - 1 : L[n].reverses = L[m].id /\ Undoes(L[n], L[m])
      BY <2>2, <2>3, <3>1 DEF IsLine, Recorded, Observed
    <3>3. IsReplay(L, E, Balances(E))
      BY <2>1
    <3>4. E[n] = InverseOf(E[m])
      BY <3>1, <3>2, <3>3, UndoCancels
    <3> QED  BY <3>2, <3>4
  <2> QED  BY <2>1, <2>3 DEF ReversalsCancel
<1>2. LInv => ReversalsCancel
  BY <1>1
<1> QED  BY <1>2, LedgerStaysInOrder, PTL

(* The event rows of every activity with an economic effect, and of every value update, hold
   the balances that a replay of the whole history has after it. *)
THEOREM EventRowsAreReplayed == Spec => []EventRowsReplayed
<1>1. ASSUME LInv
      PROVE  EventRowsReplayed
  <2>1. PICK s, L, E : /\ Timeline = L /\ ReplayMoneyEffects(Timeline) = E
                       /\ L = LineOf(acts, event, s) /\ Len(L) = Len(s) /\ Len(s) \in Nat
                       /\ IsReplay(L, E, Balances(E)) /\ Shown(L, E)
                       /\ Sound(acts, event, now, s)
    BY <1>1, LedgerAssumption, OrderedFacts
  <2>2. IsLine(L) /\ IsOrder(acts, s)
    BY <2>1 DEF IsReplay, Sound
  <2>3. ASSUME NEW n \in DOMAIN L, E[n] # <<>> \/ L[n].kind = "value_update"
        PROVE  RowsAreBalances(L, E, n)
    <3>1. n \in 1 .. Len(L) /\ n \in 1 .. Len(s)
      BY <2>1, <2>2, <2>3 DEF IsLine
    <3>2. L[n] = Entry(s[n], acts[s[n]], event[s[n]]) /\ s[n] \in DOMAIN acts
      BY <2>1, <2>2, <3>1 DEF LineOf, IsOrder
    <3>3. L[n].id = s[n] /\ L[n].seen = event[s[n]] /\ L[n].eff = acts[s[n]].eff
      BY <3>2, EntryFields
    <3>4. DOMAIN event[L[n].id] = Touched(L[n].eff)
      BY <2>1, <3>2, <3>3 DEF Sound
    <3>5. \A e \in Touched(L[n].eff) : L[n].seen[e] = Balances(E)[n][e]
      <4>1. CASE E[n] # <<>>
        BY <2>1, <3>1, <4>1 DEF Shown
      <4>2. CASE L[n].kind = "value_update"
        <5>1. Observed(L[n])
          BY <2>2, <3>1, <4>2 DEF IsLine, Recorded, Undoes
        <5>2. Hits(L[n], E[n], Balances(E)[n - 1], Balances(E)[n])
          BY <2>1, <3>1, <5>1, ObservedHits
        <5> QED  BY <5>2 DEF Hits
      <4> QED  BY <2>3, <4>1, <4>2
    <3> QED  BY <3>3, <3>4, <3>5 DEF RowsAreBalances, BalanceAfter
  <2> QED  BY <2>1, <2>3 DEF EventRowsReplayed
<1>2. LInv => EventRowsReplayed
  BY <1>1
<1> QED  BY <1>2, LedgerStaysInOrder, PTL
===============================================================================
