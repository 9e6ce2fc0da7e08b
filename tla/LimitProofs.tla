----------------------------- MODULE LimitProofs -----------------------------
(***************************************************************************)
(* Proofs about what is held to a limit: the daily caps of CapLedger, and  *)
(* the two parts of LimitParts, the rules under calls and the ledger that  *)
(* model calls and voice calls spend on. What the runs show on two or      *)
(* three calls is proved for every set of calls, amounts, rules and grants *)
(* and every bound.                                                        *)
(*                                                                         *)
(* All of them need sums over finite sets. SumFunctionOnSet folds a set in *)
(* an order of its own choice: here it is shown that the order does not    *)
(* matter, so that adding a member adds its value, and that a part of a    *)
(* sum of natural numbers is at most the whole. Each induction is over     *)
(* sizes, by a smallest counterexample.                                    *)
(*                                                                         *)
(* The caps are kept by what a call that holds the mutex knows: from the   *)
(* moment it was found to fit until its decision is written, it fits       *)
(* beside everything the rules have allowed (RoomOK). That stays true      *)
(* since nobody else decides by rule meanwhile (LockOK), and since what    *)
(* operators approve, which the total it read includes, has no negative    *)
(* amount (AmountOK).                                                      *)
(*                                                                         *)
(* The books match because the last row alone is pending and still fits    *)
(* what its day has spent, and totals are the sums of the settled rows.    *)
(* What a rule lets through stays within its caps because it was judged on *)
(* the total of all that stands, which is at least that of its own calls   *)
(* as long as no human made room in it.                                    *)
(***************************************************************************)
EXTENDS CapLedger, PermitStoreProofs, LimitParts, Integers, FiniteSets, Functions, FiniteSetTheorems,
        SequenceTheorems, WellFoundedInduction, TLAPS

\* The fold: the member taken first, and the equation its function is chosen by.
Pick(s) == CHOOSE x \in s : TRUE
Step(F, f, s) == IF s = {} THEN 0 ELSE F[Pick(s)] + f[s \ {Pick(s)}]
Iter(F, S) == CHOOSE f : f = [s \in SUBSET S |-> Step(F, f, s)]

\* What a sum is of: a finite set, an integer for each member.
Summable(F, S) == IsFiniteSet(S) /\ \A x \in S : F[x] \in Int

\* The members up to a size.
Small(S, n) == {s \in SUBSET S : Cardinality(s) <= n}

\* The member taken first is one.
LEMMA Picked ==
    ASSUME NEW s, s # {}
    PROVE  Pick(s) \in s
  BY DEF Pick

\* A part without one member is smaller by one.
LEMMA OneLess ==
    ASSUME NEW s, IsFiniteSet(s), NEW x \in s
    PROVE  /\ IsFiniteSet(s \ {x}) /\ Cardinality(s) \in Nat /\ Cardinality(s \ {x}) \in Nat
           /\ Cardinality(s) = Cardinality(s \ {x}) + 1
  <1>1. IsFiniteSet(s \ {x}) /\ Cardinality(s \ {x}) = Cardinality(s) - 1
    BY FS_RemoveElement
  <1>2. Cardinality(s) \in Nat /\ Cardinality(s \ {x}) \in Nat
    BY <1>1, FS_CardinalityType
  <1> QED
    BY <1>1, <1>2

\* What holds of each size whose predecessors it holds of holds of every size.
LEMMA Sizes ==
    ASSUME NEW T, T \subseteq Nat,
           \A n \in Nat : (\A m \in Nat : m < n => m \notin T) => n \notin T
    PROVE  T = {}
  <1>1. SUFFICES ASSUME T # {} PROVE FALSE
    OBVIOUS
  <1>2. PICK n \in T : \A m \in T : ~(<<m, n>> \in OpToRel(<, Nat))
    BY <1>1, NatLessThanWellFounded, WFMin, Zenon
  <1>3. \A m \in Nat : m < n => m \notin T
    BY <1>2 DEF OpToRel
  <1> QED
    BY <1>2, <1>3

\* There is a function that satisfies the equation up to each size ...
LEMMA IterUpTo ==
    ASSUME NEW F, NEW S, Summable(F, S), NEW n \in Nat
    PROVE  \E g \in [Small(S, n) -> Int] : \A s \in Small(S, n) : g[s] = Step(F, g, s)
  <1> DEFINE Fits(k) == \E g \in [Small(S, k) -> Int] : \A s \in Small(S, k) : g[s] = Step(F, g, s)
             Bad == {k \in Nat : ~Fits(k)}
  <1>1. ASSUME NEW s \in SUBSET S
        PROVE  IsFiniteSet(s) /\ Cardinality(s) \in Nat /\ (Cardinality(s) = 0 <=> s = {})
    BY <1>1, FS_Subset, FS_CardinalityType, FS_EmptySet DEF Summable
  <1>2. Fits(0)
    <2> DEFINE g == [s \in Small(S, 0) |-> 0]
    <2>1. \A s \in Small(S, 0) : s = {}
      BY <1>1 DEF Small
    <2>2. g \in [Small(S, 0) -> Int] /\ \A s \in Small(S, 0) : g[s] = Step(F, g, s)
      BY <2>1 DEF Step
    <2> QED
      BY <2>2
  <1>3. ASSUME NEW k \in Nat, Fits(k)
        PROVE  Fits(k + 1)
    <2>1. PICK g \in [Small(S, k) -> Int] : \A s \in Small(S, k) : g[s] = Step(F, g, s)
      BY <1>3
    <2> DEFINE h == [s \in Small(S, k + 1) |-> Step(F, g, s)]
    <2>2. ASSUME NEW s \in Small(S, k + 1), s # {}
          PROVE  s \ {Pick(s)} \in Small(S, k) /\ F[Pick(s)] \in Int
      BY <2>2, <1>1, Picked, OneLess DEF Small, Summable
    <2>3. \A s \in Small(S, k + 1) : Step(F, g, s) \in Int
      BY <2>1, <2>2 DEF Step
    <2>4. Small(S, k) \subseteq Small(S, k + 1)
      BY <1>1 DEF Small
    <2>5. \A s \in Small(S, k) : h[s] = g[s]
      BY <2>1, <2>4
    <2>6. \A s \in Small(S, k + 1) : h[s] = Step(F, h, s)
      BY <2>2, <2>5 DEF Step
    <2>7. h \in [Small(S, k + 1) -> Int]
      BY <2>3
    <2> HIDE DEF h
    <2> QED
      BY <2>6, <2>7
  <1>4. \A k \in Nat : (\A m \in Nat : m < k => m \notin Bad) => k \notin Bad
    <2> SUFFICES ASSUME NEW k \in Nat, \A m \in Nat : m < k => m \notin Bad
                 PROVE  Fits(k)
      OBVIOUS
    <2>1. CASE k = 0
      BY <1>2, <2>1
    <2>2. CASE k # 0
      <3>1. k - 1 \in Nat /\ k - 1 < k /\ (k - 1) + 1 = k
        BY <2>2
      <3>2. Fits(k - 1)
        BY <3>1
      <3> HIDE DEF Fits
      <3> QED
        BY <1>3, <3>1, <3>2
    <2> QED
      BY <2>1, <2>2
  <1>5. Bad = {}
    <2> HIDE DEF Fits
    <2> QED
      BY <1>4, Sizes
  <1> QED
    BY <1>5

\* ... hence on all parts of the set, and the fold is one.
LEMMA IterIs ==
    ASSUME NEW F, NEW S, Summable(F, S)
    PROVE  /\ Iter(F, S) \in [SUBSET S -> Int]
           /\ \A s \in SUBSET S : Iter(F, S)[s] = Step(F, Iter(F, S), s)
  <1> DEFINE N == Cardinality(S)
  <1>1. N \in Nat /\ Small(S, N) = SUBSET S
    <2>1. \A s \in SUBSET S : Cardinality(s) <= N
      BY FS_Subset DEF Summable
    <2> QED
      BY <2>1, FS_CardinalityType DEF Summable, Small
  <1>2. PICK g \in [SUBSET S -> Int] : \A s \in SUBSET S : g[s] = Step(F, g, s)
    <2>1. \E g \in [Small(S, N) -> Int] : \A s \in Small(S, N) : g[s] = Step(F, g, s)
      <3> HIDE DEF N
      <3> QED
        BY <1>1, IterUpTo
    <2> QED
      BY <1>1, <2>1, Zenon
  <1>3. g = [s \in SUBSET S |-> Step(F, g, s)]
    BY <1>2
  <1>4. Iter(F, S) = [s \in SUBSET S |-> Step(F, Iter(F, S), s)]
    BY <1>3, Zenon DEF Iter
  <1> DEFINE f == Iter(F, S)
  <1>5. \A s \in SUBSET S : f[s] = Step(F, f, s)
    <2> HIDE DEF f
    <2> QED
      BY <1>4 DEF f
  <1>6. f = g
    <2> DEFINE Differ == {s \in SUBSET S : f[s] # g[s]}
               Bad == {Cardinality(s) : s \in Differ}
    <2>1. \A s \in SUBSET S : IsFiniteSet(s) /\ Cardinality(s) \in Nat
      BY FS_Subset, FS_CardinalityType DEF Summable
    <2>2. ASSUME NEW s \in SUBSET S, \A t \in SUBSET S : Cardinality(t) < Cardinality(s) => f[t] = g[t]
          PROVE  f[s] = g[s]
      <3>1. CASE s = {}
        BY <1>2, <1>5, <3>1 DEF Step
      <3>2. CASE s # {}
        <4>1. s \ {Pick(s)} \in SUBSET S /\ Cardinality(s \ {Pick(s)}) < Cardinality(s)
          BY <2>1, <3>2, Picked, OneLess
        <4>2. f[s \ {Pick(s)}] = g[s \ {Pick(s)}]
          BY <2>2, <4>1
        <4> HIDE DEF f
        <4> QED
          BY <1>2, <1>5, <3>2, <4>2 DEF Step
      <3> QED
        BY <3>1, <3>2
    <2>3. \A n \in Nat : (\A m \in Nat : m < n => m \notin Bad) => n \notin Bad
      <3> HIDE DEF f
      <3> QED
        BY <2>1, <2>2
    <2>4. Bad = {}
      <3>1. Bad \subseteq Nat
        BY <2>1
      <3> HIDE DEF Bad
      <3> QED
        BY <2>3, <3>1, Sizes
    <2>5. \A s \in SUBSET S : f[s] = g[s]
      BY <2>4
    <2>6. f = [s \in SUBSET S |-> f[s]] /\ g = [s \in SUBSET S |-> g[s]]
      <3>1. f = [s \in SUBSET S |-> Step(F, f, s)]
        BY <1>4
      <3> HIDE DEF f
      <3> QED
        BY <1>2, <1>5, <3>1
    <2> HIDE DEF f
    <2> QED
      BY <2>5, <2>6
  <1> QED
    BY <1>2, <1>5, <1>6

-----------------------------------------------------------------------------
\* The sum is the fold's value.
LEMMA SumIs ==
    ASSUME NEW F, NEW S
    PROVE  SumFunctionOnSet(F, S) = Iter(F, S)[S]
  BY Zenon DEF SumFunctionOnSet, FoldFunctionOnSet, MapThenFoldSet, Iter, Step, Pick

\* The folds over two sets, of functions that agree, agree on common parts.
LEMMA SameIter ==
    ASSUME NEW F, NEW G, NEW S, NEW T, Summable(F, S), Summable(G, T),
           NEW s0 \in SUBSET S, s0 \in SUBSET T, \A x \in s0 : F[x] = G[x]
    PROVE  Iter(F, S)[s0] = Iter(G, T)[s0]
  <1> DEFINE f == Iter(F, S)
             g == Iter(G, T)
             Differ == {s \in SUBSET s0 : f[s] # g[s]}
             Bad == {Cardinality(s) : s \in Differ}
  <1>1. \A s \in SUBSET s0 : f[s] = Step(F, f, s) /\ g[s] = Step(G, g, s)
    <2>1. \A s \in SUBSET S : f[s] = Step(F, f, s)
      BY IterIs
    <2>2. \A s \in SUBSET T : g[s] = Step(G, g, s)
      BY IterIs
    <2> HIDE DEF f, g
    <2> QED
      BY <2>1, <2>2
  <1>2. \A s \in SUBSET s0 : IsFiniteSet(s) /\ Cardinality(s) \in Nat
    BY FS_Subset, FS_CardinalityType DEF Summable
  <1>3. ASSUME NEW s \in SUBSET s0, \A t \in SUBSET s0 : Cardinality(t) < Cardinality(s) => f[t] = g[t]
        PROVE  f[s] = g[s]
    <2>1. CASE s = {}
      BY <1>1, <2>1 DEF Step
    <2>2. CASE s # {}
      <3>1. /\ Pick(s) \in s0 /\ s \ {Pick(s)} \in SUBSET s0
            /\ Cardinality(s \ {Pick(s)}) < Cardinality(s)
        BY <1>2, <2>2, Picked, OneLess
      <3>2. f[s \ {Pick(s)}] = g[s \ {Pick(s)}]
        BY <1>3, <3>1
      <3>3. F[Pick(s)] = G[Pick(s)]
        BY <3>1
      <3> HIDE DEF f, g
      <3> QED
        BY <1>1, <2>2, <3>2, <3>3 DEF Step
    <2> QED
      BY <2>1, <2>2
  <1>4. \A n \in Nat : (\A m \in Nat : m < n => m \notin Bad) => n \notin Bad
    <2> HIDE DEF f, g
    <2> QED
      BY <1>2, <1>3
  <1>5. Bad \subseteq Nat
    BY <1>2
  <1>6. Bad = {}
    <2> HIDE DEF Bad
    <2> QED
      BY <1>4, <1>5, Sizes
  <1>7. \A s \in SUBSET s0 : f[s] = g[s]
    <2> HIDE DEF f, g
    <2> QED
      BY <1>6
  <1> QED
    BY <1>7

\* A sum of integers is an integer, nothing sums to 0, and the member taken
\* first adds its value to the sum of the others.
LEMMA SumTakesOne ==
    ASSUME NEW F, NEW S, Summable(F, S)
    PROVE  /\ SumFunctionOnSet(F, S) \in Int
           /\ SumFunctionOnSet(F, {}) = 0
           /\ S # {} => SumFunctionOnSet(F, S) = F[Pick(S)] + SumFunctionOnSet(F, S \ {Pick(S)})
  <1>1. SumFunctionOnSet(F, S) \in Int
    <2>1. Iter(F, S) \in [SUBSET S -> Int] /\ S \in SUBSET S
      BY IterIs
    <2> QED
      BY <2>1, SumIs
  <1>2. SumFunctionOnSet(F, {}) = 0
    <2>1. Summable(F, {})
      BY FS_EmptySet DEF Summable
    <2> QED
      BY <2>1, SumIs, IterIs DEF Step
  <1>3. ASSUME S # {}
        PROVE  SumFunctionOnSet(F, S) = F[Pick(S)] + SumFunctionOnSet(F, S \ {Pick(S)})
    <2> DEFINE R == S \ {Pick(S)}
    <2>1. Summable(F, R)
      BY FS_Subset DEF Summable
    <2>2. Iter(F, S)[R] = Iter(F, R)[R]
      BY <2>1, SameIter
    <2>3. Iter(F, S)[S] = F[Pick(S)] + Iter(F, S)[R]
      <3>1. Iter(F, S)[S] = Step(F, Iter(F, S), S)
        <4>1. S \in SUBSET S
          OBVIOUS
        <4> QED
          BY <4>1, IterIs
      <3> QED
        BY <1>3, <3>1 DEF Step
    <2> QED
      BY <2>2, <2>3, SumIs
  <1> QED
    BY <1>1, <1>2, <1>3

\* Functions that agree on a set have the same sum over it.
LEMMA SameSum ==
    ASSUME NEW F, NEW G, NEW S, Summable(F, S), \A x \in S : F[x] = G[x]
    PROVE  SumFunctionOnSet(F, S) = SumFunctionOnSet(G, S)
  <1>1. Summable(G, S)
    BY DEF Summable
  <1> QED
    BY <1>1, SameIter, SumIs

\* Any member may be taken first.
LEMMA SumTakesAny ==
    ASSUME NEW F, NEW S, Summable(F, S), NEW y \in S
    PROVE  SumFunctionOnSet(F, S) = F[y] + SumFunctionOnSet(F, S \ {y})
  <1> DEFINE Sum(s) == SumFunctionOnSet(F, s)
             Orders(s) == \A x \in s : Sum(s) = F[x] + Sum(s \ {x})
             Bad == {Cardinality(s) : s \in {s \in SUBSET S : ~Orders(s)}}
  <1>1. \A s \in SUBSET S : Summable(F, s) /\ IsFiniteSet(s) /\ Cardinality(s) \in Nat
    BY FS_Subset, FS_CardinalityType DEF Summable
  <1>2. \A s \in SUBSET S : Sum(s) \in Int
    BY <1>1, SumTakesOne
  <1>3. ASSUME NEW s \in SUBSET S, \A t \in SUBSET S : Cardinality(t) < Cardinality(s) => Orders(t)
        PROVE  Orders(s)
    <2> SUFFICES ASSUME NEW x \in s
                 PROVE  Sum(s) = F[x] + Sum(s \ {x})
      OBVIOUS
    <2> DEFINE p == Pick(s)
    <2>1. p \in s /\ Sum(s) = F[p] + Sum(s \ {p})
      BY <1>1, Picked, SumTakesOne
    <2>2. CASE x = p
      BY <2>1, <2>2
    <2>3. CASE x # p
      <3>1. x \in s \ {p} /\ p \in s \ {x}
        BY <2>1, <2>3
      <3>2. Cardinality(s \ {p}) < Cardinality(s) /\ Cardinality(s \ {x}) < Cardinality(s)
        BY <1>1, <2>1, OneLess
      <3>3. Orders(s \ {p}) /\ Orders(s \ {x})
        BY <1>3, <3>2
      <3>4. (s \ {p}) \ {x} = (s \ {x}) \ {p}
        OBVIOUS
      <3>5. Sum(s \ {p}) = F[x] + Sum((s \ {p}) \ {x}) /\ Sum(s \ {x}) = F[p] + Sum((s \ {p}) \ {x})
        <4> HIDE DEF Sum, p
        <4> QED
          BY <3>1, <3>3, <3>4
      <3>6. F[x] \in Int /\ F[p] \in Int /\ Sum((s \ {p}) \ {x}) \in Int
        BY <1>2, <2>1 DEF Summable
      <3> HIDE DEF Sum, p
      <3> QED
        BY <2>1, <3>5, <3>6
    <2> QED
      BY <2>2, <2>3
  <1>4. \A n \in Nat : (\A m \in Nat : m < n => m \notin Bad) => n \notin Bad
    <2> HIDE DEF Orders
    <2> QED
      BY <1>1, <1>3
  <1>5. Bad \subseteq Nat
    BY <1>1
  <1>6. Bad = {}
    <2> HIDE DEF Bad
    <2> QED
      BY <1>4, <1>5, Sizes
  <1>7. Orders(S)
    <2> HIDE DEF Orders
    <2> QED
      BY <1>6
  <1> QED
    BY <1>7

\* A new member adds its value.
THEOREM SumAdds ==
    ASSUME NEW F, NEW S, NEW y, y \notin S, Summable(F, S), F[y] \in Int
    PROVE  /\ Summable(F, S \cup {y})
           /\ SumFunctionOnSet(F, S \cup {y}) = SumFunctionOnSet(F, S) + F[y]
  <1>1. Summable(F, S \cup {y})
    BY FS_AddElement DEF Summable
  <1>2. (S \cup {y}) \ {y} = S
    OBVIOUS
  <1>3. SumFunctionOnSet(F, S \cup {y}) = F[y] + SumFunctionOnSet(F, S)
    <2>1. y \in S \cup {y}
      OBVIOUS
    <2> QED
      BY <1>1, <1>2, <2>1, SumTakesAny
  <1>4. SumFunctionOnSet(F, S) \in Int
    BY SumTakesOne
  <1> QED
    BY <1>1, <1>3, <1>4

\* Leaving out members of value 0 or more makes no sum larger.
LEMMA PartOfSum ==
    ASSUME NEW F, NEW S, NEW T \in SUBSET S, Summable(F, S), \A x \in S \ T : F[x] >= 0
    PROVE  /\ Summable(F, T)
           /\ SumFunctionOnSet(F, T) <= SumFunctionOnSet(F, S)
  <1> DEFINE Sum(s) == SumFunctionOnSet(F, s)
             Above(s) == T \subseteq s => Sum(T) <= Sum(s)
             Bad == {Cardinality(s) : s \in {s \in SUBSET S : ~Above(s)}}
  <1>1. \A s \in SUBSET S : Summable(F, s) /\ IsFiniteSet(s) /\ Cardinality(s) \in Nat
    BY FS_Subset, FS_CardinalityType DEF Summable
  <1>2. \A s \in SUBSET S : Sum(s) \in Int
    BY <1>1, SumTakesOne
  <1>3. ASSUME NEW s \in SUBSET S, \A t \in SUBSET S : Cardinality(t) < Cardinality(s) => Above(t)
        PROVE  Above(s)
    <2> SUFFICES ASSUME T \subseteq s
                 PROVE  Sum(T) <= Sum(s)
      OBVIOUS
    <2>1. CASE s = T
      BY <1>2, <2>1
    <2>2. CASE s # T
      <3>1. PICK x \in s : x \notin T
        BY <2>2
      <3>2. Cardinality(s \ {x}) < Cardinality(s)
        BY <1>1, OneLess
      <3>3. Sum(T) <= Sum(s \ {x})
        BY <1>3, <3>1, <3>2
      <3>4. Sum(s) = F[x] + Sum(s \ {x})
        BY <1>1, SumTakesAny
      <3>5. F[x] \in Int /\ F[x] >= 0 /\ Sum(T) \in Int /\ Sum(s \ {x}) \in Int
        BY <1>2, <3>1 DEF Summable
      <3> HIDE DEF Sum
      <3> QED
        BY <3>3, <3>4, <3>5
    <2> QED
      BY <2>1, <2>2
  <1>4. \A n \in Nat : (\A m \in Nat : m < n => m \notin Bad) => n \notin Bad
    <2> HIDE DEF Above
    <2> QED
      BY <1>1, <1>3
  <1>5. Bad \subseteq Nat
    BY <1>1
  <1>6. Bad = {}
    <2> HIDE DEF Bad
    <2> QED
      BY <1>4, <1>5, Sizes
  <1>7. Above(S)
    <2> HIDE DEF Above
    <2> QED
      BY <1>6
  <1> QED
    BY <1>1, <1>7
-----------------------------------------------------------------------------
\* The rule keeps negative amounts from being allowed.
Tame == rule.denyMismatch \/ Args \subseteq Nat

\* What the rules allowed on their own, of what counts for a day.
Standing(d) == {a \in Counted(d) : PolicyAllowed(a)}

\* Where a capped call has the mutex; where the caps have let it pass.
Locked == {"record", "total", "count", "select", "take", "commit"}
Undecided == Pcs \ {"idle", "over"}
Passed(a) ==
    \/ calls[a].pc \in {"select", "take"}
    \/ calls[a].pc = "commit" /\ calls[a].verdict = "policy_approve"

\* Every call, from its first request to its decision, has its row and no
\* receipt, and nothing is recorded of it twice.
StageOK(a) ==
    /\ calls[a].verdict \in {"deny", "policy_approve"}
    /\ calls[a].pc = "idle" <=> ~Known(a)
    /\ calls[a].pc \in {"idle", "lock", "record"} => amounts[a] = Uncounted
    /\ calls[a].pc \in Undecided => receipts[a] = <<>>
    /\ calls[a].pc = "take" => calls[a].grant \in Grants

LockOK(a) ==
    /\ capMu = a => calls[a].pc \in Locked
    /\ rule.capped /\ calls[a].pc \in Locked => capMu = a

\* The amount is on record from the first reading of a total on.
CountedOK(a) ==
    rule.capped =>
        /\ calls[a].pc \in {"total", "count"} \/ Passed(a) => amounts[a] = calls[a].day
        /\ calls[a].pc = "asking" \/ rows[a].decision = "allow" => amounts[a] # Uncounted

AmountOK(a) ==
    /\ rule.capped /\ Tame
    /\ calls[a].pc \in {"count", "asking"} \/ Passed(a) \/ rows[a].decision = "allow"
    => Amount(a) >= 0

\* A call that was found to fit fits beside all the rules have allowed.
RoomOK(a) ==
    rule.capped /\ Tame =>
        /\ Passed(a) \/ (calls[a].pc = "count" /\ ~calls[a].over) =>
               Total(Standing(calls[a].day)) + Amount(a) <= rule.maxPerDay
        /\ Passed(a) => Cardinality(Standing(calls[a].day)) + 1 <= rule.maxCallsPerDay

\* Uses are counted by who took them, and nobody takes two.
GrantOK(g) ==
    /\ IsFiniteSet(takers[g]) /\ grants[g].uses = Cardinality(takers[g])
    /\ grants[g].uses <= grants[g].max
    /\ ~grants[g].issued => grants[g].max = 0

TakerOK(a) ==
    /\ \A g \in Grants : a \in takers[g] =>
          /\ calls[a].pc \in {"commit", "over"}
          /\ \A h \in Grants : a \in takers[h] => g = h
    /\ rule.requireApproval /\ (PolicyAllowed(a) \/ (calls[a].pc = "commit" /\ Passed(a))) =>
          \E g \in Grants : a \in takers[g]

CallOK(a) ==
    StageOK(a) /\ LockOK(a) /\ CountedOK(a) /\ AmountOK(a) /\ TakerOK(a)

Requested == {a \in Actions : Known(a)}

CapInv ==
    /\ StoreInv /\ CapTypeOK
    /\ IsFiniteSet(Requested)
    /\ \A a \in Actions : CallOK(a) /\ RoomOK(a)
    /\ \A g \in Grants : GrantOK(g)
    /\ RulesStayWithinCaps

-----------------------------------------------------------------------------
\* The bounds are numbers, and a day is one too.
LEMMA Numbers ==
    /\ Horizon \in Nat /\ MaxUses \in Nat /\ Window \in Nat
    /\ NoAction \notin Actions /\ NoGrant \notin Grants
    /\ \A t \in Time : Day(t) \in Days /\ Day(t) \in Nat
    /\ \A d \in Days : d # Uncounted
  <1>1. Horizon \in Nat /\ MaxUses \in Nat /\ Window \in Nat /\ DayLength \in Nat \ {0}
        /\ NoAction \notin Actions /\ NoGrant \notin Grants
    BY CapAssumption, HorizonAssumption
  <1>2. ASSUME NEW t \in Nat
        PROVE  t \div DayLength \in Nat
    BY <1>1
  <1>3. \A t \in Time : Day(t) \in Days /\ Day(t) \in Nat
    BY <1>1, <1>2 DEF Time, Day, Days
  <1>4. \A d \in Days : d # Uncounted
    <2> SUFFICES ASSUME NEW d \in Days
                 PROVE  d # Uncounted
      OBVIOUS
    <2>1. d \in Nat
      BY <1>3 DEF Days
    <2> QED
      BY <2>1 DEF Uncounted
  <1> QED
    BY <1>1, <1>3, <1>4

\* What the ledger says of a call that is known, unknown or allowed.
LEMMA LedgerSays ==
    ASSUME StoreInv, NEW a \in Actions
    PROVE  /\ rows[a] \in Row /\ receipts[a] \in Seq(Receipt)
           /\ Known(a) => rows[a].bind \in Bindings /\ rows[a].bind.args \in Args
                          /\ rows[a].bind.policy \in Policies
           /\ ~Known(a) => rows[a].decision = "" /\ receipts[a] = <<>>
           /\ rows[a].decision = "allow" => Known(a)
  <1>1. RowOK(rows[a], receipts[a], outcomes[a])
    BY DEF StoreInv
  <1>2. rows[a] \in Row /\ receipts[a] \in Seq(Receipt)
    BY <1>1 DEF RowOK
  <1>3. Known(a) => rows[a].bind \in Bindings
    BY <1>1 DEF RowOK, Known
  <1>4. ~Known(a) => rows[a].decision = "" /\ receipts[a] = <<>>
    BY <1>1 DEF RowOK, Known, AuditTrails
  <1> QED
    BY <1>2, <1>3, <1>4 DEF Bindings

\* The amount of a known call is a number.
LEMMA AmountIsInt ==
    ASSUME StoreInv, NEW a \in Actions, Known(a)
    PROVE  Amount(a) \in Int /\ (Args \subseteq Nat => Amount(a) >= 0)
  <1>1. rows[a].bind.args \in Args
    BY LedgerSays
  <1>2. rows[a].bind.args \in Int
    BY <1>1, CapAssumption
  <1>3. ASSUME Args \subseteq Nat
        PROVE  rows[a].bind.args >= 0
    <2>1. rows[a].bind.args \in Nat
      BY <1>1, <1>3
    <2> QED
      BY <2>1
  <1> QED
    BY <1>2, <1>3 DEF Amount

Amounts == [a \in Actions |-> Amount(a)]

\* What counts for a day can be summed and counted.
LEMMA CountedSums ==
    ASSUME StoreInv, IsFiniteSet(Requested), NEW d
    PROVE  /\ Summable(Amounts, Counted(d)) /\ Total(Counted(d)) \in Int
           /\ Summable(Amounts, Standing(d)) /\ Total(Standing(d)) \in Int
           /\ Cardinality(Counted(d)) \in Nat /\ Cardinality(Standing(d)) \in Nat
           /\ Standing(d) \subseteq Counted(d) /\ Counted(d) \subseteq Actions
           /\ Cardinality(Standing(d)) <= Cardinality(Counted(d))
  <1>1. \A a \in Counted(d) : a \in Actions /\ Known(a) /\ Amounts[a] \in Int
    BY LedgerSays, AmountIsInt DEF Counted, Amounts
  <1>2. Standing(d) \subseteq Counted(d) /\ Counted(d) \subseteq Requested
    BY <1>1 DEF Standing, Requested
  <1>3. /\ IsFiniteSet(Counted(d)) /\ IsFiniteSet(Standing(d))
        /\ Cardinality(Counted(d)) \in Nat /\ Cardinality(Standing(d)) \in Nat
        /\ Cardinality(Standing(d)) <= Cardinality(Counted(d))
    <2>1. IsFiniteSet(Counted(d))
      BY <1>2, FS_Subset
    <2>2. IsFiniteSet(Standing(d)) /\ Cardinality(Standing(d)) <= Cardinality(Counted(d))
      BY <1>2, <2>1, FS_Subset
    <2> QED
      BY <2>1, <2>2, FS_CardinalityType
  <1>4. Summable(Amounts, Counted(d)) /\ Summable(Amounts, Standing(d))
    BY <1>1, <1>2, <1>3 DEF Summable
  <1>5. Total(Counted(d)) \in Int /\ Total(Standing(d)) \in Int
    BY <1>4, SumTakesOne DEF Total, Amounts
  <1> QED
    BY <1>1, <1>2, <1>3, <1>4, <1>5

\* If nothing that is allowed is negative, what the rules allowed is part of
\* the total.
LEMMA StandingIsPart ==
    ASSUME StoreInv, IsFiniteSet(Requested), NEW d,
           \A a \in Counted(d) : Amount(a) >= 0
    PROVE  Total(Standing(d)) <= Total(Counted(d))
  <1>1. Standing(d) \in SUBSET Counted(d) /\ Summable(Amounts, Counted(d)) /\ Counted(d) \subseteq Actions
    BY CountedSums
  <1>2. \A x \in Counted(d) \ Standing(d) : Amounts[x] >= 0
    BY <1>1 DEF Amounts
  <1>3. SumFunctionOnSet(Amounts, Standing(d)) <= SumFunctionOnSet(Amounts, Counted(d))
    BY <1>1, <1>2, PartOfSum
  <1> QED
    BY <1>3 DEF Total, Amounts

\* A step after which the rules have allowed nothing they had not allowed
\* before leaves at least as much room.
LEMMA RoomStays ==
    ASSUME StoreInv, StoreInv', IsFiniteSet(Requested), NEW d,
           \A a \in Counted(d) : Amount(a) >= 0,
           Standing(d)' \subseteq Standing(d),
           \A a \in Standing(d)' : Amount(a)' = Amount(a)
    PROVE  /\ Total(Standing(d))' \in Int /\ Total(Standing(d))' <= Total(Standing(d))
           /\ Cardinality(Standing(d)') \in Nat
           /\ Cardinality(Standing(d)') <= Cardinality(Standing(d))
  <1> DEFINE T == Standing(d)'
             F == Amounts
             G == Amounts'
  <1>1. /\ Summable(F, Standing(d)) /\ Standing(d) \subseteq Counted(d) /\ Counted(d) \subseteq Actions
        /\ IsFiniteSet(Standing(d))
    BY CountedSums DEF Summable
  <1>2. \A x \in Standing(d) \ T : F[x] >= 0
    BY <1>1 DEF Amounts
  <1>3. Summable(F, T) /\ SumFunctionOnSet(F, T) <= SumFunctionOnSet(F, Standing(d))
    BY <1>1, <1>2, PartOfSum
  <1>4. \A x \in T : F[x] = G[x]
    BY <1>1 DEF Amounts
  <1>5. SumFunctionOnSet(F, T) = SumFunctionOnSet(G, T) /\ SumFunctionOnSet(F, T) \in Int
    <2>1. SumFunctionOnSet(F, T) \in Int
      BY <1>3, SumTakesOne
    <2>2. SumFunctionOnSet(F, T) = SumFunctionOnSet(G, T)
      <3> HIDE DEF F, G
      <3> QED
        BY <1>3, <1>4, SameSum
    <2> QED
      BY <2>1, <2>2
  <1>6. Total(Standing(d))' = SumFunctionOnSet(G, T) /\ Total(Standing(d)) = SumFunctionOnSet(F, Standing(d))
    BY DEF Total, Amounts
  <1>7. /\ Cardinality(Standing(d)') \in Nat
        /\ Cardinality(Standing(d)') <= Cardinality(Standing(d))
    BY <1>1, FS_Subset, FS_CardinalityType
  <1> QED
    BY <1>3, <1>5, <1>6, <1>7

\* A step after which the rules have allowed one call more adds its amount.
LEMMA OneMore ==
    ASSUME StoreInv, StoreInv', IsFiniteSet(Requested), NEW d,
           \A a \in Counted(d) : Amount(a) >= 0,
           NEW b \in Actions, Known(b), b \notin Standing(d), Amount(b) >= 0,
           Standing(d)' \subseteq Standing(d) \cup {b},
           \A a \in Standing(d)' : Amount(a)' = Amount(a)
    PROVE  /\ Total(Standing(d))' \in Int /\ Total(Standing(d))' <= Total(Standing(d)) + Amount(b)
           /\ Cardinality(Standing(d)') \in Nat
           /\ Cardinality(Standing(d)') <= Cardinality(Standing(d)) + 1
  <1> DEFINE S == Standing(d) \cup {b}
             T == Standing(d)'
             F == Amounts
             G == Amounts'
  <1>1. /\ Summable(F, Standing(d)) /\ Standing(d) \subseteq Counted(d) /\ Counted(d) \subseteq Actions
        /\ IsFiniteSet(Standing(d))
    BY CountedSums DEF Summable
  <1>2. F[b] \in Int /\ F[b] = Amount(b)
    BY AmountIsInt DEF Amounts
  <1>3. Summable(F, S) /\ SumFunctionOnSet(F, S) = SumFunctionOnSet(F, Standing(d)) + F[b]
    BY <1>1, <1>2, SumAdds
  <1>4. \A x \in S \ T : F[x] >= 0
    BY <1>1, <1>2 DEF Amounts
  <1>5. Summable(F, T) /\ SumFunctionOnSet(F, T) <= SumFunctionOnSet(F, S)
    BY <1>3, <1>4, PartOfSum
  <1>6. \A x \in T : F[x] = G[x]
    BY <1>1 DEF Amounts
  <1>7. SumFunctionOnSet(F, T) = SumFunctionOnSet(G, T) /\ SumFunctionOnSet(F, T) \in Int
    <2>1. SumFunctionOnSet(F, T) \in Int
      BY <1>5, SumTakesOne
    <2>2. SumFunctionOnSet(F, T) = SumFunctionOnSet(G, T)
      <3> HIDE DEF F, G
      <3> QED
        BY <1>5, <1>6, SameSum
    <2> QED
      BY <2>1, <2>2
  <1>8. Total(Standing(d))' = SumFunctionOnSet(G, T) /\ Total(Standing(d)) = SumFunctionOnSet(F, Standing(d))
    BY DEF Total, Amounts
  <1>9. /\ IsFiniteSet(S) /\ Cardinality(S) = Cardinality(Standing(d)) + 1
    BY <1>1, FS_AddElement
  <1>10. Cardinality(T) \in Nat /\ Cardinality(T) <= Cardinality(S)
    <2>1. IsFiniteSet(T) /\ Cardinality(T) <= Cardinality(S)
      BY <1>9, FS_Subset
    <2> QED
      BY <2>1, FS_CardinalityType
  <1> QED
    BY <1>2, <1>3, <1>5, <1>7, <1>8, <1>9, <1>10

-----------------------------------------------------------------------------
\* What a step does to a call it is not about: the ledger forgets an approval
\* at most, and the rest stays.
Fades(a) ==
    /\ rows'[a].bind = rows[a].bind /\ (Known(a)' <=> Known(a))
    /\ rows'[a].decision = "allow" => rows[a].decision = "allow"
    /\ receipts'[a] = <<>> <=> receipts[a] = <<>>
    /\ receipts[a] # <<>> => receipts'[a][1] = receipts[a][1]

\* Its part in the decisions of others does not change either.
SamePlace(a) ==
    /\ calls'[a] = calls[a] /\ amounts'[a] = amounts[a]
    /\ capMu' = a <=> capMu = a
    /\ \A g \in Grants : a \in takers'[g] <=> a \in takers[g]

\* A call that a step is not about stays all right.
LEMMA CallStays ==
    ASSUME NEW a \in Actions, CallOK(a), Fades(a), SamePlace(a), rule' = rule
    PROVE  CallOK(a)'
  <1>1. Passed(a)' <=> Passed(a)
    BY DEF SamePlace, Passed
  <1>2. PolicyAllowed(a)' <=> PolicyAllowed(a)
    BY DEF Fades, PolicyAllowed
  <1>3. Amount(a)' = Amount(a)
    BY DEF Fades, Amount
  <1>4. Tame' <=> Tame
    BY DEF Tame
  <1>5. StageOK(a)'
    BY DEF CallOK, StageOK, Fades, SamePlace
  <1>6. LockOK(a)'
    BY DEF CallOK, LockOK, SamePlace
  <1>7. CountedOK(a)'
    BY <1>1 DEF CallOK, CountedOK, Fades, SamePlace
  <1>8. AmountOK(a)'
    BY <1>1, <1>3, <1>4 DEF CallOK, AmountOK, Fades, SamePlace
  <1>9. TakerOK(a)'
    BY <1>1, <1>2 DEF CallOK, TakerOK, SamePlace
  <1> QED
    BY <1>5, <1>6, <1>7, <1>8, <1>9 DEF CallOK

\* What a statement that decides nothing does to the row it is about.
LEMMA ClosingFades ==
    ASSUME StoreInv, NEW a \in Actions,
           \/ rows'[a] = rows[a] /\ receipts'[a] = receipts[a]
           \/ \E st \in {"expired", "revoked"} :
                 Unspent(rows[a]) /\ rows'[a] = Closed(rows[a], st) /\ receipts'[a] = receipts[a]
    PROVE  Fades(a)
  <1>1. rows[a] \in Row
    BY LedgerSays
  <1>2. CASE rows'[a] = rows[a] /\ receipts'[a] = receipts[a]
    BY <1>2 DEF Fades, Known
  <1>3. ASSUME NEW st \in {"expired", "revoked"},
               Unspent(rows[a]), rows'[a] = Closed(rows[a], st), receipts'[a] = receipts[a]
        PROVE  Fades(a)
    <2>1. rows'[a].bind = rows[a].bind /\ rows'[a].status = st /\ rows'[a].decision = "deny"
      BY <1>1, <1>3 DEF Closed, Row
    <2> QED
      BY <1>3, <2>1 DEF Fades, Known, Unspent
  <1> QED
    BY <1>2, <1>3

\* A consumption adds its receipt behind the approval's.
LEMMA SpendingFades ==
    ASSUME StoreInv, NEW a \in Actions, NEW at \in Time, rows[a].status = "allowed",
           rows'[a] = SpentRow(rows[a], at),
           receipts'[a] = Append(receipts[a], ConsumptionReceipt(rows[a].bind))
    PROVE  Fades(a)
  <1>1. RowOK(rows[a], receipts[a], outcomes[a])
    BY DEF StoreInv
  <1>2. rows[a] \in Row /\ receipts[a] \in Seq(Receipt) /\ rows[a].bind \in Bindings
        /\ rows[a].decision = "allow"
    BY <1>1 DEF RowOK
  <1>3. rows'[a].bind = rows[a].bind /\ rows'[a].status = "consumed"
    BY <1>2 DEF SpentRow, Row
  <1>4. receipts[a] # <<>> /\ Len(receipts[a]) \in Nat /\ Len(receipts[a]) >= 1
    <2>1. PICK e \in Approvals(rows[a].bind) : receipts[a] = <<e>>
      BY <1>1 DEF RowOK, AuditTrails, AllowTrails
    <2> QED
      BY <2>1
  <1>5. ConsumptionReceipt(rows[a].bind) \in Receipt
    BY <1>2, ReceiptTypes
  <1>6. receipts'[a][1] = receipts[a][1] /\ receipts'[a] # <<>>
    <2>1. /\ receipts'[a] \in Seq(Receipt) /\ Len(receipts'[a]) = Len(receipts[a]) + 1
          /\ \A i \in 1 .. Len(receipts[a]) : receipts'[a][i] = receipts[a][i]
      BY <1>2, <1>5, AppendProperties
    <2>2. receipts'[a] # <<>>
      <3>1. Len(<<>>) = 0
        OBVIOUS
      <3> QED
        BY <1>4, <2>1, <3>1
    <2> QED
      BY <1>4, <2>1, <2>2
  <1> QED
    BY <1>2, <1>3, <1>4, <1>6 DEF Fades, Known

\* What has no receipt is not allowed.
LEMMA EmptyIsNotAllowed ==
    ASSUME StoreInv, NEW a \in Actions, receipts[a] = <<>>
    PROVE  rows[a].decision # "allow"
  <1>1. RowOK(rows[a], receipts[a], outcomes[a])
    BY DEF StoreInv
  <1>2. rows[a].status = "allowed" => \E e \in Approvals(rows[a].bind) : receipts[a] = <<e>>
    BY <1>1 DEF RowOK, AuditTrails, AllowTrails
  <1>3. rows[a].status = "consumed" => \E e \in Approvals(rows[a].bind) :
            receipts[a] = <<e, ConsumptionReceipt(rows[a].bind)>>
    BY <1>1 DEF RowOK, AuditTrails
  <1>4. rows[a].status \notin {"allowed", "consumed"}
    BY <1>2, <1>3
  <1> QED
    BY <1>1, <1>4 DEF RowOK

\* What a decision does: the row of a pending call takes it, with its receipt.
LEMMA DecisionShape ==
    ASSUME StoreInv, NEW a \in Actions, receipts[a] = <<>>, Known(a), NEW d \in Verdicts,
           DecideToolActionWithReceipt(a, rows[a].bind, d, now)
    PROVE  /\ rows'[a].bind = rows[a].bind /\ Known(a)'
           /\ \/ receipts'[a] = <<>> /\ rows'[a].decision # "allow"
              \/ /\ receipts'[a] # <<>> /\ receipts'[a][1].decision = d
                 /\ rows'[a].decision = "allow" => d # "deny"
           /\ \A x \in Actions \ {a} : rows'[x] = rows[x] /\ receipts'[x] = receipts[x]
           /\ now' = now
  <1>1. RowOK(rows[a], receipts[a], outcomes[a])
    BY DEF StoreInv
  <1>2. rows[a] \in Row /\ rows \in [Actions -> Row] /\ receipts \in [Actions -> Seq(Receipt)]
        /\ rows[a].bind \in Bindings
    BY <1>1 DEF RowOK, StoreInv, Known
  <1>3. CASE rows[a].status = "pending" /\ Lapsed(rows[a], now)
    <2>1. rows' = [rows EXCEPT ![a] = Closed(rows[a], "expired")] /\ receipts' = receipts /\ now' = now
      BY <1>3 DEF DecideToolActionWithReceipt, Write
    <2>2. rows'[a] = Closed(rows[a], "expired") /\ \A x \in Actions \ {a} : rows'[x] = rows[x]
      BY <1>2, <2>1
    <2>3. rows'[a].bind = rows[a].bind /\ rows'[a].status = "expired" /\ rows'[a].decision = "deny"
      BY <1>2, <2>2 DEF Closed, Row
    <2> QED
      BY <2>1, <2>2, <2>3 DEF Known
  <1>4. CASE rows[a].status = "pending" /\ ~Lapsed(rows[a], now)
    <2> DEFINE e == DecisionReceipt(d, rows[a].bind)
    <2>1. /\ rows' = [rows EXCEPT ![a] = Decided(rows[a], d)]
          /\ receipts' = [receipts EXCEPT ![a] = Append(@, e)] /\ now' = now
      BY <1>4 DEF DecideToolActionWithReceipt, Write, Append1
    <2>2. /\ rows'[a] = Decided(rows[a], d) /\ receipts'[a] = Append(<<>>, e)
          /\ \A x \in Actions \ {a} : rows'[x] = rows[x] /\ receipts'[x] = receipts[x]
      BY <1>2, <2>1
    <2>3. receipts'[a] = <<e>>
      BY <2>2
    <2>4. receipts'[a] # <<>> /\ receipts'[a][1] = e /\ e.decision = d
      BY <2>3 DEF DecisionReceipt
    <2>5. /\ rows'[a].bind = rows[a].bind /\ rows'[a].status \in {"denied", "allowed"}
          /\ rows'[a].decision = "allow" => d # "deny"
      BY <1>2, <2>2 DEF Decided, Row
    <2> QED
      BY <2>1, <2>2, <2>4, <2>5 DEF Known
  <1>5. CASE rows[a].status # "pending"
    <2>1. rows' = rows /\ receipts' = receipts /\ now' = now
      BY <1>5 DEF DecideToolActionWithReceipt
    <2>2. rows[a].decision # "allow"
      BY EmptyIsNotAllowed
    <2> QED
      BY <2>1, <2>2 DEF Known
  <1> QED
    BY <1>3, <1>4, <1>5

-----------------------------------------------------------------------------
\* The caps after a step.  CapsStay: as long as the rules allow nothing new,
\* the caps are kept and whoever was found to fit still fits.

\* What is allowed is not negative, if the rule sees to it.
LEMMA NothingNegative ==
    ASSUME CapInv, rule.capped, Tame, NEW d, NEW a \in Counted(d)
    PROVE  Amount(a) >= 0
  BY DEF CapInv, CallOK, AmountOK, Counted

\* Calls that fade stand for a day only if they did.
LEMMA StandingFades ==
    ASSUME CapInv, StoreInv', NEW b, NEW d \in Days,
           \A a \in Actions \ {b} : Fades(a) /\ amounts'[a] = amounts[a]
    PROVE  /\ Standing(d)' \subseteq Standing(d) \cup {b}
           /\ \A a \in Standing(d)' \ {b} : Amount(a)' = Amount(a)
  <1>1. ASSUME NEW a \in Standing(d)', a # b
        PROVE  a \in Standing(d) /\ Amount(a)' = Amount(a)
    <2>1. /\ a \in Actions /\ amounts'[a] = d /\ rows'[a].decision = "allow"
          /\ receipts'[a] # <<>> /\ receipts'[a][1].decision = "policy_approve"
      BY <1>1 DEF Standing, Counted, PolicyAllowed
    <2>2. Fades(a) /\ amounts[a] = d
      BY <1>1, <2>1
    <2> QED
      BY <2>1, <2>2 DEF Fades, Standing, Counted, PolicyAllowed, Amount
  <1> QED
    BY <1>1

\* A step after which the rules stand for no call they did not stand for before
\* keeps the caps and the room below them.
LEMMA CapsStay ==
    ASSUME CapInv, StoreInv', rule' = rule, NEW b,
           \A a \in Actions \ {b} : Fades(a) /\ amounts'[a] = amounts[a],
           \A d \in Days : b \notin Standing(d)' \/ (b \in Standing(d) /\ Amount(b)' = Amount(b))
    PROVE  /\ RulesStayWithinCaps'
           /\ rule.capped /\ Tame => \A d \in Days :
                 /\ Total(Standing(d))' \in Int /\ Total(Standing(d))' <= Total(Standing(d))
                 /\ Cardinality(Standing(d)') \in Nat
                 /\ Cardinality(Standing(d)') <= Cardinality(Standing(d))
                 /\ Total(Standing(d)) \in Int /\ Cardinality(Standing(d)) \in Nat
  <1>1. ASSUME NEW d \in Days, rule.capped, Tame
        PROVE  /\ Total(Standing(d))' \in Int /\ Total(Standing(d))' <= Total(Standing(d))
               /\ Cardinality(Standing(d)') \in Nat
               /\ Cardinality(Standing(d)') <= Cardinality(Standing(d))
               /\ Total(Standing(d)) \in Int /\ Cardinality(Standing(d)) \in Nat
    <2>1. /\ Standing(d)' \subseteq Standing(d) \cup {b}
          /\ \A a \in Standing(d)' \ {b} : Amount(a)' = Amount(a)
      BY StandingFades
    <2>2. b \notin Standing(d)' \/ (b \in Standing(d) /\ Amount(b)' = Amount(b))
      OBVIOUS
    <2>3. Standing(d)' \subseteq Standing(d) /\ \A a \in Standing(d)' : Amount(a)' = Amount(a)
      BY <2>1, <2>2
    <2>4. StoreInv /\ IsFiniteSet(Requested) /\ \A a \in Counted(d) : Amount(a) >= 0
      BY <1>1, NothingNegative DEF CapInv
    <2>5. Total(Standing(d)) \in Int /\ Cardinality(Standing(d)) \in Nat
      BY <2>4, CountedSums
    <2> QED
      BY <2>3, <2>4, <2>5, RoomStays
  <1>2. RulesStayWithinCaps'
    <2>1. SUFFICES ASSUME rule.capped, Tame, NEW d \in Days
                   PROVE  /\ Total(Standing(d))' <= rule.maxPerDay
                          /\ Cardinality(Standing(d)') <= rule.maxCallsPerDay
      BY DEF RulesStayWithinCaps, Tame, Standing
    <2>2. Total(Standing(d)) <= rule.maxPerDay /\ Cardinality(Standing(d)) <= rule.maxCallsPerDay
      BY <2>1 DEF CapInv, RulesStayWithinCaps, Tame, Standing
    <2>3. rule.maxPerDay \in Nat /\ rule.maxCallsPerDay \in Nat
      BY CapAssumption DEF CapInv, CapTypeOK, ToolRule
    <2> QED
      BY <1>1, <2>1, <2>2, <2>3
  <1> QED
    BY <1>1, <1>2

\* Room that a call had is still there.
LEMMA RoomKept ==
    ASSUME CapInv, rule' = rule, NEW a \in Actions, calls'[a] = calls[a], Amount(a)' = Amount(a), Known(a),
           rule.capped /\ Tame => \A d \in Days :
                 /\ Total(Standing(d))' \in Int /\ Total(Standing(d))' <= Total(Standing(d))
                 /\ Cardinality(Standing(d)') \in Nat
                 /\ Cardinality(Standing(d)') <= Cardinality(Standing(d))
                 /\ Total(Standing(d)) \in Int /\ Cardinality(Standing(d)) \in Nat
    PROVE  RoomOK(a)'
  <1> SUFFICES ASSUME rule.capped, Tame
               PROVE  /\ Passed(a) \/ (calls[a].pc = "count" /\ ~calls[a].over) =>
                            Total(Standing(calls[a].day))' + Amount(a) <= rule.maxPerDay
                      /\ Passed(a) => Cardinality(Standing(calls[a].day)') + 1 <= rule.maxCallsPerDay
    BY DEF RoomOK, Passed, Tame
  <1> DEFINE d == calls[a].day
  <1>1. d \in Days
    BY DEF CapInv, CapTypeOK, CallRecord
  <1>2. Amount(a) \in Int
    BY AmountIsInt DEF CapInv
  <1>3. rule.maxPerDay \in Nat /\ rule.maxCallsPerDay \in Nat
    BY CapAssumption DEF CapInv, CapTypeOK, ToolRule
  <1>4. /\ Passed(a) \/ (calls[a].pc = "count" /\ ~calls[a].over) =>
              Total(Standing(d)) + Amount(a) <= rule.maxPerDay
        /\ Passed(a) => Cardinality(Standing(d)) + 1 <= rule.maxCallsPerDay
    BY DEF CapInv, RoomOK
  <1>5. /\ Total(Standing(d))' \in Int /\ Total(Standing(d))' <= Total(Standing(d))
        /\ Cardinality(Standing(d)') \in Nat
        /\ Cardinality(Standing(d)') <= Cardinality(Standing(d))
        /\ Total(Standing(d)) \in Int /\ Cardinality(Standing(d)) \in Nat
    BY <1>1
  <1> HIDE DEF d
  <1>6. /\ Passed(a) \/ (calls[a].pc = "count" /\ ~calls[a].over) =>
              Total(Standing(d))' + Amount(a) <= rule.maxPerDay
        /\ Passed(a) => Cardinality(Standing(d)') + 1 <= rule.maxCallsPerDay
    BY <1>2, <1>3, <1>4, <1>5
  <1> QED
    BY <1>6 DEF d

-----------------------------------------------------------------------------
\* A step keeps the invariant if it keeps it for the one call it is about.

\* The caps let a call pass, or found it to fit one of them.
Passes(c) == c.pc \in {"select", "take"} \/ (c.pc = "commit" /\ c.verdict = "policy_approve")
Fits(a, d) == Total(Standing(d)) + Amount(a) <= rule.maxPerDay
FewCalls(d) == Cardinality(Standing(d)) + 1 <= rule.maxCallsPerDay
HasRoom(a, c) ==
    /\ Passes(c) \/ (c.pc = "count" /\ ~c.over) => Fits(a, c.day)
    /\ Passes(c) => FewCalls(c.day)

\* If the others fade and stay in place, the one call's own part is left.
LEMMA OthersKeep ==
    ASSUME CapInv, StoreInv', CapTypeOK', IsFiniteSet(Requested)', rule' = rule, NEW b \in Actions,
           \A a \in Actions \ {b} : Fades(a) /\ SamePlace(a),
           \A d \in Days : b \notin Standing(d)' \/ (b \in Standing(d) /\ Amount(b)' = Amount(b)),
           CallOK(b)',
           calls'[b].pc = "count" \/ Passes(calls'[b]) =>
               Known(b) /\ Amount(b)' = Amount(b) /\ (rule.capped /\ Tame => HasRoom(b, calls'[b])),
           \A g \in Grants : GrantOK(g)'
    PROVE  CapInv'
  <1>1. \A a \in Actions \ {b} : Fades(a) /\ amounts'[a] = amounts[a]
    BY DEF SamePlace
  <1> DEFINE Less == \A d \in Days :
                 /\ Total(Standing(d))' \in Int /\ Total(Standing(d))' <= Total(Standing(d))
                 /\ Cardinality(Standing(d)') \in Nat
                 /\ Cardinality(Standing(d)') <= Cardinality(Standing(d))
                 /\ Total(Standing(d)) \in Int /\ Cardinality(Standing(d)) \in Nat
  <1>2. RulesStayWithinCaps' /\ (rule.capped /\ Tame => Less)
    BY <1>1, CapsStay
  <1>3. ASSUME NEW a \in Actions, a # b
        PROVE  CallOK(a)' /\ RoomOK(a)'
    <2>1. Fades(a) /\ SamePlace(a) /\ CallOK(a)
      BY <1>3 DEF CapInv
    <2>2. CallOK(a)'
      BY <2>1, CallStays
    <2>3. calls'[a] = calls[a] /\ Amount(a)' = Amount(a)
      BY <2>1 DEF SamePlace, Fades, Amount
    <2>4. CASE Known(a)
      BY <1>2, <2>2, <2>3, <2>4, RoomKept
    <2>5. CASE ~Known(a)
      <3>1. calls'[a].pc = "idle"
        BY <2>1, <2>3, <2>5 DEF CallOK, StageOK
      <3> QED
        BY <2>2, <3>1 DEF RoomOK, Passed
    <2> QED
      BY <2>4, <2>5
  <1>4. RoomOK(b)'
    <2>1. PICK c : c = calls'[b]
      OBVIOUS
    <2>2. PICK d : d = c.day
      OBVIOUS
    <2>3. SUFFICES ASSUME rule.capped, Tame, c.pc = "count" \/ Passes(c)
                   PROVE  /\ Passes(c) \/ (c.pc = "count" /\ ~c.over) =>
                                Total(Standing(d))' + Amount(b)' <= rule.maxPerDay
                          /\ Passes(c) => Cardinality(Standing(d)') + 1 <= rule.maxCallsPerDay
      BY <2>1, <2>2 DEF RoomOK, Passed, Passes, Tame
    <2>4. d \in Days
      BY <2>1, <2>2 DEF CapTypeOK, CallRecord
    <2>5. Known(b) /\ Amount(b)' = Amount(b) /\ HasRoom(b, c)
      BY <2>1, <2>3
    <2>6. Amount(b) \in Int
      BY <2>5, AmountIsInt DEF CapInv
    <2>7. rule.maxPerDay \in Nat /\ rule.maxCallsPerDay \in Nat
      BY CapAssumption DEF CapInv, CapTypeOK, ToolRule
    <2>8. /\ Total(Standing(d))' \in Int /\ Total(Standing(d))' <= Total(Standing(d))
          /\ Cardinality(Standing(d)') \in Nat
          /\ Cardinality(Standing(d)') <= Cardinality(Standing(d))
          /\ Total(Standing(d)) \in Int /\ Cardinality(Standing(d)) \in Nat
      BY <1>2, <2>3, <2>4
    <2>9. /\ Passes(c) \/ (c.pc = "count" /\ ~c.over) =>
                Total(Standing(d)) + Amount(b) <= rule.maxPerDay
          /\ Passes(c) => Cardinality(Standing(d)) + 1 <= rule.maxCallsPerDay
      BY <2>2, <2>5 DEF HasRoom, Fits, FewCalls
    <2> QED
      BY <2>5, <2>6, <2>7, <2>8, <2>9
  <1>5. \A a \in Actions : CallOK(a)' /\ RoomOK(a)'
    BY <1>3, <1>4
  <1> QED
    BY <1>2, <1>5 DEF CapInv

\* The ledger's types are part of its invariant.
LEMMA LedgerTyped ==
    ASSUME StoreInv
    PROVE  TypeOK
  BY StoreInvImplies

\* When the ledger is left alone everything fades, in the sense of above.
LEMMA QuietLedger ==
    ASSUME CapInv, UNCHANGED storeVars
    PROVE  /\ StoreInv' /\ TypeOK' /\ IsFiniteSet(Requested)'
           /\ \A a \in Actions : Fades(a) /\ Amount(a)' = Amount(a)
  <1>1. rows' = rows /\ receipts' = receipts /\ outcomes' = outcomes /\ now' = now
    BY DEF storeVars
  <1>2. StoreInv'
    BY <1>1 DEF CapInv, StoreInv
  <1>3. TypeOK'
    BY <1>1 DEF CapInv, CapTypeOK, TypeOK, Known
  <1>4. IsFiniteSet(Requested)'
    <2>1. Requested' = Requested
      BY <1>1 DEF Requested, Known
    <2> QED
      BY <2>1 DEF CapInv
  <1>5. \A a \in Actions : Fades(a) /\ Amount(a)' = Amount(a)
    BY <1>1 DEF Fades, Known, Amount
  <1> QED
    BY <1>2, <1>3, <1>4, <1>5

\* A call that moves on before its decision is written: what there is to see to.
LEMMA QuietMove ==
    ASSUME CapInv, UNCHANGED <<storeVars, rule, grants, takers, restarts>>, faults' \in Nat,
           NEW b \in Actions, calls[b].pc \in Undecided \ {"commit"},
           NEW c \in CallRecord, calls' = [calls EXCEPT ![b] = c],
           NEW m \in Days \cup {Uncounted}, amounts' = [amounts EXCEPT ![b] = m],
           capMu' \in {capMu, IF capMu = b THEN NoAction ELSE capMu} \/ (capMu = NoAction /\ capMu' = b),
           c.verdict \in {"deny", "policy_approve"}, c.pc \in Undecided,
           c.pc = "take" => c.grant \in Grants,
           c.pc \in {"lock", "record"} => m = Uncounted,
           capMu' = b => c.pc \in Locked,
           rule.capped /\ c.pc \in Locked => capMu' = b,
           rule.capped => /\ c.pc \in {"total", "count"} \/ Passes(c) => m = c.day
                          /\ c.pc = "asking" => m # Uncounted,
           rule.capped /\ Tame => /\ c.pc \in {"count", "asking"} \/ Passes(c) => Amount(b) >= 0
                                  /\ HasRoom(b, c),
           c.pc = "commit" /\ c.verdict = "policy_approve" => ~rule.requireApproval
    PROVE  CapInv'
  <1>1. /\ StoreInv' /\ TypeOK' /\ IsFiniteSet(Requested)'
        /\ \A a \in Actions : Fades(a) /\ Amount(a)' = Amount(a)
    BY QuietLedger
  <1>2. /\ calls \in [Actions -> CallRecord] /\ amounts \in [Actions -> Days \cup {Uncounted}]
        /\ capMu \in Actions \cup {NoAction} /\ NoAction \notin Actions
    BY Numbers DEF CapInv, CapTypeOK
  <1>3. /\ calls' \in [Actions -> CallRecord] /\ calls'[b] = c
        /\ amounts' \in [Actions -> Days \cup {Uncounted}] /\ amounts'[b] = m
        /\ capMu' \in Actions \cup {NoAction}
        /\ \A a \in Actions \ {b} : calls'[a] = calls[a] /\ amounts'[a] = amounts[a]
    BY <1>2
  <1>4. \A a \in Actions \ {b} : capMu' = a <=> capMu = a
    BY <1>2
  <1>5. \A a \in Actions \ {b} : Fades(a) /\ SamePlace(a)
    BY <1>1, <1>3, <1>4 DEF SamePlace
  <1>6. CapTypeOK'
    BY <1>1, <1>3 DEF CapInv, CapTypeOK
  <1>7. CallOK(b) /\ receipts[b] = <<>> /\ receipts'[b] = <<>> /\ Known(b) /\ Known(b)'
        /\ rows[b].decision # "allow" /\ rows'[b] = rows[b]
    <2>1. CallOK(b)
      BY DEF CapInv
    <2>2. receipts[b] = <<>> /\ Known(b)
      BY <2>1 DEF CallOK, StageOK, Undecided
    <2>3. rows' = rows /\ receipts' = receipts
      BY DEF storeVars
    <2>4. rows[b].decision # "allow"
      BY <2>2, EmptyIsNotAllowed DEF CapInv
    <2> QED
      BY <2>1, <2>2, <2>3, <2>4 DEF Known
  <1>8. \A d \in Days : b \notin Standing(d)'
    BY <1>7 DEF Standing, PolicyAllowed
  <1>9. Passed(b)' <=> Passes(c)
    BY <1>3 DEF Passed, Passes
  <1>10. CallOK(b)'
    <2>1. StageOK(b)'
      BY <1>3, <1>7 DEF StageOK, Undecided
    <2>2. LockOK(b)'
      BY <1>3 DEF LockOK
    <2>3. CountedOK(b)'
      BY <1>3, <1>7, <1>9 DEF CountedOK
    <2>4. AmountOK(b)'
      BY <1>1, <1>3, <1>7, <1>9 DEF AmountOK, Tame
    <2>5. TakerOK(b)'
      <3>1. \A g \in Grants : b \notin takers'[g]
        BY <1>7 DEF CallOK, TakerOK, Undecided
      <3>2. ~PolicyAllowed(b)'
        BY <1>7 DEF PolicyAllowed
      <3>3. rule.requireApproval => ~(calls'[b].pc = "commit" /\ Passed(b)')
        BY <1>3, <1>9 DEF Passes
      <3> QED
        BY <3>1, <3>2, <3>3 DEF TakerOK
    <2> QED
      BY <2>1, <2>2, <2>3, <2>4, <2>5 DEF CallOK
  <1>11. \A g \in Grants : GrantOK(g)'
    BY DEF CapInv, GrantOK
  <1> QED
    BY <1>1, <1>3, <1>5, <1>6, <1>7, <1>8, <1>10, <1>11, OthersKeep

-----------------------------------------------------------------------------
\* The handler's steps.

\* What a call in hand has to it.
LEMMA InHand ==
    ASSUME CapInv, NEW a \in Actions, calls[a].pc \in Undecided \ {"commit"}
    PROVE  /\ calls \in [Actions -> CallRecord] /\ calls[a] \in CallRecord
           /\ Known(a) /\ Amount(a) \in Int /\ (Args \subseteq Nat => Amount(a) >= 0)
           /\ CallOK(a) /\ RoomOK(a)
           /\ amounts \in [Actions -> Days \cup {Uncounted}] /\ amounts[a] \in Days \cup {Uncounted}
           /\ faults \in Nat /\ (Fault => faults' \in Nat)
           /\ rule \in ToolRule /\ rule.maxPerDay \in Nat /\ rule.maxCallsPerDay \in Nat
           /\ calls[a].verdict \in {"deny", "policy_approve"}
           /\ calls[a].day \in Days /\ calls[a].day # Uncounted
           /\ now \in Time /\ Day(now) \in Days /\ Day(now) # Uncounted
  <1>1. calls \in [Actions -> CallRecord] /\ calls[a] \in CallRecord
    BY DEF CapInv, CapTypeOK
  <1>2. CallOK(a) /\ RoomOK(a)
    BY DEF CapInv
  <1>3. Known(a)
    BY <1>2 DEF CallOK, StageOK, Undecided
  <1>4. Amount(a) \in Int /\ (Args \subseteq Nat => Amount(a) >= 0)
    BY <1>3, AmountIsInt DEF CapInv
  <1>5. amounts \in [Actions -> Days \cup {Uncounted}] /\ amounts[a] \in Days \cup {Uncounted}
    BY DEF CapInv, CapTypeOK
  <1>6. faults \in Nat /\ (Fault => faults' \in Nat)
    BY DEF CapInv, CapTypeOK, Fault
  <1>7. rule \in ToolRule /\ rule.maxPerDay \in Nat /\ rule.maxCallsPerDay \in Nat
    BY CapAssumption DEF CapInv, CapTypeOK, ToolRule
  <1>8. calls[a].verdict \in {"deny", "policy_approve"}
    BY <1>2 DEF CallOK, StageOK
  <1>9. calls[a].day \in Days /\ calls[a].day # Uncounted
    BY <1>1, Numbers DEF CallRecord
  <1>10. now \in Time /\ Day(now) \in Days /\ Day(now) # Uncounted
    BY Numbers DEF CapInv, CapTypeOK, TypeOK
  <1> QED
    BY <1>1, <1>2, <1>3, <1>4, <1>5, <1>6, <1>7, <1>8, <1>9, <1>10

\* A call that goes to the operators gives the mutex back.
LEMMA AskHumanKeeps ==
    ASSUME CapInv, UNCHANGED <<storeVars, rule, amounts, grants, takers, restarts>>, faults' \in Nat,
           NEW a \in Actions, calls[a].pc \in Undecided \ {"commit"}, AskHuman(a),
           rule.capped => amounts[a] # Uncounted,
           rule.capped /\ Tame => Amount(a) >= 0
    PROVE  CapInv'
  <1> DEFINE c == [calls[a] EXCEPT !.pc = "asking"]
  <1>1. /\ calls[a] \in CallRecord /\ CallOK(a) /\ calls[a].verdict \in {"deny", "policy_approve"}
        /\ amounts \in [Actions -> Days \cup {Uncounted}] /\ amounts[a] \in Days \cup {Uncounted}
    BY InHand
  <1>2. c \in CallRecord /\ c.pc = "asking" /\ c.verdict = calls[a].verdict
    BY <1>1 DEF CallRecord, Pcs
  <1>3. calls' = [calls EXCEPT ![a] = c] /\ capMu' = IF capMu = a THEN NoAction ELSE capMu
    BY DEF AskHuman, Go, Unlocked
  <1>4. amounts' = [amounts EXCEPT ![a] = amounts[a]]
    BY <1>1
  <1>5. capMu' # a
    BY <1>3, Numbers
  <1>6. ~Passes(c) /\ c.pc # "count" /\ c.pc \notin Locked /\ c.pc \in Undecided
    BY <1>2 DEF Passes, Locked, Undecided, Pcs
  <1> HIDE DEF c
  <1> QED
    BY <1>1, <1>2, <1>3, <1>4, <1>5, <1>6, QuietMove DEF HasRoom

\* A call that is denied keeps it until that is written.
LEMMA DenyKeeps ==
    ASSUME CapInv, UNCHANGED <<storeVars, rule, amounts, grants, takers, restarts>>, faults' \in Nat,
           NEW a \in Actions, calls[a].pc \in Undecided \ {"commit"}, Decide(a, "deny"),
           rule.capped => capMu = a, capMu = a => calls[a].pc \in Locked
    PROVE  CapInv'
  <1> DEFINE c == [calls[a] EXCEPT !.pc = "commit", !.verdict = "deny"]
  <1>1. /\ calls[a] \in CallRecord
        /\ amounts \in [Actions -> Days \cup {Uncounted}] /\ amounts[a] \in Days \cup {Uncounted}
        /\ calls \in [Actions -> CallRecord]
    BY InHand
  <1>2. c \in CallRecord /\ c.pc = "commit" /\ c.verdict = "deny"
    BY <1>1 DEF CallRecord, Pcs, Verdicts
  <1>3. calls' = [calls EXCEPT ![a] = c] /\ capMu' = capMu
    BY <1>1 DEF Decide
  <1>4. amounts' = [amounts EXCEPT ![a] = amounts[a]]
    BY <1>1
  <1>5. ~Passes(c) /\ c.pc # "count" /\ c.pc \in Locked /\ c.pc \in Undecided
    BY <1>2 DEF Passes, Locked, Undecided, Pcs
  <1> HIDE DEF c
  <1> QED
    BY <1>1, <1>2, <1>3, <1>4, <1>5, QuietMove DEF HasRoom

\* A call the rules allow keeps the mutex too; it fits.
LEMMA AllowKeeps ==
    ASSUME CapInv, UNCHANGED <<storeVars, rule, amounts, grants, takers, restarts>>, faults' \in Nat,
           NEW a \in Actions, calls[a].pc \in Undecided \ {"commit"}, Decide(a, "policy_approve"),
           ~rule.requireApproval,
           rule.capped => capMu = a /\ amounts[a] = calls[a].day,
           rule.capped /\ Tame => Amount(a) >= 0 /\ Fits(a, calls[a].day) /\ FewCalls(calls[a].day)
    PROVE  CapInv'
  <1> DEFINE c == [calls[a] EXCEPT !.pc = "commit", !.verdict = "policy_approve"]
  <1>1. /\ calls[a] \in CallRecord
        /\ amounts \in [Actions -> Days \cup {Uncounted}] /\ amounts[a] \in Days \cup {Uncounted}
        /\ calls \in [Actions -> CallRecord]
    BY InHand
  <1>2. c \in CallRecord /\ c.pc = "commit" /\ c.verdict = "policy_approve" /\ c.day = calls[a].day
    BY <1>1 DEF CallRecord, Pcs, Verdicts
  <1>3. calls' = [calls EXCEPT ![a] = c] /\ capMu' = capMu
    BY <1>1 DEF Decide
  <1>4. amounts' = [amounts EXCEPT ![a] = amounts[a]]
    BY <1>1
  <1>5. Passes(c) /\ c.pc # "count" /\ c.pc \in Locked /\ c.pc \in Undecided
    BY <1>2 DEF Passes, Locked, Undecided, Pcs
  <1> HIDE DEF c
  <1> QED
    BY <1>1, <1>2, <1>3, <1>4, <1>5, QuietMove, ZenonT(60) DEF HasRoom

\* ... and so does one that looks for a standing grant.
LEMMA SelectKeeps ==
    ASSUME CapInv, UNCHANGED <<storeVars, rule, amounts, grants, takers, restarts>>, faults' \in Nat,
           NEW a \in Actions, calls[a].pc \in Undecided \ {"commit"},
           NEW c \in CallRecord, c.pc = "select" \/ (c.pc = "take" /\ c.grant \in Grants),
           c.day = calls[a].day, c.verdict = calls[a].verdict,
           calls' = [calls EXCEPT ![a] = c], UNCHANGED capMu,
           rule.capped => capMu = a /\ amounts[a] = calls[a].day,
           rule.capped /\ Tame => Amount(a) >= 0 /\ Fits(a, calls[a].day) /\ FewCalls(calls[a].day)
    PROVE  CapInv'
  <1>1. /\ calls[a] \in CallRecord /\ calls[a].verdict \in {"deny", "policy_approve"}
        /\ amounts \in [Actions -> Days \cup {Uncounted}] /\ amounts[a] \in Days \cup {Uncounted}
        /\ calls \in [Actions -> CallRecord]
    BY InHand
  <1>2. amounts' = [amounts EXCEPT ![a] = amounts[a]]
    BY <1>1
  <1>3. Passes(c) /\ c.pc # "count" /\ c.pc \in Locked /\ c.pc \in Undecided
    BY DEF Passes, Locked, Undecided, Pcs
  <1> QED
    BY <1>1, <1>2, <1>3, QuietMove, ZenonT(60) DEF HasRoom

\* What the rules say, past the totals.
LEMMA VerdictKeeps ==
    ASSUME CapInv, UNCHANGED <<storeVars, rule, amounts, grants, takers, restarts>>, faults' \in Nat,
           NEW a \in Actions, calls[a].pc \in {"lock", "total", "count"}, NEW over, Verdict(a, over),
           rule.capped => capMu = a /\ amounts[a] = calls[a].day,
           rule.capped /\ Tame /\ ~over => Fits(a, calls[a].day) /\ FewCalls(calls[a].day),
           rule.capped /\ Tame => Amount(a) >= 0 \/ (over /\ rule.denyMismatch)
    PROVE  CapInv'
  <1>0. calls[a].pc \in Undecided \ {"commit"}
    BY DEF Undecided, Pcs
  <1>1. /\ calls[a] \in CallRecord /\ calls[a].day # Uncounted /\ now \in Time /\ CallOK(a)
        /\ calls \in [Actions -> CallRecord]
    BY <1>0, InHand
  <1>2. CASE AskHuman(a)
    <2>1. ~(over /\ rule.denyMismatch) \/ Decide(a, "deny")
      BY DEF Verdict
    <2>2. ~(over /\ rule.denyMismatch)
      <3>1. AskHuman(a) => calls'[a].pc = "asking"
        BY <1>1 DEF AskHuman, Go
      <3>2. Decide(a, "deny") => calls'[a].pc = "commit"
        BY <1>1 DEF Decide
      <3> QED
        BY <1>2, <2>1, <3>1, <3>2
    <2> QED
      BY <1>0, <1>1, <1>2, <2>2, AskHumanKeeps
  <1>3. CASE over /\ rule.denyMismatch /\ Decide(a, "deny")
    BY <1>0, <1>1, <1>3, DenyKeeps DEF CallOK, LockOK
  <1>4. CASE ~over /\ ~rule.requireApproval /\ Decide(a, "policy_approve")
    BY <1>0, <1>4, AllowKeeps
  <1>5. CASE ~over /\ calls' = [calls EXCEPT ![a].pc = "select", ![a].at = now] /\ UNCHANGED capMu
    <2> DEFINE c == [calls[a] EXCEPT !.pc = "select", !.at = now]
    <2>1. c \in CallRecord /\ c.pc = "select" /\ c.day = calls[a].day /\ c.verdict = calls[a].verdict
      BY <1>1 DEF CallRecord, Pcs
    <2>2. calls' = [calls EXCEPT ![a] = c]
      BY <1>1, <1>5
    <2> HIDE DEF c
    <2> QED
      BY <1>0, <1>5, <2>1, <2>2, SelectKeeps
  <1>6. \/ AskHuman(a)
        \/ over /\ rule.denyMismatch /\ Decide(a, "deny")
        \/ ~over /\ ~rule.requireApproval /\ Decide(a, "policy_approve")
        \/ ~over /\ calls' = [calls EXCEPT ![a].pc = "select", ![a].at = now] /\ UNCHANGED capMu
    BY DEF Verdict
  <1> QED
    BY <1>2, <1>3, <1>4, <1>5, <1>6

\* A capped call takes the mutex, another is decided at once.
LEMMA LockKeeps ==
    ASSUME CapInv, NEW a \in Actions, Lock(a)
    PROVE  CapInv'
  <1>1. /\ calls[a].pc = "lock" /\ calls[a].pc \in Undecided \ {"commit"}
        /\ UNCHANGED <<storeVars, rule, amounts, grants, takers, restarts>> /\ faults' = faults
    BY DEF Lock, At, Undecided, Pcs
  <1>2. /\ calls[a] \in CallRecord /\ CallOK(a) /\ calls[a].verdict \in {"deny", "policy_approve"}
        /\ amounts \in [Actions -> Days \cup {Uncounted}] /\ amounts[a] \in Days \cup {Uncounted}
        /\ calls \in [Actions -> CallRecord] /\ faults' \in Nat
    BY <1>1, InHand
  <1>3. CASE rule.capped /\ capMu = NoAction /\ capMu' = a /\ Go(a, "record")
    <2> DEFINE c == [calls[a] EXCEPT !.pc = "record"]
    <2>1. c \in CallRecord /\ c.pc = "record" /\ c.verdict = calls[a].verdict
      BY <1>2 DEF CallRecord, Pcs
    <2>2. calls' = [calls EXCEPT ![a] = c]
      BY <1>3 DEF Go
    <2>3. amounts' = [amounts EXCEPT ![a] = amounts[a]] /\ amounts[a] = Uncounted
      BY <1>1, <1>2 DEF CallOK, StageOK
    <2>4. ~Passes(c) /\ c.pc # "count" /\ c.pc \in Locked /\ c.pc \in Undecided
      BY <2>1 DEF Passes, Locked, Undecided, Pcs
    <2> HIDE DEF c
    <2> QED
      BY <1>1, <1>2, <1>3, <2>1, <2>2, <2>3, <2>4, QuietMove DEF HasRoom
  <1>4. CASE ~rule.capped /\ Verdict(a, FALSE)
    BY <1>1, <1>2, <1>4, VerdictKeeps
  <1> QED
    BY <1>3, <1>4 DEF Lock

\* Its amount is put on record under the day it is decided in.
LEMMA RecordKeeps ==
    ASSUME CapInv, NEW a \in Actions, Record(a)
    PROVE  CapInv'
  <1>1. /\ calls[a].pc = "record" /\ calls[a].pc \in Undecided \ {"commit"} /\ calls[a].pc \in Locked
        /\ UNCHANGED <<storeVars, rule, grants, takers, restarts>>
    BY DEF Record, At, Undecided, Pcs, Locked
  <1>2. /\ calls[a] \in CallRecord /\ CallOK(a) /\ calls[a].verdict \in {"deny", "policy_approve"}
        /\ amounts \in [Actions -> Days \cup {Uncounted}]
        /\ calls \in [Actions -> CallRecord] /\ faults \in Nat /\ (Fault => faults' \in Nat)
        /\ Day(now) \in Days
    BY <1>1, InHand
  <1>3. amounts[a] = Uncounted /\ (rule.capped => capMu = a)
    BY <1>1, <1>2 DEF CallOK, StageOK, LockOK
  <1>4. CASE /\ amounts' = [amounts EXCEPT ![a] = IF @ = Uncounted THEN Day(now) ELSE @]
             /\ calls' = [calls EXCEPT ![a].pc = "total", ![a].day = Day(now)]
             /\ UNCHANGED <<capMu, faults>>
    <2> DEFINE c == [calls[a] EXCEPT !.pc = "total", !.day = Day(now)]
    <2>1. c \in CallRecord /\ c.pc = "total" /\ c.verdict = calls[a].verdict /\ c.day = Day(now)
      BY <1>2 DEF CallRecord, Pcs
    <2>2. calls' = [calls EXCEPT ![a] = c] /\ capMu' = capMu /\ faults' = faults
      BY <1>2, <1>4
    <2>3. amounts' = [amounts EXCEPT ![a] = Day(now)]
      BY <1>2, <1>3, <1>4
    <2>4. ~Passes(c) /\ c.pc # "count" /\ c.pc \in Locked /\ c.pc \in Undecided
      BY <2>1 DEF Passes, Locked, Undecided, Pcs
    <2> HIDE DEF c
    <2> QED
      BY <1>1, <1>2, <1>3, <2>1, <2>2, <2>3, <2>4, QuietMove DEF HasRoom
  <1>5. CASE Fault /\ Decide(a, "deny") /\ UNCHANGED amounts
    BY <1>1, <1>2, <1>3, <1>5, DenyKeeps
  <1> QED
    BY <1>4, <1>5 DEF Record

\* What fits beside everything that counts fits beside what the rules allowed.
LEMMA FitsBesideAll ==
    ASSUME CapInv, rule.capped, Tame, NEW a \in Actions, NEW d, Amount(a) \in Int
    PROVE  /\ ~(Total(Counted(d)) + Amount(a) > rule.maxPerDay) => Fits(a, d)
           /\ ~(Cardinality(Counted(d)) + 1 > rule.maxCallsPerDay) => FewCalls(d)
  <1>1. StoreInv /\ IsFiniteSet(Requested) /\ \A x \in Counted(d) : Amount(x) >= 0
    BY NothingNegative DEF CapInv
  <1>2. /\ Total(Counted(d)) \in Int /\ Total(Standing(d)) \in Int
        /\ Cardinality(Counted(d)) \in Nat /\ Cardinality(Standing(d)) \in Nat
        /\ Cardinality(Standing(d)) <= Cardinality(Counted(d))
    BY <1>1, CountedSums
  <1>3. Total(Standing(d)) <= Total(Counted(d))
    BY <1>1, StandingIsPart
  <1>4. rule.maxPerDay \in Nat /\ rule.maxCallsPerDay \in Nat
    BY CapAssumption DEF CapInv, CapTypeOK, ToolRule
  <1> QED
    BY <1>2, <1>3, <1>4 DEF Fits, FewCalls

\* The day's total is read.
LEMMA ReadTotalKeeps ==
    ASSUME CapInv, NEW a \in Actions, ReadTotal(a)
    PROVE  CapInv'
  <1> DEFINE over == Total(Counted(calls[a].day)) + Amount(a) > rule.maxPerDay
  <1>1. /\ calls[a].pc = "total" /\ calls[a].pc \in Undecided \ {"commit"} /\ calls[a].pc \in Locked
        /\ UNCHANGED <<storeVars, rule, amounts, grants, takers, restarts>>
    BY DEF ReadTotal, At, Undecided, Pcs, Locked
  <1>2. /\ calls[a] \in CallRecord /\ CallOK(a) /\ calls[a].verdict \in {"deny", "policy_approve"}
        /\ amounts \in [Actions -> Days \cup {Uncounted}] /\ amounts[a] \in Days \cup {Uncounted}
        /\ calls \in [Actions -> CallRecord] /\ faults \in Nat /\ (Fault => faults' \in Nat)
        /\ Amount(a) \in Int /\ (Args \subseteq Nat => Amount(a) >= 0)
    BY <1>1, InHand
  <1>3. rule.capped => capMu = a /\ amounts[a] = calls[a].day
    BY <1>1, <1>2 DEF CallOK, LockOK, CountedOK
  <1>4. CASE Outside(a) /\ Verdict(a, TRUE) /\ UNCHANGED faults
    <2>1. rule.capped /\ (Tame => Amount(a) >= 0 \/ rule.denyMismatch)
      BY <1>2, <1>4 DEF Outside, Tame
    <2> QED
      BY <1>1, <1>2, <1>3, <1>4, <2>1, VerdictKeeps
  <1>5. CASE ~Outside(a) /\ Decide(a, "deny") /\ (UNCHANGED faults \/ Fault)
    BY <1>1, <1>2, <1>3, <1>5, DenyKeeps
  <1>6. CASE /\ ~Outside(a) /\ ~(over /\ rule.denyMismatch)
             /\ calls' = [calls EXCEPT ![a].pc = "count", ![a].over = over]
             /\ UNCHANGED <<capMu, faults>>
    <2> DEFINE c == [calls[a] EXCEPT !.pc = "count", !.over = over]
    <2>0. over \in BOOLEAN
      OBVIOUS
    <2>1. /\ c \in CallRecord /\ c.pc = "count" /\ c.verdict = calls[a].verdict
          /\ c.day = calls[a].day /\ c.over = over
      <3> HIDE DEF over
      <3> QED
        BY <1>2, <2>0 DEF CallRecord, Pcs
    <2>2. calls' = [calls EXCEPT ![a] = c] /\ capMu' = capMu /\ faults' = faults
      BY <1>2, <1>6
    <2>3. amounts' = [amounts EXCEPT ![a] = amounts[a]]
      BY <1>1, <1>2
    <2>4. ~Passes(c) /\ c.pc \in Locked /\ c.pc \in Undecided
      BY <2>1 DEF Passes, Locked, Undecided, Pcs
    <2>5. rule.capped /\ Tame => Amount(a) >= 0 /\ (~over => Fits(a, calls[a].day))
      BY <1>2, <1>6, FitsBesideAll DEF Outside
    <2>6. rule.capped /\ Tame => HasRoom(a, c)
      BY <2>1, <2>4, <2>5 DEF HasRoom
    <2> HIDE DEF c, over
    <2> QED
      BY <1>1, <1>2, <1>3, <2>1, <2>2, <2>3, <2>4, <2>5, <2>6, QuietMove, ZenonT(60)
  <1>7. \/ Outside(a) /\ Verdict(a, TRUE) /\ UNCHANGED faults
        \/ ~Outside(a) /\ Decide(a, "deny") /\ (UNCHANGED faults \/ Fault)
        \/ /\ ~Outside(a) /\ ~(over /\ rule.denyMismatch)
           /\ calls' = [calls EXCEPT ![a].pc = "count", ![a].over = over]
           /\ UNCHANGED <<capMu, faults>>
    <2> HIDE DEF over
    <2> QED
      BY DEF ReadTotal, over
  <1> QED
    BY <1>4, <1>5, <1>6, <1>7

\* The day's calls are counted, and the rules have their say.
LEMMA ReadCountKeeps ==
    ASSUME CapInv, NEW a \in Actions, ReadCount(a)
    PROVE  CapInv'
  <1>1. /\ calls[a].pc = "count" /\ calls[a].pc \in Undecided \ {"commit"} /\ calls[a].pc \in Locked
        /\ UNCHANGED <<storeVars, rule, amounts, grants, takers, restarts>>
    BY DEF ReadCount, At, Undecided, Pcs, Locked
  <1>2. /\ CallOK(a) /\ RoomOK(a) /\ faults \in Nat /\ (Fault => faults' \in Nat) /\ Amount(a) \in Int
    BY <1>1, InHand
  <1>3. rule.capped => capMu = a /\ amounts[a] = calls[a].day
    BY <1>1, <1>2 DEF CallOK, LockOK, CountedOK
  <1>4. rule.capped /\ Tame => Amount(a) >= 0
    BY <1>1, <1>2 DEF CallOK, AmountOK
  <1> DEFINE many == Cardinality(Counted(calls[a].day)) + 1 > rule.maxCallsPerDay
             over == calls[a].over \/ many
  <1>5. CASE Verdict(a, over) /\ UNCHANGED faults
    <2>1. rule.capped /\ Tame /\ ~over => Fits(a, calls[a].day) /\ FewCalls(calls[a].day)
      BY <1>1, <1>2, FitsBesideAll DEF RoomOK, Fits
    <2> HIDE DEF over, many
    <2> QED
      BY <1>1, <1>2, <1>3, <1>4, <1>5, <2>1, VerdictKeeps
  <1>6. CASE Fault /\ Decide(a, "deny")
    BY <1>1, <1>2, <1>3, <1>6, DenyKeeps
  <1> QED
    BY <1>5, <1>6 DEF ReadCount

\* A call that looks for a grant was let pass by the caps.
LEMMA PassedIsInHand ==
    ASSUME CapInv, NEW a \in Actions, calls[a].pc \in {"select", "take"}
    PROVE  /\ calls[a].pc \in Undecided \ {"commit"}
           /\ rule.capped => capMu = a /\ amounts[a] = calls[a].day /\ amounts[a] # Uncounted
           /\ rule.capped /\ Tame => Amount(a) >= 0 /\ Fits(a, calls[a].day) /\ FewCalls(calls[a].day)
  <1>1. calls[a].pc \in Undecided \ {"commit"} /\ calls[a].pc \in Locked /\ Passed(a)
    BY DEF Undecided, Pcs, Locked, Passed
  <1>2. CallOK(a) /\ RoomOK(a) /\ calls[a].day # Uncounted
    BY <1>1, InHand
  <1>3. rule.capped => capMu = a /\ amounts[a] = calls[a].day
    BY <1>1, <1>2 DEF CallOK, LockOK, CountedOK
  <1>4. rule.capped /\ Tame => Amount(a) >= 0 /\ Fits(a, calls[a].day) /\ FewCalls(calls[a].day)
    BY <1>1, <1>2 DEF CallOK, AmountOK, RoomOK, Fits, FewCalls
  <1> QED
    BY <1>1, <1>2, <1>3, <1>4

\* A grant is looked up.
LEMMA SelectGrantKeeps ==
    ASSUME CapInv, NEW a \in Actions, SelectGrant(a)
    PROVE  CapInv'
  <1>1. /\ calls[a].pc = "select" /\ calls[a].pc \in Undecided \ {"commit"}
        /\ UNCHANGED <<storeVars, rule, amounts, grants, takers, restarts>>
        /\ rule.capped => capMu = a /\ amounts[a] = calls[a].day /\ amounts[a] # Uncounted
        /\ rule.capped /\ Tame => Amount(a) >= 0 /\ Fits(a, calls[a].day) /\ FewCalls(calls[a].day)
    BY PassedIsInHand DEF SelectGrant, At
  <1>2. /\ calls[a] \in CallRecord /\ faults \in Nat /\ (Fault => faults' \in Nat)
        /\ calls \in [Actions -> CallRecord]
    BY <1>1, InHand
  <1>3. ASSUME NEW g \in Grants, UNCHANGED <<capMu, faults>>,
               calls' = [calls EXCEPT ![a].pc = "take", ![a].grant = g, ![a].uses = grants[g].uses]
        PROVE  CapInv'
    <2> DEFINE c == [calls[a] EXCEPT !.pc = "take", !.grant = g, !.uses = grants[g].uses]
    <2>1. grants[g].uses \in 0 .. MaxUses
      BY DEF CapInv, CapTypeOK, GrantRecord
    <2>2. /\ c \in CallRecord /\ c.pc = "take" /\ c.grant \in Grants
          /\ c.verdict = calls[a].verdict /\ c.day = calls[a].day
      BY <1>2, <2>1 DEF CallRecord, Pcs
    <2>3. calls' = [calls EXCEPT ![a] = c] /\ capMu' = capMu /\ faults' = faults
      BY <1>2, <1>3
    <2> HIDE DEF c
    <2> QED
      BY <1>1, <1>2, <2>2, <2>3, SelectKeeps
  <1>4. CASE AskHuman(a) /\ (UNCHANGED faults \/ Fault)
    BY <1>1, <1>2, <1>4, AskHumanKeeps
  <1>5. \/ AskHuman(a) /\ (UNCHANGED faults \/ Fault)
        \/ \E g \in Grants :
              /\ calls' = [calls EXCEPT ![a].pc = "take", ![a].grant = g, ![a].uses = grants[g].uses]
              /\ UNCHANGED <<capMu, faults>>
    BY DEF SelectGrant
  <1> QED
    BY <1>3, <1>4, <1>5

\* One use of a grant is taken, by a call that took none before.
LEMMA UseKeeps ==
    ASSUME CapInv, UNCHANGED <<storeVars, rule, amounts, restarts, faults>>,
           NEW a \in Actions, calls[a].pc = "take", Decide(a, "policy_approve"),
           NEW g \in Grants, grants[g].uses < grants[g].max,
           grants' = [grants EXCEPT ![g].uses = @ + 1],
           takers' = [takers EXCEPT ![g] = @ \cup {a}]
    PROVE  CapInv'
  <1> DEFINE c == [calls[a] EXCEPT !.pc = "commit", !.verdict = "policy_approve"]
  <1>1. /\ calls[a].pc \in Undecided \ {"commit"}
        /\ rule.capped => capMu = a /\ amounts[a] = calls[a].day /\ amounts[a] # Uncounted
        /\ rule.capped /\ Tame => Amount(a) >= 0 /\ Fits(a, calls[a].day) /\ FewCalls(calls[a].day)
    BY PassedIsInHand
  <1>2. /\ calls[a] \in CallRecord /\ calls \in [Actions -> CallRecord] /\ CallOK(a) /\ Known(a)
        /\ amounts \in [Actions -> Days \cup {Uncounted}] /\ amounts[a] \in Days \cup {Uncounted}
        /\ grants \in [Grants -> GrantRecord] /\ takers \in [Grants -> SUBSET Actions]
    BY <1>1, InHand DEF CapInv, CapTypeOK
  <1>3. /\ StoreInv' /\ TypeOK' /\ IsFiniteSet(Requested)'
        /\ \A x \in Actions : Fades(x) /\ Amount(x)' = Amount(x)
    BY QuietLedger
  <1>4. c \in CallRecord /\ c.pc = "commit" /\ c.verdict = "policy_approve" /\ c.day = calls[a].day
    BY <1>2 DEF CallRecord, Pcs, Verdicts
  <1>5. /\ calls' = [calls EXCEPT ![a] = c] /\ capMu' = capMu
        /\ calls' \in [Actions -> CallRecord] /\ calls'[a] = c
        /\ \A x \in Actions \ {a} : calls'[x] = calls[x]
    BY <1>2, <1>4 DEF Decide
  <1>6. Passes(c) /\ c.pc \in Locked /\ c.pc \in Undecided /\ c.pc # "take"
        /\ c.pc \notin {"idle", "lock", "record", "total", "count", "asking"}
    BY <1>4 DEF Passes, Locked, Undecided, Pcs
  <1> HIDE DEF c
  <1>7. \A h \in Grants : a \notin takers[h]
    BY <1>2 DEF CallOK, TakerOK
  <1>8. /\ takers' \in [Grants -> SUBSET Actions] /\ takers'[g] = takers[g] \cup {a}
        /\ \A h \in Grants \ {g} : takers'[h] = takers[h]
    BY <1>2
  <1>9. /\ grants'[g] = [grants[g] EXCEPT !.uses = @ + 1]
        /\ \A h \in Grants \ {g} : grants'[h] = grants[h]
    BY <1>2
  <1>10. grants[g] \in GrantRecord /\ MaxUses \in Nat
    BY <1>2, Numbers
  <1>11. /\ grants'[g] \in GrantRecord /\ grants'[g].uses = grants[g].uses + 1
         /\ grants'[g].max = grants[g].max /\ grants'[g].issued = grants[g].issued
         /\ grants'[g].uses <= grants'[g].max
    BY <1>9, <1>10 DEF GrantRecord
  <1>12. grants' \in [Grants -> GrantRecord]
    BY <1>2, <1>11
  <1>13. \A h \in Grants : GrantOK(h)'
    <2>1. \A h \in Grants : GrantOK(h)
      BY DEF CapInv
    <2>2. /\ IsFiniteSet(takers[g]) /\ grants[g].uses = Cardinality(takers[g]) /\ a \notin takers[g]
          /\ ~grants[g].issued => grants[g].max = 0
      BY <1>7, <2>1 DEF GrantOK
    <2>3. IsFiniteSet(takers'[g]) /\ Cardinality(takers'[g]) = Cardinality(takers[g]) + 1
      BY <1>8, <2>2, FS_AddElement
    <2>4. GrantOK(g)'
      BY <1>11, <2>2, <2>3 DEF GrantOK
    <2>5. \A h \in Grants \ {g} : GrantOK(h)'
      BY <1>8, <1>9, <2>1 DEF GrantOK
    <2> QED
      BY <2>4, <2>5
  <1>14. CapTypeOK'
    BY <1>3, <1>5, <1>8, <1>12 DEF CapInv, CapTypeOK
  <1>15. \A x \in Actions \ {a} : Fades(x) /\ SamePlace(x)
    BY <1>3, <1>5, <1>8 DEF SamePlace
  <1>16. receipts'[a] = <<>> /\ rows'[a] = rows[a] /\ rows[a].decision # "allow"
    <2>1. receipts[a] = <<>>
      BY <1>1, <1>2 DEF CallOK, StageOK
    <2>2. rows[a].decision # "allow"
      BY <2>1, EmptyIsNotAllowed DEF CapInv
    <2> QED
      BY <2>1, <2>2 DEF storeVars
  <1>17. \A d \in Days : a \notin Standing(d)'
    BY <1>16 DEF Standing, PolicyAllowed
  <1>18. CallOK(a)'
    <2>1. StageOK(a)'
      BY <1>2, <1>4, <1>5, <1>6, <1>16 DEF StageOK, Known
    <2>2. LockOK(a)'
      BY <1>1, <1>5, <1>6 DEF LockOK
    <2>3. CountedOK(a)'
      BY <1>1, <1>4, <1>5, <1>6, <1>16 DEF CountedOK
    <2>4. AmountOK(a)'
      BY <1>1, <1>3, <1>5 DEF AmountOK, Tame
    <2>5. TakerOK(a)'
      BY <1>4, <1>5, <1>7, <1>8 DEF TakerOK
    <2> QED
      BY <2>1, <2>2, <2>3, <2>4, <2>5 DEF CallOK
  <1>19. rule.capped /\ Tame => HasRoom(a, c)
    BY <1>1, <1>4, <1>6 DEF HasRoom
  <1> QED
    BY <1>2, <1>3, <1>5, <1>13, <1>14, <1>15, <1>17, <1>18, <1>19, OthersKeep

\* The use is taken, or looked for again, or a human is asked.
LEMMA TakeGrantKeeps ==
    ASSUME CapInv, NEW a \in Actions, TakeGrant(a)
    PROVE  CapInv'
  <1>1. /\ calls[a].pc = "take" /\ calls[a].pc \in Undecided \ {"commit"}
        /\ UNCHANGED <<storeVars, rule, amounts, restarts>>
        /\ rule.capped => capMu = a /\ amounts[a] = calls[a].day /\ amounts[a] # Uncounted
        /\ rule.capped /\ Tame => Amount(a) >= 0 /\ Fits(a, calls[a].day) /\ FewCalls(calls[a].day)
    BY PassedIsInHand DEF TakeGrant, At
  <1>2. /\ calls[a] \in CallRecord /\ faults \in Nat /\ (Fault => faults' \in Nat)
        /\ calls \in [Actions -> CallRecord] /\ CallOK(a)
    BY <1>1, InHand
  <1> DEFINE g == calls[a].grant
  <1>3. CASE /\ Takable(g, calls[a].at, calls[a].uses)
             /\ grants' = [grants EXCEPT ![g].uses = @ + 1]
             /\ takers' = [takers EXCEPT ![g] = @ \cup {a}]
             /\ Decide(a, "policy_approve")
             /\ UNCHANGED faults
    <2>1. g \in Grants
      BY <1>1, <1>2 DEF CallOK, StageOK
    <2>2. grants[g].uses < grants[g].max
      BY <1>3 DEF Takable, Live
    <2> HIDE DEF g
    <2> QED
      BY <1>1, <1>3, <2>1, <2>2, UseKeeps
  <1>4. CASE /\ calls[a].tries < 2
             /\ calls' = [calls EXCEPT ![a].pc = "select", ![a].tries = @ + 1] /\ UNCHANGED capMu
             /\ UNCHANGED <<grants, takers, faults>>
    <2> DEFINE c == [calls[a] EXCEPT !.pc = "select", !.tries = @ + 1]
    <2>1. calls[a].tries + 1 \in 0 .. 2
      BY <1>2, <1>4 DEF CallRecord
    <2>2. c \in CallRecord /\ c.pc = "select" /\ c.verdict = calls[a].verdict /\ c.day = calls[a].day
      BY <1>2, <2>1 DEF CallRecord, Pcs
    <2>3. calls' = [calls EXCEPT ![a] = c]
      BY <1>2, <1>4
    <2> HIDE DEF c
    <2> QED
      BY <1>1, <1>2, <1>4, <2>2, <2>3, SelectKeeps
  <1>5. CASE AskHuman(a) /\ (UNCHANGED faults \/ Fault) /\ UNCHANGED <<grants, takers>>
    BY <1>1, <1>2, <1>5, AskHumanKeeps
  <1> QED
    BY <1>3, <1>4, <1>5 DEF TakeGrant

-----------------------------------------------------------------------------
\* The steps that decide.

\* A statement of the ledger keeps the ledger's invariant.
LEMMA StatementKeeps ==
    ASSUME StoreInv, NEW a \in Actions, Statement(a)
    PROVE  StoreInv' /\ TypeOK'
  <1>1. StoreNext
    BY DEF StoreNext
  <1>2. StoreInv'
    BY <1>1, StoreInvStep
  <1>3. StoreInv' => TypeOK'
    BY StoreInvImplies, PTL
  <1> QED
    BY <1>2, <1>3

\* A decision, by whomever, and who is asked for it.
LEMMA Decides1 ==
    ASSUME CapInv, NEW a \in Actions, calls[a].pc \in {"commit", "asking"}, NEW d \in Verdicts,
           DecideToolActionWithReceipt(a, rows[a].bind, AtDecision(a, d), now)
    PROVE  /\ StoreInv' /\ TypeOK' /\ IsFiniteSet(Requested)'
           /\ Amount(a)' = Amount(a) /\ Known(a)'
           /\ rows'[a].decision = "allow" => d # "deny"
           /\ PolicyAllowed(a)' => d = "policy_approve"
           /\ \A x \in Actions \ {a} : Fades(x)
  <1>1. /\ StoreInv /\ receipts[a] = <<>> /\ Known(a)
    BY DEF CapInv, CallOK, StageOK, Undecided, Pcs
  <1> DEFINE v == AtDecision(a, d)
  <1>2. v \in Verdicts /\ v \in {d, "deny"}
    BY DEF AtDecision, Verdicts
  <1>3. DecideToolActionWithReceipt(a, rows[a].bind, v, now)
    OBVIOUS
  <1> HIDE DEF v
  <1>4. /\ rows'[a].bind = rows[a].bind /\ Known(a)'
        /\ \/ receipts'[a] = <<>> /\ rows'[a].decision # "allow"
           \/ /\ receipts'[a] # <<>> /\ receipts'[a][1].decision = v
              /\ rows'[a].decision = "allow" => v # "deny"
        /\ \A x \in Actions \ {a} : rows'[x] = rows[x] /\ receipts'[x] = receipts[x]
    BY <1>1, <1>2, <1>3, DecisionShape
  <1>5. Statement(a)
    <2>1. now \in 0 .. now
      <3>1. now \in Nat
        BY <1>1, Numbers DEF StoreInv, Time
      <3> QED
        BY <3>1
    <2> QED
      BY <1>1, <1>2, <1>3, <2>1 DEF Statement
  <1>6. StoreInv' /\ TypeOK'
    BY <1>1, <1>5, StatementKeeps
  <1>7. Requested' = Requested
    BY <1>1, <1>4 DEF Requested, Known
  <1>8. IsFiniteSet(Requested)'
    BY <1>7 DEF CapInv
  <1>9. \A x \in Actions \ {a} : Fades(x)
    BY <1>4 DEF Fades, Known
  <1>10. PolicyAllowed(a)' => v = "policy_approve"
    BY <1>4 DEF PolicyAllowed
  <1> QED
    BY <1>2, <1>4, <1>6, <1>8, <1>9, <1>10 DEF Amount

\* A human decides: nothing is allowed by the rules, and the caps stay.
LEMMA HumanDecidesKeeps ==
    ASSUME CapInv, NEW a \in Actions, HumanDecides(a)
    PROVE  CapInv'
  <1>1. /\ calls[a].pc = "asking" /\ Go(a, "over")
        /\ UNCHANGED <<rule, capMu, amounts, grants, takers, faults, restarts>>
    BY DEF HumanDecides, At
  <1>2. PICK d \in {"approve", "deny"} :
            DecideToolActionWithReceipt(a, rows[a].bind, AtDecision(a, d), now)
    BY DEF HumanDecides
  <1>3. /\ StoreInv' /\ TypeOK' /\ IsFiniteSet(Requested)'
        /\ Amount(a)' = Amount(a) /\ Known(a)' /\ ~PolicyAllowed(a)'
        /\ \A x \in Actions \ {a} : Fades(x)
    <2>1. d \in Verdicts /\ d # "policy_approve"
      BY DEF Verdicts
    <2> QED
      BY <1>1, <1>2, <2>1, Decides1
  <1>4. /\ calls \in [Actions -> CallRecord] /\ CallOK(a)
        /\ amounts \in [Actions -> Days \cup {Uncounted}]
    BY DEF CapInv, CapTypeOK
  <1> DEFINE c == [calls[a] EXCEPT !.pc = "over"]
  <1>5. /\ c \in CallRecord /\ c.pc = "over" /\ c.verdict = calls[a].verdict
        /\ calls' = [calls EXCEPT ![a] = c]
    BY <1>1, <1>4 DEF CallRecord, Pcs, Go
  <1> HIDE DEF c
  <1>6. /\ calls' \in [Actions -> CallRecord] /\ calls'[a] = c
        /\ \A x \in Actions \ {a} : calls'[x] = calls[x]
    BY <1>4, <1>5
  <1>7. CapTypeOK'
    BY <1>1, <1>3, <1>6 DEF CapInv, CapTypeOK
  <1>8. \A x \in Actions \ {a} : Fades(x) /\ SamePlace(x)
    BY <1>1, <1>3, <1>6 DEF SamePlace
  <1>9. \A e \in Days : a \notin Standing(e)'
    BY <1>3 DEF Standing
  <1>10. c.pc \notin Undecided /\ c.pc \notin Locked /\ ~Passes(c) /\ ~Passed(a)'
    BY <1>5, <1>6 DEF Undecided, Locked, Passes, Passed
  <1>11. CallOK(a)'
    <2>1. StageOK(a)'
      BY <1>3, <1>4, <1>5, <1>6, <1>10 DEF CallOK, StageOK
    <2>2. LockOK(a)'
      BY <1>1, <1>4, <1>6, <1>10 DEF CallOK, LockOK, Locked
    <2>3. CountedOK(a)'
      BY <1>1, <1>4, <1>5, <1>6, <1>10 DEF CallOK, CountedOK
    <2>4. AmountOK(a)'
      BY <1>1, <1>3, <1>4, <1>5, <1>6, <1>10 DEF CallOK, AmountOK, Tame
    <2>5. TakerOK(a)'
      BY <1>1, <1>3, <1>4, <1>5, <1>6 DEF CallOK, TakerOK
    <2> QED
      BY <2>1, <2>2, <2>3, <2>4, <2>5 DEF CallOK
  <1>12. \A g \in Grants : GrantOK(g)'
    BY <1>1 DEF CapInv, GrantOK
  <1> QED
    BY <1>1, <1>3, <1>5, <1>6, <1>7, <1>8, <1>9, <1>10, <1>11, <1>12, OthersKeep

\* The rules' own decision is written: what was found to fit is added, and no
\* other call has been found to fit beside it.
LEMMA CommitKeeps ==
    ASSUME CapInv, NEW a \in Actions, Commit(a)
    PROVE  CapInv'
  <1>1. /\ calls[a].pc = "commit" /\ Go(a, "over") /\ Unlocked(a)
        /\ UNCHANGED <<rule, amounts, grants, takers, restarts>>
    BY DEF Commit, At
  <1>2. /\ calls \in [Actions -> CallRecord] /\ calls[a] \in CallRecord /\ CallOK(a) /\ RoomOK(a)
        /\ amounts \in [Actions -> Days \cup {Uncounted}]
        /\ capMu \in Actions \cup {NoAction} /\ NoAction \notin Actions
        /\ calls[a].verdict \in {"deny", "policy_approve"} /\ calls[a].verdict \in Verdicts
        /\ receipts[a] = <<>> /\ Known(a) /\ faults \in Nat
        /\ calls[a].day \in Days /\ calls[a].day # Uncounted
    BY <1>1, Numbers DEF CapInv, CapTypeOK, CallRecord, CallOK, StageOK, Undecided, Pcs, Verdicts
  <1>3. /\ StoreInv' /\ TypeOK' /\ IsFiniteSet(Requested)' /\ faults' \in Nat
        /\ Amount(a)' = Amount(a) /\ Known(a)'
        /\ rows'[a].decision = "allow" => calls[a].verdict = "policy_approve"
        /\ PolicyAllowed(a)' => calls[a].verdict = "policy_approve"
        /\ \A x \in Actions \ {a} : Fades(x)
    <2>1. CASE DecideToolActionWithReceipt(a, rows[a].bind, AtDecision(a, calls[a].verdict), now)
               /\ UNCHANGED faults
      BY <1>1, <1>2, <2>1, Decides1
    <2>2. CASE Fault /\ UNCHANGED storeVars
      <3>1. /\ StoreInv' /\ TypeOK' /\ IsFiniteSet(Requested)'
            /\ \A x \in Actions : Fades(x) /\ Amount(x)' = Amount(x)
        BY <2>2, QuietLedger
      <3>2. ~PolicyAllowed(a)' /\ rows'[a].decision # "allow" /\ Known(a)'
        BY <1>2, <2>2, EmptyIsNotAllowed DEF CapInv, PolicyAllowed, storeVars, Known
      <3> QED
        BY <1>2, <2>2, <3>1, <3>2 DEF Fault
    <2> QED
      BY <2>1, <2>2 DEF Commit
  <1> DEFINE c == [calls[a] EXCEPT !.pc = "over"]
  <1>4. /\ c \in CallRecord /\ c.pc = "over" /\ c.verdict = calls[a].verdict
        /\ calls' = [calls EXCEPT ![a] = c]
    BY <1>1, <1>2 DEF CallRecord, Pcs, Go
  <1> HIDE DEF c
  <1>5. /\ calls' \in [Actions -> CallRecord] /\ calls'[a] = c
        /\ \A x \in Actions \ {a} : calls'[x] = calls[x]
    BY <1>2, <1>4
  <1>6. capMu' = (IF capMu = a THEN NoAction ELSE capMu) /\ capMu' # a /\ capMu' \in Actions \cup {NoAction}
    BY <1>1, <1>2 DEF Unlocked
  <1>7. CapTypeOK'
    BY <1>1, <1>3, <1>5, <1>6 DEF CapInv, CapTypeOK
  <1>8. \A x \in Actions \ {a} : Fades(x) /\ SamePlace(x)
    BY <1>1, <1>2, <1>3, <1>5, <1>6 DEF SamePlace
  <1>9. rule.capped => capMu = a
    BY <1>1, <1>2 DEF CallOK, LockOK, Locked
  <1>10. c.pc \notin Undecided /\ c.pc \notin Locked /\ c.pc # "count" /\ ~Passed(a)'
    BY <1>4, <1>5 DEF Undecided, Locked, Passed
  <1>11. calls[a].verdict = "policy_approve" => Passed(a)
    BY <1>1 DEF Passed
  <1>12. CallOK(a)'
    <2>1. StageOK(a)'
      BY <1>2, <1>3, <1>4, <1>5, <1>10 DEF CallOK, StageOK
    <2>2. LockOK(a)'
      BY <1>5, <1>6, <1>10 DEF LockOK
    <2>3. CountedOK(a)'
      BY <1>1, <1>2, <1>3, <1>4, <1>5, <1>10, <1>11 DEF CallOK, CountedOK
    <2>4. AmountOK(a)'
      BY <1>1, <1>2, <1>3, <1>4, <1>5, <1>10, <1>11 DEF CallOK, AmountOK, Tame
    <2>5. TakerOK(a)'
      BY <1>1, <1>2, <1>3, <1>4, <1>5, <1>11 DEF CallOK, TakerOK
    <2> QED
      BY <2>1, <2>2, <2>3, <2>4, <2>5 DEF CallOK
  <1>13. ASSUME NEW x \in Actions
         PROVE  CallOK(x)' /\ RoomOK(x)'
    <2>1. CASE x = a
      BY <1>5, <1>10, <1>12, <2>1 DEF RoomOK
    <2>2. CASE x # a
      <3>1. CallOK(x) /\ Fades(x) /\ SamePlace(x)
        BY <1>8, <2>2 DEF CapInv
      <3>2. CallOK(x)'
        BY <1>1, <3>1, CallStays
      <3>3. rule.capped => calls'[x].pc \notin Locked
        BY <1>9, <2>2, <3>1 DEF CallOK, LockOK, SamePlace
      <3>4. RoomOK(x)'
        BY <1>1, <3>3 DEF RoomOK, Passed, Locked
      <3> QED
        BY <3>2, <3>4
    <2> QED
      BY <2>1, <2>2
  <1>14. RulesStayWithinCaps'
    <2>1. SUFFICES ASSUME rule.capped, Tame, NEW d \in Days
                   PROVE  /\ Total(Standing(d))' <= rule.maxPerDay
                          /\ Cardinality(Standing(d)') <= rule.maxCallsPerDay
      BY <1>1 DEF RulesStayWithinCaps, Tame, Standing
    <2>2. /\ Standing(d)' \subseteq Standing(d) \cup {a}
          /\ \A x \in Standing(d)' \ {a} : Amount(x)' = Amount(x)
      <3>1. \A x \in Actions \ {a} : Fades(x) /\ amounts'[x] = amounts[x]
        BY <1>8 DEF SamePlace
      <3> QED
        BY <1>3, <3>1, StandingFades
    <2>3. StoreInv /\ IsFiniteSet(Requested) /\ \A x \in Counted(d) : Amount(x) >= 0
      BY <2>1, NothingNegative DEF CapInv
    <2>4. Total(Standing(d)) \in Int /\ Cardinality(Standing(d)) \in Nat /\ Amount(a) \in Int
      BY <1>2, <2>3, CountedSums, AmountIsInt
    <2>5. rule.maxPerDay \in Nat /\ rule.maxCallsPerDay \in Nat
      BY CapAssumption DEF CapInv, CapTypeOK, ToolRule
    <2>6. CASE a \notin Standing(d)'
      <3>1. Standing(d)' \subseteq Standing(d) /\ \A x \in Standing(d)' : Amount(x)' = Amount(x)
        BY <2>2, <2>6
      <3>2. /\ Total(Standing(d))' \in Int /\ Total(Standing(d))' <= Total(Standing(d))
            /\ Cardinality(Standing(d)') \in Nat
            /\ Cardinality(Standing(d)') <= Cardinality(Standing(d))
        BY <1>3, <2>3, <3>1, RoomStays
      <3>3. Total(Standing(d)) <= rule.maxPerDay /\ Cardinality(Standing(d)) <= rule.maxCallsPerDay
        BY <2>1 DEF CapInv, RulesStayWithinCaps, Tame, Standing
      <3> QED
        BY <2>4, <2>5, <3>2, <3>3
    <2>7. CASE a \in Standing(d)'
      <3>1. amounts'[a] = d /\ PolicyAllowed(a)'
        BY <2>7 DEF Standing, Counted
      <3>2. Passed(a) /\ amounts[a] = d
        BY <1>1, <1>3, <1>11, <3>1
      <3>3. calls[a].day = d
        BY <1>2, <2>1, <3>2 DEF CallOK, CountedOK
      <3>4. a \notin Standing(d) /\ Amount(a) >= 0
        BY <1>2, <2>1, <3>2 DEF Standing, PolicyAllowed, CallOK, AmountOK
      <3>5. \A x \in Standing(d)' : Amount(x)' = Amount(x)
        BY <1>3, <2>2
      <3>6. /\ Total(Standing(d))' \in Int /\ Total(Standing(d))' <= Total(Standing(d)) + Amount(a)
            /\ Cardinality(Standing(d)') \in Nat
            /\ Cardinality(Standing(d)') <= Cardinality(Standing(d)) + 1
        BY <1>2, <1>3, <2>2, <2>3, <3>4, <3>5, OneMore
      <3>7. /\ Total(Standing(d)) + Amount(a) <= rule.maxPerDay
            /\ Cardinality(Standing(d)) + 1 <= rule.maxCallsPerDay
        BY <1>2, <2>1, <3>2, <3>3 DEF RoomOK
      <3> QED
        BY <2>4, <2>5, <3>6, <3>7
    <2> QED
      BY <2>6, <2>7
  <1>15. \A g \in Grants : GrantOK(g)'
    BY <1>1 DEF CapInv, GrantOK
  <1> QED
    BY <1>3, <1>7, <1>13, <1>14, <1>15 DEF CapInv

-----------------------------------------------------------------------------
\* The other steps.

\* A call arrives.
LEMMA ArriveKeeps ==
    ASSUME CapInv, NEW a \in Actions, Arrive(a)
    PROVE  CapInv'
  <1>1. /\ calls[a].pc = "idle" /\ ~Known(a) /\ Go(a, "lock")
        /\ UNCHANGED <<rule, capMu, amounts, grants, takers, faults, restarts>>
    BY DEF Arrive, At
  <1>2. /\ StoreInv /\ calls \in [Actions -> CallRecord] /\ CallOK(a) /\ receipts[a] = <<>>
    BY <1>1, LedgerSays DEF CapInv, CapTypeOK
  <1>3. PICK k \in Args, p \in Policies :
            ReserveToolAction(a, [args |-> k, policy |-> p, expires |-> now + Window])
    BY DEF Arrive
  <1> DEFINE b == [args |-> k, policy |-> p, expires |-> now + Window]
             r == [status |-> "pending", bind |-> b, decision |-> "", consumedAt |-> 0]
  <1>4. b \in Bindings
    <2>1. now + Window \in Time
      <3>1. now \in Nat /\ Window \in Nat /\ now + Window <= Horizon /\ Horizon \in Nat
        BY <1>2, Numbers DEF Arrive, StoreInv, Time
      <3> QED
        BY <3>1 DEF Time
    <2> QED
      BY <2>1 DEF Bindings
  <1>5. StoreInv' /\ TypeOK'
    <2>1. Statement(a)
      BY <1>3, <1>4 DEF Statement
    <2> QED
      BY <1>2, <2>1, StatementKeeps
  <1>6. rows' = [rows EXCEPT ![a] = r] /\ receipts' = receipts
    BY <1>1, <1>3 DEF ReserveToolAction, Write
  <1>7. /\ rows'[a] = r /\ r.status = "pending" /\ r.decision = ""
        /\ \A x \in Actions \ {a} : rows'[x] = rows[x]
    BY <1>2, <1>6 DEF StoreInv
  <1> HIDE DEF b, r
  <1>8. Known(a)' /\ rows'[a].decision # "allow" /\ ~PolicyAllowed(a)'
    BY <1>2, <1>6, <1>7 DEF Known, PolicyAllowed
  <1>9. IsFiniteSet(Requested)'
    <2>1. Requested' \subseteq Requested \cup {a}
      BY <1>7 DEF Requested, Known
    <2>2. IsFiniteSet(Requested \cup {a})
      BY FS_AddElement DEF CapInv
    <2>3. IsFiniteSet(Requested')
      BY <2>1, <2>2, FS_Subset
    <2> QED
      BY <2>3
  <1> DEFINE c == [calls[a] EXCEPT !.pc = "lock"]
  <1>10. /\ c \in CallRecord /\ c.pc = "lock" /\ c.verdict = calls[a].verdict
         /\ calls' = [calls EXCEPT ![a] = c]
    BY <1>1, <1>2 DEF CallRecord, Pcs, Go
  <1> HIDE DEF c
  <1>11. /\ calls' \in [Actions -> CallRecord] /\ calls'[a] = c
         /\ \A x \in Actions \ {a} : calls'[x] = calls[x]
    BY <1>2, <1>10
  <1>12. CapTypeOK'
    BY <1>1, <1>5, <1>11 DEF CapInv, CapTypeOK
  <1>13. \A x \in Actions \ {a} : Fades(x) /\ SamePlace(x)
    BY <1>1, <1>6, <1>7, <1>11 DEF Fades, Known, SamePlace
  <1>14. \A d \in Days : a \notin Standing(d)'
    BY <1>8 DEF Standing
  <1>15. ~Passes(c) /\ ~Passed(a)'
    BY <1>10, <1>11 DEF Passes, Passed
  <1>16. CallOK(a)'
    <2>1. StageOK(a)'
      BY <1>1, <1>2, <1>6, <1>8, <1>10, <1>11 DEF CallOK, StageOK
    <2>2. LockOK(a)'
      BY <1>1, <1>2, <1>10, <1>11 DEF CallOK, LockOK, Locked
    <2>3. CountedOK(a)'
      BY <1>8, <1>10, <1>11, <1>15 DEF CountedOK
    <2>4. AmountOK(a)'
      BY <1>8, <1>10, <1>11, <1>15 DEF AmountOK
    <2>5. TakerOK(a)'
      BY <1>1, <1>2, <1>8, <1>10, <1>11 DEF CallOK, TakerOK
    <2> QED
      BY <2>1, <2>2, <2>3, <2>4, <2>5 DEF CallOK
  <1>17. \A g \in Grants : GrantOK(g)'
    BY <1>1 DEF CapInv, GrantOK
  <1> QED
    BY <1>1, <1>5, <1>9, <1>10, <1>11, <1>12, <1>13, <1>14, <1>15, <1>16, <1>17, OthersKeep

\* Steps after which no call is nearer to its decision than before.
LEMMA AllFadeKeeps ==
    ASSUME CapInv, StoreInv', CapTypeOK', rule' = rule,
           \A a \in Actions : /\ Fades(a) /\ amounts'[a] = amounts[a] /\ CallOK(a)'
                              /\ calls'[a] = calls[a] \/ calls'[a].pc \in {"idle", "over"},
           \A g \in Grants : GrantOK(g)'
    PROVE  CapInv'
  <1>1. NoAction \notin Actions
    BY Numbers
  <1>2. \A d \in Days : NoAction \notin Standing(d)'
    BY <1>1 DEF Standing, Counted
  <1> DEFINE Less == \A d \in Days :
                 /\ Total(Standing(d))' \in Int /\ Total(Standing(d))' <= Total(Standing(d))
                 /\ Cardinality(Standing(d)') \in Nat
                 /\ Cardinality(Standing(d)') <= Cardinality(Standing(d))
                 /\ Total(Standing(d)) \in Int /\ Cardinality(Standing(d)) \in Nat
  <1>3. RulesStayWithinCaps' /\ (rule.capped /\ Tame => Less)
    BY <1>2, CapsStay
  <1>4. ASSUME NEW a \in Actions
        PROVE  RoomOK(a)'
    <2>1. Fades(a) /\ CallOK(a)
      BY DEF CapInv
    <2>2. CASE calls'[a] = calls[a] /\ Known(a)
      <3>1. Amount(a)' = Amount(a)
        BY <2>1 DEF Fades, Amount
      <3> QED
        BY <1>3, <2>2, <3>1, RoomKept
    <2>3. CASE calls'[a].pc \in {"idle", "over"}
      BY <2>3 DEF RoomOK, Passed
    <2>4. CASE calls'[a] = calls[a] /\ ~Known(a)
      <3>1. calls'[a].pc = "idle"
        BY <2>1, <2>4 DEF CallOK, StageOK
      <3> QED
        BY <2>3, <3>1
    <2> QED
      BY <2>2, <2>3, <2>4
  <1>5. IsFiniteSet(Requested)'
    <2>1. Requested' = Requested
      BY DEF Requested, Fades
    <2> QED
      BY <2>1 DEF CapInv
  <1> QED
    BY <1>3, <1>4, <1>5 DEF CapInv

\* The permit is polled, revoked or consumed meanwhile, or time passes.
LEMMA PermitsMoveKeeps ==
    ASSUME CapInv, StoreNext, UNCHANGED capVars, \A x \in Actions : Fades(x)
    PROVE  CapInv'
  <1>1. StoreInv' /\ TypeOK'
    <2>1. StoreInv'
      BY StoreInvStep DEF CapInv
    <2>2. StoreInv' => TypeOK'
      BY StoreInvImplies, PTL
    <2> QED
      BY <2>1, <2>2
  <1>2. UNCHANGED <<rule, calls, capMu, amounts, grants, takers, faults, restarts>>
    BY DEF capVars
  <1>3. CapTypeOK'
    BY <1>1, <1>2 DEF CapInv, CapTypeOK
  <1>4. \A x \in Actions : SamePlace(x)
    BY <1>2 DEF SamePlace
  <1>5. \A x \in Actions : CallOK(x)'
    BY <1>2, <1>4, CallStays DEF CapInv
  <1>6. \A g \in Grants : GrantOK(g)'
    BY <1>2 DEF CapInv, GrantOK
  <1> QED
    BY <1>1, <1>2, <1>3, <1>5, <1>6, AllFadeKeeps

\* A poll, a revoke or a consumption of one permit.
LEMMA PermitMovesKeeps ==
    ASSUME CapInv, NEW a \in Actions, PermitMoves(a)
    PROVE  CapInv'
  <1>1. StoreInv /\ rows \in [Actions -> Row] /\ receipts \in [Actions -> Seq(Receipt)]
    BY DEF CapInv, StoreInv
  <1>2. rows[a].bind \in Bindings /\ rows[a].bind.policy \in Policies /\ Known(a)
    BY <1>1, LedgerSays DEF PermitMoves
  <1>3. now \in 0 .. now /\ now \in Time
    <2>1. now \in Nat /\ now \in Time
      BY <1>1, Numbers DEF StoreInv, Time
    <2> QED
      BY <2>1
  <1>4. StoreNext
    <2>1. Statement(a)
      BY <1>2, <1>3 DEF PermitMoves, Statement
    <2> QED
      BY <2>1 DEF StoreNext
  <1>5. Fades(a) /\ \A x \in Actions \ {a} : rows'[x] = rows[x] /\ receipts'[x] = receipts[x]
    <2>1. CASE UNCHANGED <<rows, receipts>>
      BY <1>1, <2>1, ClosingFades
    <2>2. ASSUME NEW st \in {"expired", "revoked"}, Unspent(rows[a]),
                 rows' = [rows EXCEPT ![a] = Closed(rows[a], st)], receipts' = receipts
          PROVE  Fades(a) /\ \A x \in Actions \ {a} : rows'[x] = rows[x] /\ receipts'[x] = receipts[x]
      <3>1. rows'[a] = Closed(rows[a], st) /\ receipts'[a] = receipts[a]
        BY <1>1, <2>2
      <3>2. Fades(a)
        BY <1>1, <2>2, <3>1, ClosingFades
      <3> QED
        BY <1>1, <2>2, <3>2
    <2>3. CASE Consumable(a, rows[a].bind, now) /\ ConsumeToolActionWithReceipt(a, rows[a].bind, now)
      <3>1. /\ rows' = [rows EXCEPT ![a] = SpentRow(rows[a], now)]
            /\ receipts' = [receipts EXCEPT ![a] = Append(@, ConsumptionReceipt(rows[a].bind))]
            /\ rows[a].status = "allowed"
        BY <2>3 DEF ConsumeToolActionWithReceipt, Write, Append1, SpentRow, Consumable
      <3>2. /\ rows'[a] = SpentRow(rows[a], now)
            /\ receipts'[a] = Append(receipts[a], ConsumptionReceipt(rows[a].bind))
        BY <1>1, <3>1
      <3>3. Fades(a)
        BY <1>1, <1>3, <3>1, <3>2, SpendingFades
      <3> QED
        BY <1>1, <3>1, <3>3
    <2>4. \/ UNCHANGED <<rows, receipts>>
          \/ \E st \in {"expired", "revoked"} :
                /\ Unspent(rows[a])
                /\ rows' = [rows EXCEPT ![a] = Closed(rows[a], st)] /\ receipts' = receipts
          \/ Consumable(a, rows[a].bind, now) /\ ConsumeToolActionWithReceipt(a, rows[a].bind, now)
      BY DEF PermitMoves, NormalizeToolAction, CancelToolAction, ConsumeToolActionWithReceipt, Write
    <2> QED
      BY <2>1, <2>2, <2>3, <2>4
  <1>6. \A x \in Actions : Fades(x)
    BY <1>5 DEF Fades, Known
  <1> QED
    BY <1>4, <1>6, PermitsMoveKeeps DEF PermitMoves

\* Time passes.
LEMMA TimePassesKeeps ==
    ASSUME CapInv, TimePasses
    PROVE  CapInv'
  <1>1. StoreNext /\ UNCHANGED capVars /\ \A x \in Actions : Fades(x)
    BY DEF TimePasses, StoreNext, Tick, Fades, Known
  <1> QED
    BY <1>1, PermitsMoveKeeps

\* An operator issues or ends a standing grant.
LEMMA GrantsMoveKeeps ==
    ASSUME CapInv, NEW g \in Grants, Grant(g) \/ Ungrant(g)
    PROVE  CapInv'
  <1>1. UNCHANGED <<storeVars, rule, calls, capMu, amounts, takers, faults, restarts>>
    BY DEF Grant, Ungrant
  <1>2. /\ grants \in [Grants -> GrantRecord] /\ GrantOK(g) /\ now \in Time /\ MaxUses \in Nat
        /\ Horizon \in Nat
    BY Numbers DEF CapInv, CapTypeOK, TypeOK
  <1>3. PICK r : grants' = [grants EXCEPT ![g] = r] /\ r \in GrantRecord
                 /\ r.uses = grants[g].uses /\ r.uses <= r.max /\ (~r.issued => r.max = 0)
    <2>1. CASE Ungrant(g)
      <3> DEFINE r == [grants[g] EXCEPT !.revoked = TRUE]
      <3>1. grants' = [grants EXCEPT ![g] = r]
        BY <1>2, <2>1 DEF Ungrant
      <3>2. /\ r \in GrantRecord /\ r.uses = grants[g].uses /\ r.max = grants[g].max
            /\ r.issued = grants[g].issued
        BY <1>2 DEF GrantRecord
      <3> HIDE DEF r
      <3> QED
        BY <1>2, <3>1, <3>2 DEF GrantOK
    <2>2. CASE Grant(g)
      <3>1. PICK e \in now + 1 .. Horizon, m \in 1 .. MaxUses :
                grants' = [grants EXCEPT ![g] =
                              [NoGrantYet EXCEPT !.issued = TRUE, !.expires = e, !.max = m]]
        BY <2>2 DEF Grant
      <3> DEFINE r == [NoGrantYet EXCEPT !.issued = TRUE, !.expires = e, !.max = m]
      <3>2. e \in Time /\ m \in 0 .. MaxUses /\ 0 \in 0 .. MaxUses /\ m >= 0
        BY <1>2 DEF Time
      <3>3. r \in GrantRecord /\ r.uses = 0 /\ r.max = m /\ r.issued
        BY <3>2 DEF GrantRecord, NoGrantYet
      <3>4. grants[g].uses = 0
        <4>1. grants[g].max = 0 /\ grants[g].uses <= 0 /\ grants[g].uses \in 0 .. MaxUses
          BY <1>2, <2>2 DEF Grant, GrantOK, GrantRecord
        <4> QED
          BY <1>2, <4>1
      <3>5. grants' = [grants EXCEPT ![g] = r]
        BY <3>1
      <3> HIDE DEF r
      <3> QED
        BY <3>2, <3>3, <3>4, <3>5
    <2> QED
      BY <2>1, <2>2
  <1>4. /\ StoreInv' /\ TypeOK' /\ \A x \in Actions : Fades(x)
    BY <1>1, QuietLedger
  <1>5. grants' \in [Grants -> GrantRecord] /\ grants'[g] = r /\ \A h \in Grants \ {g} : grants'[h] = grants[h]
    BY <1>2, <1>3
  <1>6. CapTypeOK'
    BY <1>1, <1>4, <1>5 DEF CapInv, CapTypeOK
  <1>7. \A h \in Grants : GrantOK(h)'
    <2>1. GrantOK(g)'
      BY <1>1, <1>2, <1>3, <1>5 DEF GrantOK
    <2>2. \A h \in Grants \ {g} : GrantOK(h)'
      BY <1>1, <1>5 DEF CapInv, GrantOK
    <2> QED
      BY <2>1, <2>2
  <1>8. \A x \in Actions : SamePlace(x)
    BY <1>1 DEF SamePlace
  <1>9. \A x \in Actions : CallOK(x)'
    BY <1>1, <1>4, <1>8, CallStays DEF CapInv
  <1> QED
    BY <1>1, <1>4, <1>6, <1>7, <1>9, AllFadeKeeps

\* A restart drops every call that is being decided, and the mutex with it.
LEMMA RestartKeeps ==
    ASSUME CapInv, Restart
    PROVE  CapInv'
  <1>1. /\ ExpireToolActions(now) /\ capMu' = NoAction
        /\ calls' = [a \in Actions |-> IF At(a, "idle") THEN NoCall ELSE [NoCall EXCEPT !.pc = "over"]]
        /\ UNCHANGED <<rule, amounts, grants, takers, faults>>
        /\ restarts' \in Nat
    BY DEF Restart, CapInv, CapTypeOK
  <1>2. StoreInv /\ now \in Nat /\ NoAction \notin Actions
    BY Numbers DEF CapInv, StoreInv, Time
  <1>3. StoreInv' /\ TypeOK'
    <2>1. now \in 0 .. now
      BY <1>2
    <2>2. StoreNext
      BY <1>1, <2>1 DEF StoreNext
    <2>3. StoreInv'
      BY <1>2, <2>2, StoreInvStep
    <2>4. StoreInv' => TypeOK'
      BY StoreInvImplies, PTL
    <2> QED
      BY <2>3, <2>4
  <1>4. \A x \in Actions : Fades(x)
    <2> SUFFICES ASSUME NEW x \in Actions
                 PROVE  Fades(x)
      OBVIOUS
    <2>1. receipts'[x] = receipts[x]
      BY <1>1 DEF ExpireToolActions
    <2>2. rows'[x] = rows[x] \/ (Unspent(rows[x]) /\ rows'[x] = Closed(rows[x], "expired"))
      BY <1>1 DEF ExpireToolActions, Unspent
    <2> QED
      BY <1>2, <2>1, <2>2, ClosingFades
  <1>5. /\ NoCall \in CallRecord /\ NoCall.pc = "idle" /\ NoCall.verdict = "deny"
        /\ [NoCall EXCEPT !.pc = "over"] \in CallRecord
        /\ [NoCall EXCEPT !.pc = "over"].pc = "over"
        /\ [NoCall EXCEPT !.pc = "over"].verdict = "deny"
    <2>1. 0 \in Days /\ 0 \in Time /\ 0 \in 0 .. MaxUses
      <3>1. 0 \in Time /\ 0 \in 0 .. MaxUses
        BY Numbers DEF Time
      <3>2. DayLength \in Nat \ {0}
        BY CapAssumption
      <3>3. 0 \div DayLength = 0
        BY <3>2
      <3>4. Day(0) = 0
        BY <3>3 DEF Day
      <3> QED
        BY <3>1, <3>4 DEF Days
    <2>2. NoCall \in CallRecord /\ NoCall.pc = "idle" /\ NoCall.verdict = "deny"
      BY <2>1 DEF NoCall, CallRecord, Pcs, Verdicts
    <2> QED
      BY <2>2 DEF CallRecord, Pcs
  <1>6. \A x \in Actions :
            /\ calls'[x] \in CallRecord /\ calls'[x].pc \in {"idle", "over"}
            /\ calls'[x].verdict = "deny"
            /\ calls'[x].pc = "idle" <=> calls[x].pc = "idle"
    BY <1>1, <1>5 DEF At
  <1>7. calls' \in [Actions -> CallRecord]
    BY <1>1, <1>5
  <1>8. CapTypeOK'
    BY <1>1, <1>3, <1>7 DEF CapInv, CapTypeOK
  <1>9. \A x \in Actions : CallOK(x)'
    <2> SUFFICES ASSUME NEW x \in Actions
                 PROVE  CallOK(x)'
      OBVIOUS
    <2>1. CallOK(x) /\ Fades(x)
      BY <1>4 DEF CapInv
    <2>2. calls'[x].pc \notin Undecided /\ calls'[x].pc \notin Locked /\ ~Passed(x)'
      BY <1>6 DEF Undecided, Locked, Passed
    <2>3. StageOK(x)'
      BY <1>1, <1>6, <2>1, <2>2 DEF CallOK, StageOK, Fades
    <2>4. LockOK(x)'
      BY <1>1, <1>2, <2>2 DEF LockOK
    <2>5. CountedOK(x)'
      BY <1>1, <1>6, <2>1, <2>2 DEF CallOK, CountedOK, Fades
    <2>6. AmountOK(x)'
      BY <1>1, <1>6, <2>1, <2>2 DEF CallOK, AmountOK, Fades, Amount, Tame
    <2>7. TakerOK(x)'
      <3>1. PolicyAllowed(x)' => PolicyAllowed(x)
        BY <2>1 DEF Fades, PolicyAllowed
      <3> QED
        BY <1>1, <1>6, <2>1, <3>1 DEF CallOK, TakerOK
    <2> QED
      BY <2>3, <2>4, <2>5, <2>6, <2>7 DEF CallOK
  <1>10. \A g \in Grants : GrantOK(g)'
    BY <1>1 DEF CapInv, GrantOK
  <1> QED
    BY <1>1, <1>3, <1>4, <1>6, <1>8, <1>9, <1>10, AllFadeKeeps

-----------------------------------------------------------------------------
\* The invariant holds from the start, and for good.

\* Nothing has been asked for yet.
LEMMA CapInvInit == Init => CapInv
  <1> SUFFICES ASSUME Init
               PROVE  CapInv
    OBVIOUS
  <1>1. /\ StoreInit /\ rule \in ToolRules /\ capMu = NoAction /\ faults = 0 /\ restarts = 0
        /\ calls = [a \in Actions |-> NoCall] /\ amounts = [a \in Actions |-> Uncounted]
        /\ grants = [g \in Grants |-> NoGrantYet] /\ takers = [g \in Grants |-> {}]
    BY DEF Init
  <1>2. StoreInv /\ TypeOK /\ \A a \in Actions : ~Known(a) /\ receipts[a] = <<>> /\ rows[a].decision = ""
    <2>1. StoreInv
      BY <1>1, StoreInvInit
    <2> QED
      BY <1>1, <2>1, StoreInvImplies DEF StoreInit, NoRow, Known
  <1>3. /\ NoAction \notin Actions /\ 0 \in 0 .. MaxUses /\ 0 \in Time /\ 0 \in Days
    <2>1. NoAction \notin Actions /\ 0 \in 0 .. MaxUses /\ 0 \in Time
      BY Numbers DEF Time
    <2>2. DayLength \in Nat \ {0}
      BY CapAssumption
    <2>3. 0 \div DayLength = 0
      BY <2>2
    <2> QED
      BY <2>1, <2>3 DEF Day, Days
  <1>4. NoCall \in CallRecord /\ NoGrantYet \in GrantRecord
    BY <1>3 DEF NoCall, CallRecord, Pcs, Verdicts, NoGrantYet, GrantRecord
  <1>5. CapTypeOK
    BY <1>1, <1>2, <1>4 DEF CapTypeOK
  <1>6. \A a \in Actions : CallOK(a) /\ RoomOK(a)
    <2> SUFFICES ASSUME NEW a \in Actions
                 PROVE  CallOK(a) /\ RoomOK(a)
      OBVIOUS
    <2>1. calls[a] = NoCall /\ NoCall.pc = "idle" /\ NoCall.verdict = "deny" /\ amounts[a] = Uncounted
      BY <1>1 DEF NoCall
    <2>2. ~Passed(a) /\ ~PolicyAllowed(a)
      BY <1>2, <2>1 DEF Passed, PolicyAllowed
    <2>3. StageOK(a) /\ LockOK(a) /\ CountedOK(a) /\ AmountOK(a)
      BY <1>1, <1>2, <1>3, <2>1, <2>2 DEF StageOK, LockOK, Locked, CountedOK, AmountOK, Undecided
    <2>4. TakerOK(a)
      BY <1>1, <2>1, <2>2 DEF TakerOK
    <2> QED
      BY <2>1, <2>2, <2>3, <2>4 DEF CallOK, RoomOK
  <1>7. \A g \in Grants : GrantOK(g)
    BY <1>1, FS_EmptySet DEF GrantOK, NoGrantYet
  <1>8. IsFiniteSet(Requested)
    <2>1. Requested = {}
      BY <1>2 DEF Requested
    <2> QED
      BY <2>1, FS_EmptySet
  <1>9. RulesStayWithinCaps
    <2> SUFFICES ASSUME NEW d \in Days
                 PROVE  /\ Total(Standing(d)) <= rule.maxPerDay
                        /\ Cardinality(Standing(d)) <= rule.maxCallsPerDay
      BY DEF RulesStayWithinCaps, Standing
    <2>1. Standing(d) = {}
      BY <1>2 DEF Standing, Counted
    <2>2. Total({}) = 0 /\ Cardinality({}) = 0
      <3>1. Summable(Amounts, {})
        BY FS_EmptySet DEF Summable
      <3>2. SumFunctionOnSet(Amounts, {}) = 0
        BY <3>1, SumTakesOne
      <3> QED
        BY <3>2, FS_EmptySet DEF Total, Amounts
    <2>3. rule.maxPerDay \in Nat /\ rule.maxCallsPerDay \in Nat
      BY <1>1, CapAssumption DEF ToolRule
    <2> QED
      BY <2>1, <2>2, <2>3
  <1> QED
    BY <1>2, <1>5, <1>6, <1>7, <1>8, <1>9 DEF CapInv

\* No action breaks it.
LEMMA CapInvNext == CapInv /\ [Next]_vars => CapInv'
  <1> SUFFICES ASSUME CapInv, [Next]_vars
               PROVE  CapInv'
    OBVIOUS
  <1>1. ASSUME NEW a \in Actions, Arrive(a) \/ HandlerStep(a) \/ HumanDecides(a) \/ PermitMoves(a)
        PROVE  CapInv'
    BY <1>1, ArriveKeeps, LockKeeps, RecordKeeps, ReadTotalKeeps, ReadCountKeeps, SelectGrantKeeps,
       TakeGrantKeeps, CommitKeeps, HumanDecidesKeeps, PermitMovesKeeps DEF HandlerStep
  <1>2. ASSUME NEW g \in Grants, Grant(g) \/ Ungrant(g)
        PROVE  CapInv'
    BY <1>2, GrantsMoveKeeps
  <1>3. CASE Restart
    BY <1>3, RestartKeeps
  <1>4. CASE TimePasses
    BY <1>4, TimePassesKeeps
  <1>5. CASE UNCHANGED vars
    <2>1. UNCHANGED <<storeVars, capVars>>
      BY <1>5 DEF vars
    <2>2. UNCHANGED <<rule, calls, capMu, amounts, grants, takers, faults, restarts>>
      BY <2>1 DEF capVars
    <2>3. /\ StoreInv' /\ TypeOK' /\ \A x \in Actions : Fades(x)
      BY <2>1, QuietLedger
    <2>4. CapTypeOK'
      BY <2>2, <2>3 DEF CapInv, CapTypeOK
    <2>5. \A x \in Actions : SamePlace(x)
      BY <2>2 DEF SamePlace
    <2>6. \A x \in Actions : CallOK(x)'
      BY <2>2, <2>3, <2>5, CallStays DEF CapInv
    <2>7. \A g \in Grants : GrantOK(g)'
      BY <2>2 DEF CapInv, GrantOK
    <2> QED
      BY <2>2, <2>3, <2>4, <2>6, <2>7, AllFadeKeeps
  <1> QED
    BY <1>1, <1>2, <1>3, <1>4, <1>5 DEF Next

\* The inductive invariant holds in every state.
LEMMA CapInvAlways == Spec => []CapInv
  BY CapInvInit, CapInvNext, PTL DEF Spec

\* It contains the type invariant.
THEOREM CapTypes == Spec => []CapTypeOK
  <1>1. CapInv => CapTypeOK
    BY DEF CapInv
  <1> QED
    BY <1>1, CapInvAlways, PTL

\* Both daily caps hold, for what the rules and grants allow on their own,
\* however many calls are decided side by side, and whatever operators,
\* restarts and failing statements do meanwhile; nothing allowed is missed.
THEOREM CapsAreKept == Spec => []CapsHold
  <1>1. CapInv => CapsHold
    BY DEF CapInv, CallOK, CountedOK, CapsHold, AllowedIsCounted
  <1> QED
    BY <1>1, CapInvAlways, PTL

\* The cap mutex is held exactly while code decides a capped call.
THEOREM LockPassesOn == Spec => []LockIsPassedOn
  <1>1. CapInv => LockIsPassedOn
    BY DEF CapInv, CallOK, LockOK, LockIsPassedOn, Locked
  <1> QED
    BY <1>1, CapInvAlways, PTL

\* Every use of a standing grant is one call's, no grant is used past its
\* limit, and what requires approval is allowed by a tap or such a use only.
THEOREM UsesAccounted == Spec => []UsesAreAccounted
  <1>1. CapInv => UsesAreAccounted
    <2> SUFFICES ASSUME CapInv
                 PROVE  UsesAreAccounted
      OBVIOUS
    <2>1. \A g \in Grants : grants[g].uses = Cardinality(takers[g]) /\ grants[g].uses <= grants[g].max
      BY DEF CapInv, GrantOK
    <2>2. \A a \in Actions : TakerOK(a)
      BY DEF CapInv, CallOK
    <2>3. \A g, h \in Grants : g # h => takers[g] \cap takers[h] = {}
      <3>1. \A g \in Grants : takers[g] \subseteq Actions
        BY DEF CapInv, CapTypeOK
      <3> QED
        BY <2>2, <3>1 DEF TakerOK
    <2> QED
      BY <2>1, <2>2, <2>3 DEF UsesAreAccounted, TakerOK
  <1> QED
    BY <1>1, CapInvAlways, PTL

\* No step takes a use of a grant that an operator ended, whatever was looked
\* up before.
THEOREM OnlyLiveGrantsAreUsed == Spec => [][UsesOnlyLive]_vars
  <1>1. CapInv /\ [Next]_vars => [UsesOnlyLive]_vars
    <2> SUFFICES ASSUME CapInv, Next
                 PROVE  UsesOnlyLive
      OBVIOUS
    <2>1. CASE UNCHANGED takers
      BY <2>1 DEF UsesOnlyLive
    <2>2. ASSUME NEW a \in Actions, TakeGrant(a)
          PROVE  UsesOnlyLive
      <3>1. CASE UNCHANGED takers
        BY <3>1 DEF UsesOnlyLive
      <3>2. CASE /\ Takable(calls[a].grant, calls[a].at, calls[a].uses)
                 /\ takers' = [takers EXCEPT ![calls[a].grant] = @ \cup {a}]
        BY <3>2 DEF UsesOnlyLive, Takable, Live, CapInv, CapTypeOK
      <3> QED
        BY <2>2, <3>1, <3>2 DEF TakeGrant
    <2>3. UNCHANGED takers \/ \E a \in Actions : TakeGrant(a)
      BY Zenon DEF Next, HandlerStep, Arrive, Lock, Record, ReadTotal, ReadCount, SelectGrant, Commit,
             HumanDecides, PermitMoves, Grant, Ungrant, Restart, TimePasses, capVars
    <2> QED
      BY <2>1, <2>2, <2>3
  <1> QED
    BY <1>1, CapInvAlways, PTL DEF Spec

-----------------------------------------------------------------------------
\* The ledger underneath.

\* A call writes the ledger only through a statement of its own.
LEMMA CallIsStatement ==
    ASSUME CapInv, NEW a \in Actions,
           Arrive(a) \/ HandlerStep(a) \/ HumanDecides(a) \/ PermitMoves(a)
    PROVE  [StoreNext]_storeVars
  <1> USE Numbers
  <1>1. /\ TypeOK /\ now \in Time /\ now \in 0 .. now
        /\ calls[a].verdict \in Verdicts
        /\ calls[a].pc = "idle" <=> ~Known(a)
    <2>1. TypeOK /\ now \in Time /\ calls[a].verdict \in Verdicts
      BY DEF CapInv, CapTypeOK, TypeOK, CallRecord
    <2>2. calls[a].pc = "idle" <=> ~Known(a)
      BY DEF CapInv, CallOK, StageOK
    <2> QED
      BY <2>1, <2>2 DEF Time
  <1>2. Known(a) => rows[a].bind \in Bindings
    BY <1>1 DEF TypeOK
  <1>3. CASE Arrive(a)
    <2>1. PICK k \in Args, p \in Policies :
             ReserveToolAction(a, [args |-> k, policy |-> p, expires |-> now + Window])
      BY <1>3 DEF Arrive
    <2>2. now + Window \in Time
      BY <1>1, <1>3 DEF Arrive, Time
    <2>3. [args |-> k, policy |-> p, expires |-> now + Window] \in Bindings
      BY <2>2 DEF Bindings
    <2> QED
      BY <2>1, <2>3 DEF StoreNext, Statement
  <1>4. CASE HandlerStep(a)
    <2>1. CASE Commit(a)
      <3>1. CASE UNCHANGED storeVars
        BY <3>1
      <3>2. CASE DecideToolActionWithReceipt(a, rows[a].bind, AtDecision(a, calls[a].verdict), now)
        <4>1. Known(a)
          BY <1>1, <2>1 DEF Commit, At
        <4>2. AtDecision(a, calls[a].verdict) \in Verdicts
          BY <1>1 DEF AtDecision, Verdicts
        <4> QED
          BY <1>1, <3>2, <4>1, <4>2 DEF StoreNext, Statement
      <3> QED
        BY <2>1, <3>1, <3>2 DEF Commit
    <2>2. CASE Lock(a) \/ Record(a) \/ ReadTotal(a) \/ ReadCount(a) \/ SelectGrant(a) \/ TakeGrant(a)
      <3>1. UNCHANGED storeVars
        <4>1. Lock(a) => UNCHANGED storeVars
          BY DEF Lock, storeVars
        <4>2. Record(a) => UNCHANGED storeVars
          BY DEF Record, storeVars
        <4>3. ReadTotal(a) => UNCHANGED storeVars
          BY Zenon DEF ReadTotal, storeVars
        <4>4. ReadCount(a) => UNCHANGED storeVars
          BY Zenon DEF ReadCount, storeVars
        <4>5. SelectGrant(a) => UNCHANGED storeVars
          BY Zenon DEF SelectGrant, storeVars
        <4>6. TakeGrant(a) => UNCHANGED storeVars
          BY Zenon DEF TakeGrant, storeVars
        <4> QED
          BY <2>2, <4>1, <4>2, <4>3, <4>4, <4>5, <4>6
      <3> QED
        BY <3>1
    <2> QED
      BY <1>4, <2>1, <2>2 DEF HandlerStep
  <1>5. CASE HumanDecides(a)
    <2>1. PICK d \in {"approve", "deny"} :
             DecideToolActionWithReceipt(a, rows[a].bind, AtDecision(a, d), now)
      BY <1>5 DEF HumanDecides
    <2>2. Known(a)
      BY <1>1, <1>5 DEF HumanDecides, At
    <2>3. AtDecision(a, d) \in Verdicts
      BY DEF AtDecision, Verdicts
    <2> QED
      BY <1>1, <2>1, <2>2, <2>3 DEF StoreNext, Statement
  <1>6. CASE PermitMoves(a)
    <2>1. Known(a) /\ rows[a].bind \in Bindings /\ rows[a].bind.policy \in Policies
      BY <1>2, <1>6 DEF PermitMoves, Bindings
    <2>2. CASE NormalizeToolAction(a, rows[a].bind.policy, now)
      BY <1>1, <2>1, <2>2 DEF StoreNext, Statement
    <2>3. CASE CancelToolAction(a, rows[a].bind)
      BY <2>1, <2>3 DEF StoreNext, Statement
    <2>4. CASE ConsumeToolActionWithReceipt(a, rows[a].bind, now)
      BY <1>1, <2>1, <2>4 DEF StoreNext, Statement
    <2> QED
      BY <1>6, <2>2, <2>3, <2>4 DEF PermitMoves
  <1> QED
    BY <1>3, <1>4, <1>5, <1>6

\* Calls under caps and grants, operators, restarts and the clock drive the
\* ledger only through its statements, as its own theorems assume.
THEOREM CapDrivesLedger == Spec => StoreSpec
  <1>1. Init => StoreInit
    BY DEF Init
  <1>2. CapInv /\ [Next]_vars => [StoreNext]_storeVars
    <2> SUFFICES ASSUME CapInv, [Next]_vars
                 PROVE  [StoreNext]_storeVars
      OBVIOUS
    <2>1. ASSUME NEW a \in Actions,
                 Arrive(a) \/ HandlerStep(a) \/ HumanDecides(a) \/ PermitMoves(a)
          PROVE  [StoreNext]_storeVars
      BY <2>1, CallIsStatement
    <2>2. ASSUME NEW g \in Grants, Grant(g) \/ Ungrant(g)
          PROVE  [StoreNext]_storeVars
      BY <2>2, Zenon DEF Grant, Ungrant
    <2>3. CASE Restart
      <3>1. now \in 0 .. now
        BY Numbers DEF CapInv, CapTypeOK, TypeOK, Time
      <3> QED
        BY <2>3, <3>1 DEF Restart, StoreNext
    <2>4. CASE TimePasses
      BY <2>4 DEF TimePasses, StoreNext
    <2>5. CASE UNCHANGED vars
      BY <2>5 DEF vars
    <2> QED
      BY <2>1, <2>2, <2>3, <2>4, <2>5 DEF Next
  <1> QED
    BY <1>1, <1>2, CapInvAlways, PTL DEF Spec, StoreSpec

\* So the receipts of capped and granted calls agree with their rows.
THEOREM CapKeepsAudit == Spec => []AuditMatchesState
  BY CapDrivesLedger, ReceiptsMatchRows, PTL

\* ... what counts toward a daily total is exactly what is allowed or spent.
THEOREM CapCountsWhatStands == Spec => []DecisionFollowsStatus
  BY CapDrivesLedger, DecisionColumn, PTL

\* ... no step rewrites settled history: what a total counted as spent stays so.
THEOREM CapKeepsHistory == Spec => HistoryIsFinal
  BY CapDrivesLedger, HistoryFinal, PTL

\* ... and calls under caps and grants implement the abstract permit.
THEOREM CapImplementsPermit == Spec => ImplementsPermit
  BY CapDrivesLedger, LedgerImplementsPermit, PTL
-----------------------------------------------------------------------------
\* The ledger's own sums are those shown above.
LEMMA LedgerSum ==
    ASSUME NEW F, NEW S
    PROVE  /\ Money!SumFunctionOnSet(F, S) = SumFunctionOnSet(F, S)
           /\ Money!Voice!SumFunctionOnSet(F, S) = SumFunctionOnSet(F, S)
<1>1. SumFunctionOnSet(F, S) = Iter(F, S)[S]
  BY SumIs
<1>2. Money!SumFunctionOnSet(F, S) = Iter(F, S)[S]
  BY Zenon DEF Money!SumFunctionOnSet, Money!FoldFunctionOnSet, Money!MapThenFoldSet, Iter,
               Step, Pick
<1>3. Money!Voice!SumFunctionOnSet(F, S) = Iter(F, S)[S]
  BY Zenon DEF Money!Voice!SumFunctionOnSet, Money!Voice!FoldFunctionOnSet,
               Money!Voice!MapThenFoldSet, Iter, Step, Pick
<1> QED BY <1>1, <1>2, <1>3

\* A row of budget_calls.
BudgetRow == [day : Money!Days, pipeline : Money!Range(PipelineOf), used : Money!Usage,
        status : {"pending", "settled", "rejected"}]

\* What calls of a table used, all of it, and the calls settled on a day and by
\* one pipeline.
TokensIn(R) == [c \in DOMAIN R |-> R[c].used.tokens]
CostIn(R) == [c \in DOMAIN R |-> R[c].used.cost]
SpentOf(R, S) == [tokens |-> SumFunctionOnSet(TokensIn(R), S),
                  cost |-> SumFunctionOnSet(CostIn(R), S)]
SettledOf(R, d) == {c \in DOMAIN R : R[c].status = "settled" /\ R[c].day = d}
ByPipeline(R, d, name) == {c \in SettledOf(R, d) : R[c].pipeline = name}

\* Money!Within, of any table and whatever the last of the calls is.
KeptBelow(R, S, cap) ==
    \A l \in S : (\A c \in S : c <= l) =>
        /\ cap.tokens > 0 => SpentOf(R, S \ {l}).tokens + RequestedTokens <= cap.tokens
        /\ cap.cost > 0 => SpentOf(R, S \ {l}).cost < cap.cost
        /\ cap.cost > 0 /\ cap.reserve /\ (\A c \in S : R[c].used.cost <= Worst)
              => SpentOf(R, S).cost <= cap.cost

\* The call of a row still fits what its day and its pipeline have spent.
RowFits(R, row) ==
    /\ Money!Fits(SpentOf(R, SettledOf(R, row.day)), DayCap)
    /\ Money!Fits(SpentOf(R, ByPipeline(R, row.day, row.pipeline)), PipelineCap[row.pipeline])

\* The totals of a day are the sums of its calls, the pending call still fits,
\* and no cap is passed by more than the last answer.
TotalsAdd(R, T) == \A d \in Money!Days : T[d] = SpentOf(R, SettledOf(R, d))
PendingFits(R) == \A c \in DOMAIN R : R[c].status = "pending" => RowFits(R, R[c])
CapsKept(R) ==
    \A d \in Money!Days :
        /\ KeptBelow(R, SettledOf(R, d), DayCap)
        /\ \A name \in Money!Range(PipelineOf) :
              KeptBelow(R, ByPipeline(R, d, name), PipelineCap[name])

\* One row is written, the last one: a new one, or the pending one.
OneRowMoves(R, Q, c) ==
    /\ R \in Seq(BudgetRow) /\ Q \in Seq(BudgetRow) /\ c \in DOMAIN Q /\ DOMAIN R \subseteq DOMAIN Q
    /\ \A x \in DOMAIN Q \ {c} : x \in DOMAIN R /\ Q[x] = R[x]
    /\ c \in DOMAIN R => R[c].status = "pending"
    /\ \A x \in DOMAIN Q : x <= c

\* What a row used is two numbers.
LEMMA RowUsed ==
    ASSUME NEW R \in Seq(BudgetRow), NEW c \in DOMAIN R
    PROVE  /\ R[c] \in BudgetRow /\ R[c].used.tokens \in Nat /\ R[c].used.cost \in Nat
           /\ R[c].used = [tokens |-> R[c].used.tokens, cost |-> R[c].used.cost]
<1>1. R[c] \in BudgetRow
  OBVIOUS
<1>2. R[c].used \in Money!Usage
  BY <1>1 DEF BudgetRow
<1> QED BY <1>1, <1>2 DEF Money!Usage

\* The rows of a table are finitely many, and so are those of a part of it.
LEMMA PartsAreFinite ==
    ASSUME NEW R \in Seq(BudgetRow), NEW S \in SUBSET DOMAIN R
    PROVE  /\ IsFiniteSet(S) /\ S \subseteq Nat
           /\ Summable(TokensIn(R), S) /\ Summable(CostIn(R), S)
<1>1. DOMAIN R = 1 .. Len(R) /\ Len(R) \in Nat
  OBVIOUS
<1>2. IsFiniteSet(S)
  <2>1. IsFiniteSet(1 .. Len(R))
    BY <1>1, FS_Interval
  <2> QED BY <1>1, <2>1, FS_Subset
<1>3. \A c \in S : R[c].used.tokens \in Nat /\ R[c].used.cost \in Nat
  BY RowUsed
<1> QED BY <1>1, <1>2, <1>3 DEF Summable, TokensIn, CostIn

\* Calls that used the same spent the same.
LEMMA PartStays ==
    ASSUME NEW R \in Seq(BudgetRow), NEW Q \in Seq(BudgetRow), NEW S \in SUBSET DOMAIN R,
           S \subseteq DOMAIN Q, \A c \in S : Q[c].used = R[c].used
    PROVE  /\ SpentOf(Q, S) = SpentOf(R, S)
           /\ SpentOf(R, S).tokens \in Nat /\ SpentOf(R, S).cost \in Nat
<1>1. /\ \A c \in S : TokensIn(Q)[c] = TokensIn(R)[c] /\ CostIn(Q)[c] = CostIn(R)[c]
      /\ \A c \in S : TokensIn(R)[c] >= 0 /\ CostIn(R)[c] >= 0
  <2>1. \A c \in S : /\ TokensIn(R)[c] = R[c].used.tokens /\ TokensIn(Q)[c] = Q[c].used.tokens
                    /\ CostIn(R)[c] = R[c].used.cost /\ CostIn(Q)[c] = Q[c].used.cost
    BY DEF TokensIn, CostIn
  <2>2. \A c \in S : R[c].used.tokens \in Nat /\ R[c].used.cost \in Nat
    BY RowUsed
  <2> QED BY <2>1, <2>2
<1>2. /\ SumFunctionOnSet(TokensIn(R), S) = SumFunctionOnSet(TokensIn(Q), S)
      /\ SumFunctionOnSet(CostIn(R), S) = SumFunctionOnSet(CostIn(Q), S)
  BY <1>1, PartsAreFinite, SameSum
<1>3. SumFunctionOnSet(TokensIn(R), S) \in Int /\ SumFunctionOnSet(CostIn(R), S) \in Int
  BY PartsAreFinite, SumTakesOne
<1>4. SumFunctionOnSet(TokensIn(R), {}) = 0 /\ SumFunctionOnSet(CostIn(R), {}) = 0
  BY PartsAreFinite, SumTakesOne
<1>5. SumFunctionOnSet(TokensIn(R), S) >= 0 /\ SumFunctionOnSet(CostIn(R), S) >= 0
  BY <1>1, <1>3, <1>4, PartsAreFinite, PartOfSum
<1> QED BY <1>2, <1>3, <1>5 DEF SpentOf

\* One call more adds what it used.
LEMMA PartGrows ==
    ASSUME NEW R \in Seq(BudgetRow), NEW Q \in Seq(BudgetRow), NEW S \in SUBSET DOMAIN R,
           S \subseteq DOMAIN Q, \A x \in S : Q[x].used = R[x].used,
           NEW c \in DOMAIN Q, c \notin S
    PROVE  SpentOf(Q, S \cup {c}) = Money!Plus(SpentOf(R, S), Q[c].used)
<1>1. TokensIn(Q)[c] = Q[c].used.tokens /\ CostIn(Q)[c] = Q[c].used.cost
  BY DEF TokensIn, CostIn
<1>2. TokensIn(Q)[c] \in Int /\ CostIn(Q)[c] \in Int
  <2>1. Q[c].used.tokens \in Nat /\ Q[c].used.cost \in Nat
    BY RowUsed
  <2> QED BY <1>1, <2>1
<1>3. /\ SumFunctionOnSet(TokensIn(Q), S \cup {c}) = SumFunctionOnSet(TokensIn(Q), S) + Q[c].used.tokens
      /\ SumFunctionOnSet(CostIn(Q), S \cup {c}) = SumFunctionOnSet(CostIn(Q), S) + Q[c].used.cost
  <2>1. Summable(TokensIn(Q), S) /\ Summable(CostIn(Q), S)
    BY PartsAreFinite
  <2>2. SumFunctionOnSet(TokensIn(Q), S \cup {c})
          = SumFunctionOnSet(TokensIn(Q), S) + TokensIn(Q)[c]
    BY <1>2, <2>1, SumAdds
  <2>3. SumFunctionOnSet(CostIn(Q), S \cup {c}) = SumFunctionOnSet(CostIn(Q), S) + CostIn(Q)[c]
    BY <1>2, <2>1, SumAdds
  <2> QED BY <1>1, <2>2, <2>3
<1>4. SpentOf(Q, S) = SpentOf(R, S)
  BY PartStays
<1> QED BY <1>3, <1>4 DEF SpentOf, Money!Plus

\* What was kept below a cap stays below it.
LEMMA BelowStays ==
    ASSUME NEW R \in Seq(BudgetRow), NEW Q \in Seq(BudgetRow), NEW S \in SUBSET DOMAIN R,
           S \subseteq DOMAIN Q, \A c \in S : Q[c].used = R[c].used, NEW cap, KeptBelow(R, S, cap)
    PROVE  KeptBelow(Q, S, cap)
<1>1. SpentOf(Q, S) = SpentOf(R, S)
  BY PartStays
<1>2. ASSUME NEW l \in S PROVE SpentOf(Q, S \ {l}) = SpentOf(R, S \ {l})
  BY PartStays
<1> QED BY <1>1, <1>2 DEF KeptBelow

\* A call that fitted passes the cap by its own answer alone.
LEMMA BelowGrows ==
    ASSUME NEW R \in Seq(BudgetRow), NEW Q \in Seq(BudgetRow), NEW S \in SUBSET DOMAIN R,
           S \subseteq DOMAIN Q, \A x \in S : Q[x].used = R[x].used,
           NEW c \in DOMAIN Q, \A x \in S : x < c,
           NEW cap \in Money!Cap, Money!Fits(SpentOf(R, S), cap), Worst \in Nat
    PROVE  KeptBelow(Q, S \cup {c}, cap)
<1>1. c \notin S /\ c \in Nat /\ S \subseteq Nat
  BY PartsAreFinite
<1>2. SUFFICES ASSUME NEW l \in S \cup {c}, \A x \in S \cup {c} : x <= l
               PROVE  /\ cap.tokens > 0 =>
                             SpentOf(Q, (S \cup {c}) \ {l}).tokens + RequestedTokens <= cap.tokens
                      /\ cap.cost > 0 => SpentOf(Q, (S \cup {c}) \ {l}).cost < cap.cost
                      /\ cap.cost > 0 /\ cap.reserve
                         /\ (\A x \in S \cup {c} : Q[x].used.cost <= Worst)
                            => SpentOf(Q, S \cup {c}).cost <= cap.cost
  BY DEF KeptBelow
<1>3. l = c /\ (S \cup {c}) \ {l} = S
  <2>1. c <= l
    BY <1>2
  <2>2. l \in S => l < c
    OBVIOUS
  <2>3. l \notin S
    BY <1>1, <2>1, <2>2
  <2> QED BY <1>1, <2>3
<1>4. /\ SpentOf(Q, S) = SpentOf(R, S)
      /\ SpentOf(R, S).tokens \in Nat /\ SpentOf(R, S).cost \in Nat
  BY PartStays
<1>5. SpentOf(Q, S \cup {c}).cost = SpentOf(R, S).cost + Q[c].used.cost
  <2>1. SpentOf(Q, S \cup {c}) = Money!Plus(SpentOf(R, S), Q[c].used)
    BY <1>1, PartGrows
  <2> QED BY <2>1 DEF Money!Plus
<1>6. Q[c].used.cost \in Nat /\ cap.cost \in Nat
  BY RowUsed DEF Money!Cap
<1>7. /\ cap.tokens > 0 => SpentOf(R, S).tokens + RequestedTokens <= cap.tokens
      /\ cap.cost > 0 => SpentOf(R, S).cost < cap.cost
      /\ cap.cost > 0 /\ cap.reserve => SpentOf(R, S).cost + Worst <= cap.cost
  BY DEF Money!Fits
<1>8. SpentOf(Q, (S \cup {c}) \ {l}) = SpentOf(R, S)
  BY <1>3, <1>4
<1>9. (\A x \in S \cup {c} : Q[x].used.cost <= Worst) => Q[c].used.cost <= Worst
  OBVIOUS
<1> QED BY <1>4, <1>5, <1>6, <1>7, <1>8, <1>9

\* A row that is not settled changes nothing of what was spent.
LEMMA RowWaits ==
    ASSUME NEW R, NEW Q, NEW c, OneRowMoves(R, Q, c), Q[c].status # "settled",
           NEW T, TotalsAdd(R, T), CapsKept(R),
           \A x \in DOMAIN Q : Q[x].status = "pending" => x = c,
           Q[c].status = "pending" => RowFits(R, Q[c])
    PROVE  TotalsAdd(Q, T) /\ CapsKept(Q) /\ PendingFits(Q)
<1>1. /\ R \in Seq(BudgetRow) /\ Q \in Seq(BudgetRow) /\ DOMAIN R \subseteq DOMAIN Q
      /\ \A x \in DOMAIN R : x # c => Q[x] = R[x]
      /\ \A x \in DOMAIN Q : x # c => x \in DOMAIN R
      /\ c \in DOMAIN R => R[c].status # "settled"
  BY DEF OneRowMoves
<1>2. ASSUME NEW d
      PROVE  /\ SettledOf(Q, d) = SettledOf(R, d)
             /\ SettledOf(R, d) \in SUBSET DOMAIN R
             /\ \A x \in SettledOf(R, d) : x \in DOMAIN Q /\ Q[x] = R[x]
  BY <1>1 DEF SettledOf
<1>3. ASSUME NEW d, NEW name
      PROVE  /\ ByPipeline(Q, d, name) = ByPipeline(R, d, name)
             /\ ByPipeline(R, d, name) \in SUBSET DOMAIN R
             /\ \A x \in ByPipeline(R, d, name) : x \in DOMAIN Q /\ Q[x] = R[x]
  BY <1>2 DEF ByPipeline
<1>4. ASSUME NEW d PROVE SpentOf(Q, SettledOf(Q, d)) = SpentOf(R, SettledOf(R, d))
  BY <1>1, <1>2, PartStays
<1>5. ASSUME NEW d, NEW name
      PROVE  SpentOf(Q, ByPipeline(Q, d, name)) = SpentOf(R, ByPipeline(R, d, name))
  BY <1>1, <1>3, PartStays
<1>6. TotalsAdd(Q, T)
  BY <1>4 DEF TotalsAdd
<1>7. CapsKept(Q)
  <2>1. ASSUME NEW d \in Money!Days PROVE KeptBelow(Q, SettledOf(Q, d), DayCap)
    <3>1. KeptBelow(R, SettledOf(R, d), DayCap)
      BY DEF CapsKept
    <3> QED BY <1>1, <1>2, <3>1, BelowStays
  <2>2. ASSUME NEW d \in Money!Days, NEW name \in Money!Range(PipelineOf)
        PROVE  KeptBelow(Q, ByPipeline(Q, d, name), PipelineCap[name])
    <3>1. KeptBelow(R, ByPipeline(R, d, name), PipelineCap[name])
      BY DEF CapsKept
    <3> QED BY <1>1, <1>3, <3>1, BelowStays
  <2> QED BY <2>1, <2>2 DEF CapsKept
<1>8. PendingFits(Q)
  BY <1>4, <1>5 DEF PendingFits, RowFits
<1> QED BY <1>6, <1>7, <1>8

\* A pending row is settled with what was used, and its day is charged.
LEMMA RowSettles ==
    ASSUME Money!BudgetAssumption, NEW R, NEW Q, NEW c, OneRowMoves(R, Q, c), c \in DOMAIN R,
           Q[c].status = "settled", Q[c].day = R[c].day, Q[c].pipeline = R[c].pipeline,
           NEW T \in [Money!Days -> Money!Usage], TotalsAdd(R, T), CapsKept(R), PendingFits(R),
           \A x \in DOMAIN Q : Q[x].status # "pending"
    PROVE  LET U == [T EXCEPT ![R[c].day] = Money!Plus(@, Q[c].used)]
           IN  TotalsAdd(Q, U) /\ CapsKept(Q) /\ PendingFits(Q)
<1> DEFINE U == [T EXCEPT ![R[c].day] = Money!Plus(@, Q[c].used)]
<1>1. /\ R \in Seq(BudgetRow) /\ Q \in Seq(BudgetRow) /\ DOMAIN R = DOMAIN Q
      /\ \A x \in DOMAIN R : x # c => Q[x] = R[x]
      /\ R[c].status = "pending" /\ \A x \in DOMAIN R : x <= c
  BY DEF OneRowMoves
<1>2. /\ R[c].day \in Money!Days /\ R[c].pipeline \in Money!Range(PipelineOf)
      /\ DOMAIN R \subseteq Nat /\ Worst \in Nat
      /\ DayCap \in Money!Cap /\ \A n \in Money!Range(PipelineOf) : PipelineCap[n] \in Money!Cap
  <2>1. R[c] \in BudgetRow
    BY <1>1, RowUsed
  <2>2. DOMAIN R \subseteq Nat
    BY <1>1
  <2> QED BY <2>1, <2>2 DEF BudgetRow, Money!BudgetAssumption
<1>3. ASSUME NEW d
      PROVE  /\ SettledOf(Q, d) = IF d = R[c].day THEN SettledOf(R, d) \cup {c} ELSE SettledOf(R, d)
             /\ SettledOf(R, d) \in SUBSET DOMAIN R /\ c \notin SettledOf(R, d)
             /\ \A x \in SettledOf(R, d) : x \in DOMAIN Q /\ Q[x] = R[x] /\ x < c
  BY <1>1, <1>2 DEF SettledOf
<1>4. ASSUME NEW d, NEW n
      PROVE  /\ ByPipeline(Q, d, n) = IF d = R[c].day /\ n = R[c].pipeline
                                      THEN ByPipeline(R, d, n) \cup {c} ELSE ByPipeline(R, d, n)
             /\ ByPipeline(R, d, n) \in SUBSET DOMAIN R /\ c \notin ByPipeline(R, d, n)
             /\ \A x \in ByPipeline(R, d, n) : x \in DOMAIN Q /\ Q[x] = R[x] /\ x < c
  BY <1>3 DEF ByPipeline
<1>5. TotalsAdd(Q, U)
  <2>1. ASSUME NEW d \in Money!Days PROVE U[d] = SpentOf(Q, SettledOf(Q, d))
    <3>1. T[d] = SpentOf(R, SettledOf(R, d))
      BY DEF TotalsAdd
    <3>2. CASE d = R[c].day
      <4>1. SpentOf(Q, SettledOf(R, d) \cup {c}) = Money!Plus(SpentOf(R, SettledOf(R, d)), Q[c].used)
        BY <1>1, <1>3, PartGrows
      <4>2. U[d] = Money!Plus(T[d], Q[c].used)
        BY <3>2
      <4> QED BY <1>3, <3>1, <3>2, <4>1, <4>2
    <3>3. CASE d # R[c].day
      <4>1. SpentOf(Q, SettledOf(R, d)) = SpentOf(R, SettledOf(R, d))
        BY <1>1, <1>3, PartStays
      <4>2. U[d] = T[d]
        BY <3>3
      <4> QED BY <1>3, <3>1, <3>3, <4>1, <4>2
    <3> QED BY <3>2, <3>3
  <2> HIDE DEF U
  <2> QED BY <2>1 DEF TotalsAdd
<1>6. RowFits(R, R[c])
  BY <1>1 DEF PendingFits
<1>7. CapsKept(Q)
  <2>1. ASSUME NEW d \in Money!Days PROVE KeptBelow(Q, SettledOf(Q, d), DayCap)
    <3>1. KeptBelow(R, SettledOf(R, d), DayCap)
      BY DEF CapsKept
    <3>2. CASE d = R[c].day
      <4>1. Money!Fits(SpentOf(R, SettledOf(R, d)), DayCap)
        BY <1>6, <3>2 DEF RowFits
      <4>2. KeptBelow(Q, SettledOf(R, d) \cup {c}, DayCap)
        BY <1>1, <1>2, <1>3, <4>1, BelowGrows
      <4> QED BY <1>3, <3>2, <4>2
    <3>3. CASE d # R[c].day
      <4>1. KeptBelow(Q, SettledOf(R, d), DayCap)
        BY <1>1, <1>3, <3>1, BelowStays
      <4> QED BY <1>3, <3>3, <4>1
    <3> QED BY <3>2, <3>3
  <2>2. ASSUME NEW d \in Money!Days, NEW n \in Money!Range(PipelineOf)
        PROVE  KeptBelow(Q, ByPipeline(Q, d, n), PipelineCap[n])
    <3>1. KeptBelow(R, ByPipeline(R, d, n), PipelineCap[n])
      BY DEF CapsKept
    <3>2. CASE d = R[c].day /\ n = R[c].pipeline
      <4>1. Money!Fits(SpentOf(R, ByPipeline(R, d, n)), PipelineCap[n])
        BY <1>6, <3>2 DEF RowFits
      <4>2. KeptBelow(Q, ByPipeline(R, d, n) \cup {c}, PipelineCap[n])
        BY <1>1, <1>2, <1>4, <4>1, BelowGrows, SMTT(30)
      <4> QED BY <1>4, <3>2, <4>2
    <3>3. CASE ~(d = R[c].day /\ n = R[c].pipeline)
      <4>1. KeptBelow(Q, ByPipeline(R, d, n), PipelineCap[n])
        BY <1>1, <1>4, <3>1, BelowStays
      <4> QED BY <1>4, <3>3, <4>1
    <3> QED BY <3>2, <3>3
  <2> QED BY <2>1, <2>2 DEF CapsKept
<1>8. PendingFits(Q)
  BY DEF PendingFits
<1> QED BY <1>5, <1>7, <1>8

\* What the provider billed a call, its attempts' usages in a set.
ActualOf(B) == IF B = {} THEN Money!Zero ELSE (CHOOSE p \in B : TRUE)[2]

BooksTyped ==
    /\ day \in Money!Days /\ engine \in BOOLEAN
    /\ admitted \in Spenders \cup {NoSpender} /\ callStage \in {"admit", "calling", "answered"}
    /\ attempt \in Nat
    /\ billed \in Seq(BudgetRow) /\ totals \in [Money!Days -> Money!Usage]
    /\ paid \in Seq(SUBSET (Nat \X Usages)) /\ Len(paid) = Len(billed)

\* The last row alone is pending; a call on its way has it, and was not billed
\* before an answer came, nor if it was refused.
CallIsOpen ==
    /\ \A c \in DOMAIN billed : billed[c].status = "pending" => c = Len(billed)
    /\ admitted # NoSpender => engine
    /\ callStage # "admit" =>
          /\ admitted # NoSpender
          /\ Len(billed) \in DOMAIN billed /\ billed[Len(billed)].status = "pending"
          /\ callStage = "calling" \/ completion = "refused" => paid[Len(billed)] = {}

\* A call is billed once at most, and a row that is closed says what was billed.
Billed ==
    \A c \in DOMAIN billed :
        /\ paid[c] = {} \/ \E p \in Nat \X Usages : paid[c] = {p}
        /\ billed[c].status = "settled" => billed[c].used = ActualOf(paid[c])
        /\ billed[c].status = "rejected" => paid[c] = {}

LedgerInv ==
    /\ BooksTyped /\ CallIsOpen /\ Billed
    /\ TotalsAdd(billed, totals) /\ CapsKept(billed) /\ PendingFits(billed)

\* What one attempt was billed is the call's usage.
LEMMA ActualIs ==
    ASSUME Money!BudgetAssumption
    PROVE  /\ ActualOf({}) \in Money!Usage /\ ActualOf({}) = Money!Zero
           /\ \A p \in Nat \X Usages : ActualOf({p}) = p[2] /\ ActualOf({p}) \in Money!Usage
<1>1. Money!Zero \in Money!Usage
  BY DEF Money!Zero, Money!Usage
<1>2. \A p : (CHOOSE q \in {p} : TRUE) = p
  OBVIOUS
<1>3. \A p \in Nat \X Usages : p[2] \in Money!Usage
  BY DEF Money!BudgetAssumption
<1> QED BY <1>1, <1>2, <1>3 DEF ActualOf

\* A step that writes nothing to the ledger.
LEMMA LedgerQuiet ==
    ASSUME LedgerInv, billed' = billed, totals' = totals, paid' = paid,
           day' \in Money!Days, engine' \in BOOLEAN, admitted' \in Spenders \cup {NoSpender},
           attempt' \in Nat, callStage' \in {"admit", "calling", "answered"},
           admitted' # NoSpender => engine',
           callStage' # "admit" =>
               /\ admitted' # NoSpender /\ callStage # "admit"
               /\ callStage' = "calling" \/ completion' = "refused" =>
                      callStage = "calling" \/ completion = "refused"
    PROVE  LedgerInv'
<1>1. TotalsAdd(billed, totals)' /\ CapsKept(billed)' /\ PendingFits(billed)'
  <2>1. \A R, T, Q, U : R = Q /\ T = U /\ TotalsAdd(R, T) /\ CapsKept(R) /\ PendingFits(R) =>
                           TotalsAdd(Q, U) /\ CapsKept(Q) /\ PendingFits(Q)
    OBVIOUS
  <2> QED BY <2>1 DEF LedgerInv
<1>2. BooksTyped' /\ CallIsOpen' /\ Billed'
  BY DEF LedgerInv, BooksTyped, CallIsOpen, Billed
<1> QED BY <1>1, <1>2 DEF LedgerInv

\* The call on its way is billed, or is not.
LEMMA LedgerBills ==
    ASSUME LedgerInv, callStage = "calling", billed' = billed, totals' = totals, day' = day,
           engine' \in BOOLEAN, admitted' \in Spenders \cup {NoSpender}, attempt' \in Nat,
           Money!Bill(Usages) \/ UNCHANGED paid,
           \/ callStage' = "admit" /\ admitted' = NoSpender
           \/ /\ callStage' = "answered" /\ completion' # "refused"
              /\ engine' = engine /\ admitted' = admitted
    PROVE  LedgerInv'
<1> DEFINE n == Len(billed)
<1>1. /\ n \in DOMAIN billed /\ n \in DOMAIN paid /\ DOMAIN paid = DOMAIN billed
      /\ billed[n].status = "pending" /\ paid[n] = {} /\ attempt \in Nat
      /\ paid \in Seq(SUBSET (Nat \X Usages)) /\ Len(paid) = n
  BY DEF LedgerInv, BooksTyped, CallIsOpen
<1>2. CASE UNCHANGED paid
  BY <1>2, LedgerQuiet DEF LedgerInv, BooksTyped, CallIsOpen
<1>3. CASE Money!Bill(Usages)
  <2>1. PICK u \in Usages : paid' = [paid EXCEPT ![n] = @ \cup {<<attempt, u>>}]
    BY <1>3 DEF Money!Bill, Money!Open
  <2> DEFINE p == <<attempt, u>>
  <2>2. p \in Nat \X Usages
    BY <1>1
  <2> HIDE DEF p
  <2>3. paid' = [paid EXCEPT ![n] = {p}]
    BY <1>1, <2>1 DEF p
  <2>4. /\ paid' \in Seq(SUBSET (Nat \X Usages)) /\ Len(paid') = n
        /\ paid'[n] = {p} /\ \A c \in DOMAIN billed : c # n => paid'[c] = paid[c]
    BY <1>1, <2>2, <2>3
  <2>5. BooksTyped' /\ CallIsOpen'
    BY <2>4 DEF LedgerInv, BooksTyped, CallIsOpen
  <2>6. Billed'
    <3>1. ASSUME NEW c \in DOMAIN billed, c # n
          PROVE  (\/ paid[c] = {} \/ \E p_ \in Nat \X Usages : paid[c] = {p_})'
                 /\ (billed[c].status = "settled" => billed[c].used = ActualOf(paid[c]))'
                 /\ (billed[c].status = "rejected" => paid[c] = {})'
      BY <2>4, <3>1 DEF LedgerInv, Billed
    <3>2. (\E p_ \in Nat \X Usages : paid[n] = {p_})'
      BY <2>2, <2>4
    <3> QED BY <1>1, <3>1, <3>2 DEF Billed
  <2>7. TotalsAdd(billed, totals)' /\ CapsKept(billed)' /\ PendingFits(billed)'
    <3>1. \A R, T, Q, U : R = Q /\ T = U /\ TotalsAdd(R, T) /\ CapsKept(R) /\ PendingFits(R) =>
                             TotalsAdd(Q, U) /\ CapsKept(Q) /\ PendingFits(Q)
      OBVIOUS
    <3> QED BY <3>1 DEF LedgerInv
  <2> QED BY <2>5, <2>6, <2>7 DEF LedgerInv
<1> QED BY <1>2, <1>3

\* The sums of the ledger, of its own table.
LEMMA LedgerSums ==
    ASSUME NEW S, NEW d, NEW name
    PROVE  /\ Money!Spent(S) = SpentOf(billed, S)
           /\ Money!Settled(d) = SettledOf(billed, d)
           /\ {c \in Money!Settled(d) : billed[c].pipeline = name} = ByPipeline(billed, d, name)
<1>1. Money!Spent(S) = SpentOf(billed, S)
  BY LedgerSum DEF Money!Spent, SpentOf, TokensIn, CostIn
<1>2. Money!Settled(d) = SettledOf(billed, d)
  BY DEF Money!Settled, SettledOf
<1> QED BY <1>1, <1>2 DEF ByPipeline

\* A call is admitted: it fits, and no other is pending.
LEMMA LedgerAdmits ==
    ASSUME Money!BudgetAssumption, LedgerInv, Money!Admit
    PROVE  LedgerInv'
<1> DEFINE row == [day |-> day, pipeline |-> PipelineOf[admitted], status |-> "pending",
                   used |-> Money!Zero]
           n == Len(billed) + 1
<1>1. /\ billed' = Append(billed, row) /\ paid' = Append(paid, {})
      /\ UNCHANGED <<totals, day, engine, admitted, attempt>> /\ callStage' = "calling"
      /\ admitted # NoSpender /\ Money!MayBegin(PipelineOf[admitted])
  BY DEF Money!Admit
<1>2. /\ billed \in Seq(BudgetRow) /\ paid \in Seq(SUBSET (Nat \X Usages)) /\ Len(paid) = Len(billed)
      /\ day \in Money!Days /\ totals \in [Money!Days -> Money!Usage] /\ admitted \in Spenders
      /\ engine \in BOOLEAN /\ attempt \in Nat
  BY <1>1 DEF LedgerInv, BooksTyped
<1>3. row \in BudgetRow
  <2>1. PipelineOf[admitted] \in Money!Range(PipelineOf)
    BY <1>2 DEF Money!BudgetAssumption, Money!Range
  <2>2. Money!Zero \in Money!Usage
    BY DEF Money!Zero, Money!Usage
  <2> QED BY <1>2, <2>1, <2>2 DEF BudgetRow
<1>4. row.status = "pending" /\ row.day = day /\ row.pipeline = PipelineOf[admitted]
  OBVIOUS
<1> HIDE DEF row
<1>5. /\ billed' \in Seq(BudgetRow) /\ Len(billed') = n /\ DOMAIN billed' = 1 .. n /\ billed'[n] = row
      /\ DOMAIN billed = 1 .. (n - 1) /\ n \in Nat
      /\ \A x \in DOMAIN billed : billed'[x] = billed[x]
  BY <1>1, <1>2, <1>3
<1>6. /\ paid' \in Seq(SUBSET (Nat \X Usages)) /\ Len(paid') = n /\ paid'[n] = {}
      /\ \A x \in DOMAIN billed : paid'[x] = paid[x]
  BY <1>1, <1>2
<1>7. \A c \in DOMAIN billed : billed[c].status # "pending"
  BY <1>1 DEF Money!MayBegin, Money!NoPending
<1>8. RowFits(billed, row)
  <2>1. Money!Fits(totals[day], DayCap) /\ totals[day] = SpentOf(billed, SettledOf(billed, day))
    BY <1>1, <1>2 DEF Money!MayBegin, LedgerInv, TotalsAdd
  <2>2. Money!Fits(Money!Spent({c \in Money!Settled(day) : billed[c].pipeline = row.pipeline}),
                   PipelineCap[row.pipeline])
    BY <1>1, <1>4 DEF Money!MayBegin
  <2>3. Money!Fits(SpentOf(billed, ByPipeline(billed, day, row.pipeline)), PipelineCap[row.pipeline])
    BY <2>2, LedgerSums
  <2> QED BY <1>4, <2>1, <2>3 DEF RowFits
<1>9. OneRowMoves(billed, billed', n)
  BY <1>2, <1>5 DEF OneRowMoves
<1>10. TotalsAdd(billed', totals') /\ CapsKept(billed') /\ PendingFits(billed')
  <2>1. /\ TotalsAdd(billed, totals') /\ CapsKept(billed) /\ billed'[n].status # "settled"
        /\ \A x \in DOMAIN billed' : billed'[x].status = "pending" => x = n
        /\ RowFits(billed, billed'[n])
    BY <1>1, <1>4, <1>5, <1>7, <1>8 DEF LedgerInv
  <2> QED BY <1>9, <2>1, RowWaits
<1>11. BooksTyped'
  BY <1>1, <1>2, <1>5, <1>6 DEF BooksTyped
<1>12. CallIsOpen'
  BY <1>1, <1>4, <1>5, <1>6, <1>7 DEF CallIsOpen, LedgerInv
<1>13. Billed'
  <2>1. /\ \A c \in DOMAIN billed' : c = n \/ c \in DOMAIN billed
        /\ \A c \in DOMAIN billed : billed'[c] = billed[c] /\ paid'[c] = paid[c]
        /\ billed'[n].status = "pending" /\ paid'[n] = {}
    BY <1>4, <1>5, <1>6
  <2>2. ASSUME NEW c \in DOMAIN billed
        PROVE  /\ paid'[c] = {} \/ \E p \in Nat \X Usages : paid'[c] = {p}
               /\ billed'[c].status = "settled" => billed'[c].used = ActualOf(paid'[c])
               /\ billed'[c].status = "rejected" => paid'[c] = {}
    <3>1. /\ paid[c] = {} \/ \E p \in Nat \X Usages : paid[c] = {p}
          /\ billed[c].status = "settled" => billed[c].used = ActualOf(paid[c])
          /\ billed[c].status = "rejected" => paid[c] = {}
      BY DEF LedgerInv, Billed
    <3>2. billed'[c] = billed[c] /\ paid'[c] = paid[c]
      BY <2>1
    <3> QED BY <3>1, <3>2
  <2> QED BY <2>1, <2>2 DEF Billed
<1> QED BY <1>10, <1>11, <1>12, <1>13 DEF LedgerInv

\* The pending row is settled with what the call was billed.
LEMMA LedgerCharges ==
    ASSUME Money!BudgetAssumption, LedgerInv, NEW c \in DOMAIN billed, billed[c].status = "pending",
           NEW u, u = ActualOf(paid[c]), Money!Charge(c, u), paid' = paid, day' = day,
           engine' = engine, attempt' \in Nat, admitted' \in Spenders \cup {NoSpender},
           admitted' # NoSpender => engine', callStage' = "admit"
    PROVE  LedgerInv'
<1>1. /\ billed \in Seq(BudgetRow) /\ paid \in Seq(SUBSET (Nat \X Usages)) /\ Len(paid) = Len(billed)
      /\ totals \in [Money!Days -> Money!Usage] /\ c = Len(billed) /\ billed[c] \in BudgetRow
      /\ \A x \in DOMAIN billed : billed[x].status = "pending" => x = c
  BY DEF LedgerInv, BooksTyped, CallIsOpen
<1>2. u \in Money!Usage
  BY ActualIs DEF LedgerInv, Billed
<1> DEFINE row == [billed[c] EXCEPT !.status = "settled", !.used = u]
<1>3. /\ billed' = [billed EXCEPT ![c] = row]
      /\ totals' = [totals EXCEPT ![billed[c].day] = Money!Plus(@, u)]
  BY DEF Money!Charge
<1>4. /\ row \in BudgetRow /\ row.status = "settled" /\ row.used = u
      /\ row.day = billed[c].day /\ row.pipeline = billed[c].pipeline /\ billed[c].day \in Money!Days
  BY <1>1, <1>2 DEF BudgetRow
<1> HIDE DEF row
<1>5. /\ billed' \in Seq(BudgetRow) /\ Len(billed') = Len(billed) /\ DOMAIN billed' = DOMAIN billed
      /\ billed'[c] = row /\ \A x \in DOMAIN billed : x # c => billed'[x] = billed[x]
  BY <1>1, <1>3, <1>4
<1>6. OneRowMoves(billed, billed', c)
  BY <1>1, <1>5 DEF OneRowMoves
<1>7. \A x \in DOMAIN billed' : billed'[x].status # "pending"
  BY <1>1, <1>4, <1>5
<1>8. TotalsAdd(billed', totals') /\ CapsKept(billed') /\ PendingFits(billed')
  <2>1. totals' = [totals EXCEPT ![billed[c].day] = Money!Plus(@, billed'[c].used)]
    BY <1>3, <1>4, <1>5
  <2>2. TotalsAdd(billed, totals) /\ CapsKept(billed) /\ PendingFits(billed)
    BY DEF LedgerInv
  <2> QED BY <1>1, <1>4, <1>5, <1>6, <1>7, <2>1, <2>2, RowSettles
<1>9. totals' \in [Money!Days -> Money!Usage]
  <2>1. Money!Plus(totals[billed[c].day], u) \in Money!Usage
    BY <1>1, <1>2, <1>4 DEF Money!Plus, Money!Usage
  <2> QED BY <1>1, <1>3, <2>1
<1>10. BooksTyped' /\ CallIsOpen'
  BY <1>1, <1>5, <1>7, <1>9 DEF BooksTyped, CallIsOpen, LedgerInv
<1>11. Billed'
  BY <1>4, <1>5 DEF Billed, LedgerInv
<1> QED BY <1>8, <1>10, <1>11 DEF LedgerInv

\* The pending row is written off: its call was refused unbilled.
LEMMA LedgerReleases ==
    ASSUME LedgerInv, Money!ReleaseCall PROVE LedgerInv'
<1> DEFINE c == Len(billed)
           row == [billed[c] EXCEPT !.status = "rejected"]
<1>1. /\ billed' = [billed EXCEPT ![c] = row] /\ UNCHANGED <<paid, totals, day, engine>>
      /\ callStage = "answered" /\ completion = "refused" /\ callStage' = "admit"
      /\ admitted' = NoSpender /\ attempt' = 0
  BY DEF Money!ReleaseCall, Money!ReleaseGate, Money!Open
<1>2. /\ billed \in Seq(BudgetRow) /\ c \in DOMAIN billed /\ billed[c].status = "pending" /\ paid[c] = {}
      /\ \A x \in DOMAIN billed : billed[x].status = "pending" => x = c
      /\ \A x \in DOMAIN billed : x <= c
  BY <1>1 DEF LedgerInv, BooksTyped, CallIsOpen
<1>3. row \in BudgetRow /\ row.status = "rejected" /\ billed[c] \in BudgetRow
  <2>1. billed[c] \in BudgetRow
    BY <1>2, RowUsed
  <2> QED BY <2>1 DEF BudgetRow
<1> HIDE DEF row
<1>4. /\ billed' \in Seq(BudgetRow) /\ Len(billed') = c /\ DOMAIN billed' = DOMAIN billed
      /\ billed'[c] = row /\ \A x \in DOMAIN billed : x # c => billed'[x] = billed[x]
  BY <1>1, <1>2, <1>3
<1>5. OneRowMoves(billed, billed', c)
  BY <1>2, <1>4 DEF OneRowMoves
<1>6. \A x \in DOMAIN billed' : billed'[x].status # "pending"
  BY <1>2, <1>3, <1>4
<1>7. TotalsAdd(billed', totals') /\ CapsKept(billed') /\ PendingFits(billed')
  <2>1. TotalsAdd(billed, totals') /\ CapsKept(billed) /\ billed'[c].status # "settled"
    BY <1>1, <1>3, <1>4 DEF LedgerInv
  <2> HIDE DEF c
  <2> QED BY <1>2, <1>4, <1>5, <1>6, <2>1, RowWaits
<1>8. BooksTyped' /\ CallIsOpen'
  BY <1>1, <1>4, <1>6 DEF BooksTyped, CallIsOpen, LedgerInv
<1>9. Billed'
  BY <1>1, <1>2, <1>3, <1>4 DEF Billed, LedgerInv
<1> QED BY <1>7, <1>8, <1>9 DEF LedgerInv

\* Every step of the calls and of the books keeps the ledger's invariant.
LEMMA LedgerStep ==
    ASSUME Money!BudgetAssumption, LedgerInv, [Money!Next]_(Money!vars)
    PROVE  LedgerInv'
<1>1. /\ BooksTyped /\ CallIsOpen /\ NoSpender \notin Spenders
      /\ MoneyDays \in Nat \ {0}
  BY DEF LedgerInv, Money!BudgetAssumption
\* Where a call is does not change, or it leaves the gate.
<1>2. ASSUME UNCHANGED <<billed, totals, paid>>, day' \in Money!Days, engine' \in BOOLEAN,
             \/ engine' /\ UNCHANGED <<admitted, callStage, attempt, completion>>
             \/ engine' = engine /\ UNCHANGED <<admitted, callStage, attempt, completion>>
             \/ callStage' = "admit" /\ attempt' = 0 /\ admitted' = NoSpender
      PROVE  LedgerInv'
  <2>1. admitted' \in Spenders \cup {NoSpender} /\ callStage' \in {"admit", "calling", "answered"}
    BY <1>1, <1>2 DEF BooksTyped
  <2>2. attempt' \in Nat /\ (admitted' # NoSpender => engine')
    BY <1>1, <1>2 DEF BooksTyped, CallIsOpen
  <2>3. callStage' # "admit" =>
           /\ admitted' # NoSpender /\ callStage # "admit"
           /\ callStage' = "calling" \/ completion' = "refused" =>
                  callStage = "calling" \/ completion = "refused"
    BY <1>1, <1>2 DEF CallIsOpen
  <2> QED BY <1>2, <2>1, <2>2, <2>3, LedgerQuiet
<1>3. ASSUME NEW r \in Spenders, Money!NewRun(r) PROVE LedgerInv'
  BY <1>1, <1>2, <1>3 DEF Money!NewRun, Money!storeVars, Money!gateVars, BooksTyped
<1>4. CASE Money!Snapshot \/ Money!ReloadAlerts
  BY <1>1, <1>2, <1>4 DEF Money!Snapshot, Money!ReloadAlerts, Money!storeVars, Money!gateVars,
     BooksTyped
<1>5. CASE Money!Midnight
  <2>1. day' \in Money!Days
    BY <1>1, <1>5 DEF Money!Midnight, Money!Days, BooksTyped
  <2> QED BY <1>1, <1>2, <1>5, <2>1 DEF Money!Midnight, Money!storeVars, Money!gateVars, BooksTyped
<1>6. CASE Money!Boot
  BY <1>1, <1>2, <1>6 DEF Money!Boot, Money!storeVars, Money!gateVars, BooksTyped
<1>7. CASE UNCHANGED Money!vars
  BY <1>1, <1>2, <1>7 DEF Money!vars, Money!storeVars, Money!gateVars, BooksTyped
<1>8. CASE Money!Refuse \/ Money!Unrecorded \/ Money!KeepPending
  BY <1>1, <1>2, <1>8 DEF Money!Refuse, Money!Unrecorded, Money!KeepPending, Money!ReleaseGate,
     Money!storeVars, BooksTyped
<1>9. ASSUME NEW r \in Spenders, Money!Acquire(r) PROVE LedgerInv'
  BY <1>1, <1>9, LedgerQuiet DEF Money!Acquire, Money!storeVars, BooksTyped
<1>10. CASE Money!Reject \/ Money!Retry
  <2>1. /\ callStage = "calling" /\ callStage' \in {"calling", "answered"}
        /\ UNCHANGED <<billed, totals, paid, day, engine, admitted>>
        /\ attempt' = attempt \/ attempt' = attempt + 1
    BY <1>10 DEF Money!Reject, Money!Retry, Money!storeVars
  <2>2. attempt' \in Nat
    BY <1>1, <2>1 DEF BooksTyped
  <2> QED BY <1>1, <2>1, <2>2, LedgerQuiet DEF BooksTyped, CallIsOpen
<1>11. CASE Money!Admit
  BY <1>11, LedgerAdmits
<1>12. CASE Money!Complete \/ Money!Lose
  <2>1. /\ callStage = "calling" /\ callStage' = "answered" /\ completion' # "refused"
        /\ UNCHANGED <<billed, totals, day, engine, admitted, attempt>>
        /\ Money!Bill(Usages) \/ UNCHANGED paid
    BY <1>12 DEF Money!Complete, Money!Lose, Money!storeVars
  <2> QED BY <1>1, <2>1, LedgerBills DEF BooksTyped
<1>13. CASE Money!Stop
  <2>1. /\ callStage' = "admit" /\ admitted' = NoSpender /\ attempt' = 0 /\ engine' = FALSE
        /\ UNCHANGED <<billed, totals, day>>
        /\ IF callStage = "calling" THEN Money!Bill(Usages) \/ UNCHANGED paid ELSE UNCHANGED paid
    BY <1>13 DEF Money!Stop, Money!ReleaseGate, Money!storeVars
  <2>2. CASE callStage = "calling"
    BY <1>1, <2>1, <2>2, LedgerBills DEF BooksTyped
  <2>3. CASE callStage # "calling"
    BY <1>1, <2>1, <2>3, LedgerQuiet DEF BooksTyped
  <2> QED BY <2>2, <2>3
<1>14. CASE Money!Settle
  <2>1. PICK p \in paid[Money!Open] :
             /\ Money!Charge(Money!Open, p[2])
             /\ callStage = "answered" /\ callStage' = "admit" /\ admitted' = NoSpender
             /\ attempt' = 0 /\ UNCHANGED <<day, engine, paid>>
    BY <1>14 DEF Money!Settle, Money!ReleaseGate
  <2>2. Len(billed) \in DOMAIN billed /\ billed[Len(billed)].status = "pending"
    BY <1>1, <2>1 DEF CallIsOpen
  <2>3. p[2] = ActualOf(paid[Len(billed)])
    <3>1. p \in paid[Len(billed)]
      BY <2>1 DEF Money!Open
    <3>2. PICK q \in Nat \X Usages : paid[Len(billed)] = {q}
      BY <2>2, <3>1 DEF LedgerInv, Billed
    <3> QED BY <3>1, <3>2, ActualIs
  <2> QED BY <1>1, <2>1, <2>2, <2>3, LedgerCharges DEF Money!Open, BooksTyped
<1>15. CASE Money!ReleaseCall
  BY <1>15, LedgerReleases
<1>16. ASSUME NEW c \in DOMAIN billed, Money!Reconcile(c) PROVE LedgerInv'
  <2>1. /\ ~engine /\ billed[c].status = "pending" /\ Money!Charge(c, ActualOf(paid[c]))
        /\ UNCHANGED <<day, engine, admitted, callStage, attempt, paid>>
    BY <1>16 DEF Money!Reconcile, Money!Actual, ActualOf, Money!gateVars
  <2>2. callStage = "admit" /\ admitted = NoSpender
    BY <1>1, <2>1 DEF CallIsOpen
  <2> QED BY <1>1, <2>1, <2>2, LedgerCharges DEF BooksTyped
<1> QED BY <1>11, <1>12, <1>13, <1>14, <1>15, <1>16, <1>3, <1>4, <1>5, <1>6, <1>7, <1>8, <1>9,
           <1>10 DEF Money!Next

\* A set of numbers with a bound has a largest one.
LEMMA MaxIs ==
    ASSUME NEW S, S \subseteq Nat, S # {}, NEW n \in Nat, \A y \in S : y <= n
    PROVE  Money!Max(S) \in S /\ \A y \in S : y <= Money!Max(S)
<1> DEFINE T == {m \in Nat : \A y \in S : y <= m}
<1>1. n \in T /\ T \subseteq Nat
  OBVIOUS
<1>2. PICK m \in T : \A k \in Nat : k < m => k \notin T
  <2>1. ~ \A k \in Nat : (\A j \in Nat : j < k => j \notin T) => k \notin T
    <3> HIDE DEF T
    <3> QED BY <1>1, Sizes
  <2> QED BY <2>1
<1>3. m \in S
  <2>1. SUFFICES ASSUME m \notin S PROVE FALSE
    OBVIOUS
  <2>2. PICK y \in S : TRUE
    OBVIOUS
  <2>3. y < m /\ y \in Nat /\ m \in Nat /\ \A z \in S : z \in Nat /\ z < m
    BY <2>1
  <2>4. m - 1 \in Nat /\ m - 1 < m /\ \A z \in S : z <= m - 1
    BY <2>3
  <2> QED BY <1>2, <2>4
<1>4. m \in S /\ \A y \in S : m >= y
  BY <1>3
<1>5. Money!Max(S) \in S /\ \A y \in S : Money!Max(S) >= y
  BY <1>4, Zenon DEF Money!Max
<1> QED BY <1>5

\* What the invariant says of the books.
LEMMA LedgerMatches ==
    ASSUME LedgerInv PROVE Money!BooksMatchProvider
<1>1. ASSUME NEW c \in DOMAIN billed
      PROVE  /\ Money!Cardinality(paid[c]) <= 1
             /\ billed[c].status = "settled" => billed[c].used = Money!Actual(c)
             /\ billed[c].status = "rejected" => paid[c] = {}
  <2>1. Money!Cardinality(paid[c]) = Cardinality(paid[c])
    BY DEF Money!Cardinality, Cardinality
  <2>2. paid[c] = {} \/ \E p : paid[c] = {p}
    BY DEF LedgerInv, Billed
  <2>3. Cardinality(paid[c]) <= 1
    <3>1. CASE paid[c] = {}
      BY <3>1, FS_EmptySet
    <3>2. ASSUME NEW p, paid[c] = {p} PROVE Cardinality(paid[c]) <= 1
      <4>1. Cardinality({p}) = 1
        BY FS_Singleton
      <4> QED BY <3>2, <4>1
    <3> QED BY <2>2, <3>1, <3>2
  <2> QED BY <2>1, <2>3 DEF LedgerInv, Billed, ActualOf, Money!Actual
<1>2. ASSUME NEW d \in Money!Days PROVE totals[d] = Money!Spent(Money!Settled(d))
  BY LedgerSums DEF LedgerInv, TotalsAdd
<1> QED BY <1>1, <1>2 DEF Money!BooksMatchProvider

\* A day's spend passes no cap by more than its last answer.
LEMMA LedgerOvershoots ==
    ASSUME LedgerInv PROVE Money!OvershootIsOneAnswer
<1>1. ASSUME NEW S \in SUBSET DOMAIN billed, NEW cap, KeptBelow(billed, S, cap)
      PROVE  Money!Within(S, cap)
  <2>1. CASE S = {}
    BY <2>1 DEF Money!Within
  <2>2. CASE S # {}
    <3> DEFINE l == Money!Max(S)
    <3>1. S \subseteq Nat /\ Len(billed) \in Nat /\ \A y \in S : y <= Len(billed)
      BY DEF LedgerInv, BooksTyped
    <3>2. l \in S /\ \A y \in S : y <= l
      BY <2>2, <3>1, MaxIs
    <3> HIDE DEF l
    <3>3. /\ cap.tokens > 0 => SpentOf(billed, S \ {l}).tokens + RequestedTokens <= cap.tokens
          /\ cap.cost > 0 => SpentOf(billed, S \ {l}).cost < cap.cost
          /\ cap.cost > 0 /\ cap.reserve /\ (\A c \in S : billed[c].used.cost <= Worst)
                => SpentOf(billed, S).cost <= cap.cost
      BY <1>1, <3>2 DEF KeptBelow
    <3>4. /\ cap.tokens > 0 => Money!Spent(S \ {l}).tokens + RequestedTokens <= cap.tokens
          /\ cap.cost > 0 => Money!Spent(S \ {l}).cost < cap.cost
          /\ cap.cost > 0 /\ cap.reserve /\ (\A c \in S : billed[c].used.cost <= Worst)
                => Money!Spent(S).cost <= cap.cost
      BY <3>3, LedgerSums
    <3> QED BY <3>4 DEF Money!Within, l
  <2> QED BY <2>1, <2>2
<1>2. ASSUME NEW d \in Money!Days PROVE Money!Within(Money!Settled(d), DayCap)
  <2>1. Money!Settled(d) = SettledOf(billed, d) /\ SettledOf(billed, d) \in SUBSET DOMAIN billed
    BY LedgerSums DEF SettledOf
  <2> QED BY <1>1, <2>1 DEF LedgerInv, CapsKept
<1>3. ASSUME NEW d \in Money!Days, NEW name \in Money!Range(PipelineOf)
      PROVE  Money!Within({c \in Money!Settled(d) : billed[c].pipeline = name}, PipelineCap[name])
  <2>1. /\ {c \in Money!Settled(d) : billed[c].pipeline = name} = ByPipeline(billed, d, name)
        /\ ByPipeline(billed, d, name) \in SUBSET DOMAIN billed
    BY LedgerSums DEF SettledOf, ByPipeline
  <2> QED BY <1>1, <2>1 DEF LedgerInv, CapsKept
<1> QED BY <1>2, <1>3 DEF Money!OvershootIsOneAnswer

\* The ledger starts empty.
LEMMA LedgerStarts ==
    ASSUME Money!BudgetAssumption, Money!Init PROVE LedgerInv
<1>1. /\ billed = <<>> /\ paid = <<>> /\ day = 1 /\ engine /\ admitted = NoSpender
      /\ callStage = "admit" /\ attempt = 0 /\ totals = [d \in Money!Days |-> Money!Zero]
      /\ MoneyDays \in Nat \ {0}
  BY DEF Money!Init, Money!BudgetAssumption
<1>2. day \in Money!Days /\ Money!Zero \in Money!Usage /\ DOMAIN billed = {}
  BY <1>1 DEF Money!Days, Money!Zero, Money!Usage
<1>3. engine \in BOOLEAN
  BY DEF Money!Init
<1>4. BooksTyped /\ CallIsOpen /\ Billed /\ PendingFits(billed)
  BY <1>1, <1>2, <1>3 DEF BooksTyped, CallIsOpen, Billed, PendingFits
<1>5. SpentOf(billed, {}) = Money!Zero
  <2>1. billed \in Seq(BudgetRow) /\ {} \in SUBSET DOMAIN billed
    BY <1>1
  <2>2. SumFunctionOnSet(TokensIn(billed), {}) = 0 /\ SumFunctionOnSet(CostIn(billed), {}) = 0
    BY <2>1, PartsAreFinite, SumTakesOne
  <2> QED BY <2>2 DEF SpentOf, Money!Zero
<1>6. \A d, name : SettledOf(billed, d) = {} /\ ByPipeline(billed, d, name) = {}
  BY <1>2 DEF SettledOf, ByPipeline
<1>7. TotalsAdd(billed, totals) /\ CapsKept(billed)
  BY <1>1, <1>5, <1>6 DEF TotalsAdd, CapsKept, KeptBelow
<1> QED BY <1>4, <1>7 DEF LedgerInv

\* An alert whose mark was written is in the store.
AlertInv ==
    /\ mem \in [day : Money!Days, used : Nat, err : BOOLEAN]
    /\ alerts \in Seq([day : Money!Days, at : Nat, marked : BOOLEAN])
    /\ \A i \in DOMAIN alerts : alerts[i].marked => <<alerts[i].day, alerts[i].at>> \in marks
    /\ Money!AlertsOnce

\* A usage that crosses thresholds alerts for one that was not marked.
LEMMA AlertsMark ==
    ASSUME Money!BudgetAssumption, AlertInv, NEW used \in Nat, Money!Alert(used),
           mem' \in [day : Money!Days, used : Nat, err : BOOLEAN]
    PROVE  AlertInv'
<1>1. PICK lost \in {{}, Money!Crossed(used)} :
           LET crossed == Money!Crossed(used)
               new     == (crossed \ marks) \cup lost
           IN  /\ IF lost = {} THEN marks' = marks \cup crossed ELSE marks' = marks
               /\ alerts' = IF new = {} THEN alerts
                            ELSE Append(alerts, [day |-> mem.day,
                                                 at |-> Money!Max({k[2] : k \in new}),
                                                 marked |-> lost = {}])
  BY DEF Money!Alert
<1> DEFINE crossed == Money!Crossed(used)
           new == (crossed \ marks) \cup lost
           m == Money!Max({k[2] : k \in new})
<1>2. /\ alerts \in Seq([day : Money!Days, at : Nat, marked : BOOLEAN]) /\ mem.day \in Money!Days
      /\ \A i \in DOMAIN alerts : alerts[i].marked => <<alerts[i].day, alerts[i].at>> \in marks
      /\ \A i, j \in DOMAIN alerts : i # j /\ alerts[i].marked /\ alerts[j].marked =>
            alerts[i].day # alerts[j].day \/ alerts[i].at # alerts[j].at
  BY DEF AlertInv, Money!AlertsOnce
<1>3. marks \subseteq marks'
  BY <1>1
<1>4. CASE new = {}
  <2>1. alerts' = alerts
    BY <1>1, <1>4
  <2> QED BY <1>2, <1>3, <2>1 DEF AlertInv, Money!AlertsOnce
<1>5. CASE new # {}
  <2>1. new \subseteq crossed /\ \A k \in crossed : k = <<mem.day, k[2]>> /\ k[2] \in Nat /\ k[2] <= used
    <3>1. new \subseteq crossed
      BY <1>1
    <3>2. \A k \in crossed : k \in {mem.day} \X AlertAt /\ k[2] <= used
      BY DEF Money!Crossed
    <3>3. AlertAt \subseteq Nat
      BY DEF Money!BudgetAssumption
    <3> HIDE DEF crossed, new
    <3>4. \A k \in {mem.day} \X AlertAt : k = <<mem.day, k[2]>> /\ k[2] \in AlertAt
      OBVIOUS
    <3> QED BY <3>1, <3>2, <3>3, <3>4
  <2>2. m \in {k[2] : k \in new}
    <3> DEFINE S == {k[2] : k \in new}
    <3>1. S \subseteq Nat /\ \A y \in S : y <= used
      BY <2>1
    <3>2. S # {}
      BY <1>5, ZenonT(60)
    <3> HIDE DEF S
    <3> QED BY <3>1, <3>2, MaxIs DEF S
  <2> DEFINE a == [day |-> mem.day, at |-> m, marked |-> lost = {}]
  <2>3. alerts' = Append(alerts, a)
    BY <1>1, <1>5
  <2>4. m \in Nat /\ <<mem.day, m>> \in new
    BY <2>1, <2>2
  <2>5. /\ a \in [day : Money!Days, at : Nat, marked : BOOLEAN] /\ a.day = mem.day /\ a.at = m
        /\ a.marked => lost = {}
    BY <1>2, <2>4
  <2>6. a.marked => <<a.day, a.at>> \in marks' /\ <<a.day, a.at>> \notin marks
    BY <1>1, <2>4, <2>5
  <2> HIDE DEF a
  <2> DEFINE n == Len(alerts) + 1
  <2>7. /\ alerts' \in Seq([day : Money!Days, at : Nat, marked : BOOLEAN])
        /\ \A i \in DOMAIN alerts' : i # n => i \in DOMAIN alerts /\ alerts'[i] = alerts[i]
        /\ alerts'[n] = a
    BY <1>2, <2>3, <2>5
  <2>8. \A i \in DOMAIN alerts' : alerts'[i].marked => <<alerts'[i].day, alerts'[i].at>> \in marks'
    BY <1>2, <1>3, <2>6, <2>7
  <2>9. \A i \in DOMAIN alerts : alerts[i].marked /\ a.marked =>
            alerts[i].day # a.day \/ alerts[i].at # a.at
    BY <1>2, <2>6
  <2>10. \A i, j \in DOMAIN alerts' : i # j /\ alerts'[i].marked /\ alerts'[j].marked =>
            alerts'[i].day # alerts'[j].day \/ alerts'[i].at # alerts'[j].at
    <3>1. SUFFICES ASSUME NEW i \in DOMAIN alerts', NEW j \in DOMAIN alerts', i # j,
                          alerts'[i].marked, alerts'[j].marked
                   PROVE  alerts'[i].day # alerts'[j].day \/ alerts'[i].at # alerts'[j].at
      OBVIOUS
    <3>2. CASE i = n
      BY <2>7, <2>9, <3>1, <3>2
    <3>3. CASE j = n
      BY <2>7, <2>9, <3>1, <3>3
    <3>4. CASE i # n /\ j # n
      BY <1>2, <2>7, <3>1, <3>4, ZenonT(60)
    <3> QED BY <3>2, <3>3, <3>4
  <2> QED BY <2>7, <2>8, <2>10 DEF AlertInv, Money!AlertsOnce
<1> QED BY <1>4, <1>5

\* Every step keeps the alerts single.
LEMMA AlertStep ==
    ASSUME Money!BudgetAssumption, LedgerInv, AlertInv, [Money!Next]_(Money!vars)
    PROVE  AlertInv'
<1> DEFINE Tracker == [day : Money!Days, used : Nat, err : BOOLEAN]
<1>1. mem \in Tracker
  BY DEF AlertInv
<1>2. Money!Refreshed \in Tracker
  <2>1. day \in Money!Days /\ totals[day] \in Money!Usage
    BY DEF LedgerInv, BooksTyped
  <2> QED BY <1>1, <2>1 DEF Money!Refreshed, Money!Usage
<1>3. \A t \in Tracker, b \in BOOLEAN : [t EXCEPT !.err = b] \in Tracker
  OBVIOUS
<1>4. ASSUME UNCHANGED <<marks, alerts>>,
             \/ mem' = mem \/ mem' = Money!Refreshed \/ mem' = [mem EXCEPT !.err = TRUE]
             \/ mem' = [Money!Refreshed EXCEPT !.err = FALSE]
      PROVE  AlertInv'
  <2>1. mem' \in Tracker
    BY <1>1, <1>2, <1>3, <1>4
  <2> QED BY <1>4, <2>1 DEF AlertInv, Money!AlertsOnce
<1>5. CASE Money!Settle
  <2>1. PICK p \in paid[Len(billed)] :
             Money!Record(p[2].tokens) /\ Money!Alert(mem.used + p[2].tokens)
    BY <1>5 DEF Money!Settle, Money!Open
  <2>2. p[2].tokens \in Nat
    <3>1. paid[Len(billed)] \in SUBSET (Nat \X Usages)
      BY <1>5 DEF LedgerInv, BooksTyped, CallIsOpen, Money!Settle
    <3>2. p[2] \in Money!Usage
      BY <2>1, <3>1 DEF Money!BudgetAssumption
    <3> QED BY <3>2 DEF Money!Usage
  <2>3. mem.used + p[2].tokens \in Nat /\ mem' \in Tracker
    BY <1>1, <2>1, <2>2 DEF Money!Record
  <2> QED BY <2>1, <2>3, AlertsMark
<1>6. CASE Money!Admit \/ Money!Refuse \/ Money!Complete \/ Money!Lose \/ Money!Reject \/ Money!Retry
  BY <1>4, <1>6 DEF Money!Admit, Money!Refuse, Money!Complete, Money!Lose, Money!Reject,
     Money!Retry, Money!storeVars, Money!trackerVars
<1>7. CASE Money!Unrecorded \/ Money!KeepPending \/ Money!ReleaseCall
  BY <1>4, <1>7 DEF Money!Unrecorded, Money!KeepPending, Money!ReleaseCall, Money!storeVars,
     Money!trackerVars
<1>8. CASE \/ Money!Snapshot \/ Money!ReloadAlerts \/ Money!Midnight \/ Money!Stop \/ Money!Boot
  BY <1>4, <1>8 DEF Money!Snapshot, Money!ReloadAlerts, Money!Midnight, Money!Stop, Money!Boot,
     Money!storeVars, Money!trackerVars
<1>9. ASSUME NEW r \in Spenders, Money!Acquire(r) \/ Money!NewRun(r) PROVE AlertInv'
  BY <1>4, <1>9 DEF Money!Acquire, Money!NewRun, Money!storeVars, Money!trackerVars
<1>10. ASSUME NEW c \in DOMAIN billed, Money!Reconcile(c) PROVE AlertInv'
  BY <1>4, <1>10 DEF Money!Reconcile, Money!trackerVars
<1>11. CASE UNCHANGED Money!vars
  BY <1>4, <1>11 DEF Money!vars, Money!storeVars, Money!trackerVars
<1> QED BY <1>5, <1>6, <1>7, <1>8, <1>9, <1>10, <1>11 DEF Money!Next

-----------------------------------------------------------------------------
VoiceRow == [day : Money!Days, status : {"none", "open", "ended", "refused"}, minutes : Nat]

\* The calls of a table that a day counts, and their lengths.
CountedOn(V, d) == {s \in Sessions : V[s].day = d /\ V[s].status \in {"open", "ended"}}
MinutesIn(V) == [s \in Sessions |-> V[s].minutes]

\* What a day's row says of a table of calls.
DayCounts(V, row, d) ==
    /\ IsFiniteSet(CountedOn(V, d))
    /\ row.calls = Cardinality(CountedOn(V, d))
    /\ row.minutes = SumFunctionOnSet(MinutesIn(V), CountedOn(V, d))

VoiceTyped ==
    /\ voice \in [Sessions -> VoiceRow]
    /\ spoken \in [Money!Days -> [calls : Nat, minutes : Nat]]
    /\ started \subseteq Sessions /\ byStart \subseteq Sessions

\* A call that was welcome is counted, an open one has no minutes yet, and those
\* that started are within the day's cap.
VoiceInv ==
    /\ VoiceTyped
    /\ \A s \in started \cup byStart : voice[s].status \in {"open", "ended"}
    /\ \A s \in Sessions : voice[s].status = "open" => voice[s].minutes = 0
    /\ \A d \in Money!Days : DayCounts(voice, spoken[d], d)
    /\ CallCap > 0 =>
           \A d \in Money!Days : Cardinality(CountedOn(voice, d) \cap byStart) <= CallCap

\* Lengths can be added.
LEMMA MinutesAdd ==
    ASSUME NEW V \in [Sessions -> VoiceRow], NEW S \in SUBSET Sessions, IsFiniteSet(S)
    PROVE  Summable(MinutesIn(V), S) /\ \A s \in S : MinutesIn(V)[s] = V[s].minutes
<1>1. \A s \in S : MinutesIn(V)[s] = V[s].minutes /\ V[s].minutes \in Nat
  BY DEF MinutesIn, VoiceRow
<1> QED BY <1>1 DEF Summable

\* A call that no day counted is counted on its day, with its minutes.
LEMMA CallIsCounted ==
    ASSUME NEW V \in [Sessions -> VoiceRow], NEW W \in [Sessions -> VoiceRow], NEW s \in Sessions,
           \A x \in Sessions : x # s => W[x] = V[x],
           V[s].status \notin {"open", "ended"}, W[s].status \in {"open", "ended"},
           NEW d, NEW row, DayCounts(V, row, d), row.calls \in Nat, row.minutes \in Nat
    PROVE  DayCounts(W, IF d = W[s].day
                        THEN [calls |-> row.calls + 1, minutes |-> row.minutes + W[s].minutes]
                        ELSE row, d)
<1> DEFINE S == CountedOn(V, d)
<1>1. S \in SUBSET Sessions /\ IsFiniteSet(S) /\ s \notin S
  BY DEF CountedOn, DayCounts
<1>2. CountedOn(W, d) = IF d = W[s].day THEN S \cup {s} ELSE S
  BY DEF CountedOn
<1>3. \A x \in S : MinutesIn(V)[x] = MinutesIn(W)[x]
  BY <1>1 DEF MinutesIn
<1>4. Summable(MinutesIn(V), S) /\ Summable(MinutesIn(W), S)
  BY <1>1, MinutesAdd
<1>5. SumFunctionOnSet(MinutesIn(V), S) = SumFunctionOnSet(MinutesIn(W), S)
  BY <1>3, <1>4, SameSum
<1>6. row.calls = Cardinality(S) /\ row.minutes = SumFunctionOnSet(MinutesIn(W), S)
  BY <1>5 DEF DayCounts
<1>7. MinutesIn(W)[s] = W[s].minutes /\ W[s].minutes \in Nat
  BY DEF MinutesIn, VoiceRow
<1> HIDE DEF S
<1>8. CASE d = W[s].day
  <2>1. IsFiniteSet(S \cup {s}) /\ Cardinality(S \cup {s}) = Cardinality(S) + 1
    BY <1>1, FS_AddElement
  <2>2. SumFunctionOnSet(MinutesIn(W), S \cup {s})
          = SumFunctionOnSet(MinutesIn(W), S) + MinutesIn(W)[s]
    <3>1. MinutesIn(W)[s] \in Int
      BY <1>7
    <3> QED BY <1>1, <1>4, <3>1, SumAdds
  <2> QED BY <1>2, <1>6, <1>7, <1>8, <2>1, <2>2 DEF DayCounts
<1>9. CASE d # W[s].day
  BY <1>1, <1>2, <1>6, <1>9 DEF DayCounts
<1> QED BY <1>8, <1>9

\* An open call ends: its minutes are added to its day.
LEMMA CallHasEnded ==
    ASSUME NEW V \in [Sessions -> VoiceRow], NEW W \in [Sessions -> VoiceRow], NEW s \in Sessions,
           \A x \in Sessions : x # s => W[x] = V[x],
           V[s].status = "open", V[s].minutes = 0, W[s].status = "ended", W[s].day = V[s].day,
           NEW d, NEW row, DayCounts(V, row, d), row.calls \in Nat, row.minutes \in Nat
    PROVE  /\ CountedOn(W, d) = CountedOn(V, d)
           /\ DayCounts(W, IF d = V[s].day
                           THEN [calls |-> row.calls, minutes |-> row.minutes + W[s].minutes]
                           ELSE row, d)
<1> DEFINE S == CountedOn(V, d)
<1>1. S \in SUBSET Sessions /\ IsFiniteSet(S) /\ (s \in S <=> d = V[s].day)
  BY DEF CountedOn, DayCounts
<1>2. CountedOn(W, d) = S
  BY DEF CountedOn
<1>3. \A x \in S \ {s} : MinutesIn(V)[x] = MinutesIn(W)[x]
  BY <1>1 DEF MinutesIn
<1>4. Summable(MinutesIn(V), S) /\ Summable(MinutesIn(W), S)
  BY <1>1, MinutesAdd
<1>5. row.calls = Cardinality(S) /\ row.minutes = SumFunctionOnSet(MinutesIn(V), S)
  BY DEF DayCounts
<1>6. /\ MinutesIn(W)[s] = W[s].minutes /\ MinutesIn(V)[s] = 0 /\ W[s].minutes \in Nat
  BY DEF MinutesIn, VoiceRow
<1>7. IsFiniteSet(S \ {s}) /\ Summable(MinutesIn(V), S \ {s}) /\ Summable(MinutesIn(W), S \ {s})
  <2>1. IsFiniteSet(S \ {s})
    BY <1>1, FS_RemoveElement
  <2> HIDE DEF S
  <2> QED BY <1>4, <2>1 DEF Summable
<1> HIDE DEF S
<1>8. CASE d = V[s].day
  <2>1. SumFunctionOnSet(MinutesIn(V), S) = MinutesIn(V)[s] + SumFunctionOnSet(MinutesIn(V), S \ {s})
    BY <1>1, <1>4, <1>8, SumTakesAny
  <2>2. SumFunctionOnSet(MinutesIn(W), S) = MinutesIn(W)[s] + SumFunctionOnSet(MinutesIn(W), S \ {s})
    BY <1>1, <1>4, <1>8, SumTakesAny
  <2>3. SumFunctionOnSet(MinutesIn(V), S \ {s}) = SumFunctionOnSet(MinutesIn(W), S \ {s})
    BY <1>3, <1>7, SameSum
  <2>4. SumFunctionOnSet(MinutesIn(V), S \ {s}) \in Int
    BY <1>7, SumTakesOne
  <2>5. SumFunctionOnSet(MinutesIn(W), S) = row.minutes + W[s].minutes
    BY <1>5, <1>6, <2>1, <2>2, <2>3, <2>4
  <2> QED BY <1>1, <1>2, <1>5, <1>8, <2>5 DEF DayCounts, S
<1>9. CASE d # V[s].day
  <2>1. \A x \in S : MinutesIn(V)[x] = MinutesIn(W)[x]
    BY <1>1, <1>3, <1>9
  <2>2. SumFunctionOnSet(MinutesIn(V), S) = SumFunctionOnSet(MinutesIn(W), S)
    BY <1>4, <2>1, SameSum
  <2> QED BY <1>1, <1>2, <1>5, <1>9, <2>2 DEF DayCounts, S
<1> QED BY <1>8, <1>9

\* A call that no day counts, before and after, changes no day.
LEMMA CallStaysOut ==
    ASSUME NEW V \in [Sessions -> VoiceRow], NEW W \in [Sessions -> VoiceRow], NEW s \in Sessions,
           \A x \in Sessions : x # s => W[x] = V[x],
           V[s].status \notin {"open", "ended"}, W[s].status \notin {"open", "ended"},
           NEW d, NEW row, DayCounts(V, row, d)
    PROVE  CountedOn(W, d) = CountedOn(V, d) /\ DayCounts(W, row, d)
<1>1. CountedOn(W, d) = CountedOn(V, d) /\ s \notin CountedOn(V, d)
  BY DEF CountedOn
<1>2. CountedOn(V, d) \in SUBSET Sessions /\ IsFiniteSet(CountedOn(V, d))
  BY DEF CountedOn, DayCounts
<1>3. \A x \in CountedOn(V, d) : MinutesIn(V)[x] = MinutesIn(W)[x]
  BY <1>1, <1>2 DEF MinutesIn
<1>4. SumFunctionOnSet(MinutesIn(V), CountedOn(V, d)) = SumFunctionOnSet(MinutesIn(W), CountedOn(V, d))
  BY <1>2, <1>3, MinutesAdd, SameSum
<1> QED BY <1>1, <1>4 DEF DayCounts

\* A day's row is a pair of numbers.
LEMMA SpokenRow ==
    ASSUME VoiceInv, NEW d \in Money!Days
    PROVE  /\ spoken[d].calls \in Nat /\ spoken[d].minutes \in Nat
           /\ spoken[d] = [calls |-> spoken[d].calls, minutes |-> spoken[d].minutes]
           /\ DayCounts(voice, spoken[d], d) /\ IsFiniteSet(CountedOn(voice, d))
  BY DEF VoiceInv, VoiceTyped, DayCounts

\* A call that was not counted comes onto the books, started or only ended; one
\* that starts does so below the caps.
LEMMA VoiceCounts ==
    ASSUME VoiceInv, NEW s \in Sessions, NEW d \in Money!Days, NEW v \in VoiceRow,
           voice[s].status \notin {"open", "ended"}, v.status \in {"open", "ended"}, v.day = d,
           v.status = "open" => v.minutes = 0,
           voice' = [voice EXCEPT ![s] = v], Money!Voice!Count(d, 1, v.minutes),
           started' \in {started, started \cup {s}},
           \/ byStart' = byStart
           \/ byStart' = byStart \cup {s} /\ (CallCap > 0 => spoken[d].calls < CallCap),
           CallCap \in Nat
    PROVE  VoiceInv'
<1>1. /\ voice \in [Sessions -> VoiceRow] /\ voice' \in [Sessions -> VoiceRow] /\ voice'[s] = v
      /\ \A x \in Sessions : x # s => voice'[x] = voice[x]
  BY DEF VoiceInv, VoiceTyped
<1>2. spoken' = [spoken EXCEPT ![d] = [calls |-> @.calls + 1, minutes |-> @.minutes + v.minutes]]
  BY DEF Money!Voice!Count
<1>3. v.minutes \in Nat
  BY DEF VoiceRow
<1>4. spoken' \in [Money!Days -> [calls : Nat, minutes : Nat]]
  <2>1. [calls |-> spoken[d].calls + 1, minutes |-> spoken[d].minutes + v.minutes]
          \in [calls : Nat, minutes : Nat]
    <3>1. spoken[d].calls \in Nat /\ spoken[d].minutes \in Nat
      BY SpokenRow
    <3> QED BY <1>3, <3>1
  <2> QED BY <1>2, <2>1 DEF VoiceInv, VoiceTyped
<1>5. ASSUME NEW e \in Money!Days PROVE DayCounts(voice', spoken'[e], e)
  <2>1. spoken'[e] = IF e = d THEN [calls |-> spoken[e].calls + 1,
                                    minutes |-> spoken[e].minutes + v.minutes] ELSE spoken[e]
    BY <1>2 DEF VoiceInv, VoiceTyped
  <2>2. /\ spoken[e].calls \in Nat /\ spoken[e].minutes \in Nat
        /\ DayCounts(voice, spoken[e], e)
    BY SpokenRow
  <2>3. DayCounts(voice', IF e = voice'[s].day
                          THEN [calls |-> spoken[e].calls + 1,
                                minutes |-> spoken[e].minutes + voice'[s].minutes]
                          ELSE spoken[e], e)
    BY <1>1, <2>2, CallIsCounted
  <2> QED BY <1>1, <2>1, <2>3
<1>6. ASSUME NEW e \in Money!Days, CallCap > 0
      PROVE  Cardinality(CountedOn(voice', e) \cap byStart') <= CallCap
  <2> DEFINE A == CountedOn(voice, e) \cap byStart
             B == CountedOn(voice', e) \cap byStart'
  <2>1. IsFiniteSet(A) /\ Cardinality(A) <= Cardinality(CountedOn(voice, e))
    <3>1. A \in SUBSET CountedOn(voice, e)
      OBVIOUS
    <3> HIDE DEF A
    <3> QED BY <3>1, SpokenRow, FS_Subset
  <2>2. Cardinality(A) <= CallCap /\ Cardinality(A) \in Nat
    BY <1>6, <2>1, FS_CardinalityType DEF VoiceInv
  <2>3. s \notin byStart /\ byStart \subseteq Sessions
    BY DEF VoiceInv, VoiceTyped
  <2>4. CountedOn(voice', e) = IF e = d THEN CountedOn(voice, e) \cup {s} ELSE CountedOn(voice, e)
    BY <1>1 DEF CountedOn
  <2>5. CASE byStart' = byStart
    <3>1. B = A
      BY <2>3, <2>4, <2>5
    <3> QED BY <2>2, <3>1
  <2>6. CASE byStart' = byStart \cup {s} /\ spoken[d].calls < CallCap
    <3>1. CASE e = d
      <4>1. B = A \cup {s}
        BY <2>4, <2>6, <3>1
      <4>2. Cardinality(A) < CallCap
        <5>1. /\ Cardinality(CountedOn(voice, e)) \in Nat
              /\ spoken[e].calls = Cardinality(CountedOn(voice, e))
          BY SpokenRow, FS_CardinalityType DEF DayCounts
        <5> HIDE DEF A
        <5> QED BY <1>6, <2>1, <2>2, <2>6, <3>1, <5>1
      <4>3. Cardinality(A \cup {s}) \in {Cardinality(A), Cardinality(A) + 1}
        <5> HIDE DEF A
        <5> QED BY <2>1, FS_AddElement
      <4>4. Cardinality(B) <= CallCap
        <5> HIDE DEF A, B
        <5> QED BY <2>2, <4>1, <4>2, <4>3
      <4> QED BY <4>4
    <3>2. CASE e # d
      <4>1. s \notin CountedOn(voice, e)
        BY DEF CountedOn
      <4>2. B = A
        BY <2>4, <2>6, <3>2, <4>1
      <4> QED BY <2>2, <4>2
    <3> QED BY <3>1, <3>2
  <2> QED BY <1>6, <2>5, <2>6
<1>7. VoiceTyped'
  BY <1>1, <1>4 DEF VoiceTyped, VoiceInv
<1>8. /\ \A x \in started' \cup byStart' : voice'[x].status \in {"open", "ended"}
      /\ \A x \in Sessions : voice'[x].status = "open" => voice'[x].minutes = 0
  BY <1>1 DEF VoiceInv, VoiceTyped
<1> QED BY <1>5, <1>6, <1>7, <1>8 DEF VoiceInv

\* A start of a call that is on the books, or a step that writes none of it.
LEMMA VoiceStays ==
    ASSUME VoiceInv, voice' = voice, spoken' = spoken, byStart' = byStart,
           \/ started' = started
           \/ \E s \in Sessions : /\ voice[s].status \in {"open", "ended"}
                                  /\ started' = started \cup {s}
    PROVE  VoiceInv'
<1>1. started' \subseteq Sessions /\ \A s \in started' : voice[s].status \in {"open", "ended"}
  BY DEF VoiceInv, VoiceTyped
<1> QED BY <1>1 DEF VoiceInv, VoiceTyped

\* A call is refused, and is on no day's books.
LEMMA VoiceRefuses ==
    ASSUME VoiceInv, NEW s \in Sessions, NEW v \in VoiceRow, voice[s].status = "none",
           v.status = "refused", voice' = [voice EXCEPT ![s] = v],
           UNCHANGED <<spoken, started, byStart>>
    PROVE  VoiceInv'
<1>1. /\ voice \in [Sessions -> VoiceRow] /\ voice' \in [Sessions -> VoiceRow] /\ voice'[s] = v
      /\ \A x \in Sessions : x # s => voice'[x] = voice[x]
  BY DEF VoiceInv, VoiceTyped
<1>2. ASSUME NEW d \in Money!Days
      PROVE  CountedOn(voice', d) = CountedOn(voice, d) /\ DayCounts(voice', spoken'[d], d)
  <2>1. DayCounts(voice, spoken[d], d)
    BY SpokenRow
  <2>2. PICK V, W, row : V = voice /\ W = voice' /\ row = spoken[d]
    OBVIOUS
  <2>3. /\ V \in [Sessions -> VoiceRow] /\ W \in [Sessions -> VoiceRow]
        /\ \A x \in Sessions : x # s => W[x] = V[x]
    BY <1>1, <2>2
  <2>4. V[s].status \notin {"open", "ended"} /\ W[s].status \notin {"open", "ended"}
    BY <1>1, <2>2
  <2>5. DayCounts(V, row, d)
    BY <2>1, <2>2
  <2>6. CountedOn(W, d) = CountedOn(V, d) /\ DayCounts(W, row, d)
    BY <2>3, <2>4, <2>5, CallStaysOut
  <2> QED BY <2>2, <2>6
<1>3. VoiceTyped'
  BY <1>1 DEF VoiceInv, VoiceTyped
<1>4. /\ \A x \in started' \cup byStart' : voice'[x].status \in {"open", "ended"}
      /\ \A x \in Sessions : voice'[x].status = "open" => voice'[x].minutes = 0
  BY <1>1 DEF VoiceInv, VoiceTyped
<1>5. CallCap > 0 => \A d \in Money!Days : Cardinality(CountedOn(voice', d) \cap byStart') <= CallCap
  BY <1>2 DEF VoiceInv
<1> QED BY <1>2, <1>3, <1>4, <1>5 DEF VoiceInv

\* An open call ends, and its minutes are added to the day that counts it.
LEMMA VoiceEnds ==
    ASSUME VoiceInv, NEW s \in Sessions, NEW m \in Nat, voice[s].status = "open",
           voice' = [voice EXCEPT ![s].status = "ended", ![s].minutes = m],
           Money!Voice!Count(voice[s].day, 0, m), UNCHANGED <<started, byStart>>
    PROVE  VoiceInv'
<1> DEFINE v == [voice[s] EXCEPT !.status = "ended", !.minutes = m]
           day_ == voice[s].day
<1>1. /\ voice \in [Sessions -> VoiceRow] /\ voice[s] \in VoiceRow /\ day_ \in Money!Days
      /\ voice[s].minutes = 0
  BY DEF VoiceInv, VoiceTyped, VoiceRow
<1>2. v \in VoiceRow /\ v.status = "ended" /\ v.minutes = m /\ v.day = day_
  BY <1>1 DEF VoiceRow
<1>3. voice' = [voice EXCEPT ![s] = v]
  OBVIOUS
<1> HIDE DEF v
<1>4. /\ voice' \in [Sessions -> VoiceRow] /\ voice'[s] = v
      /\ \A x \in Sessions : x # s => voice'[x] = voice[x]
  BY <1>1, <1>2, <1>3
<1>5. spoken' = [spoken EXCEPT ![day_] = [calls |-> @.calls + 0, minutes |-> @.minutes + m]]
  BY DEF Money!Voice!Count
<1>6. spoken' \in [Money!Days -> [calls : Nat, minutes : Nat]]
  <2>1. spoken[day_].calls \in Nat /\ spoken[day_].minutes \in Nat
    BY <1>1, SpokenRow
  <2>2. [calls |-> spoken[day_].calls + 0, minutes |-> spoken[day_].minutes + m]
          \in [calls : Nat, minutes : Nat]
    BY <2>1
  <2> QED BY <1>5, <2>2 DEF VoiceInv, VoiceTyped
<1>7. ASSUME NEW d \in Money!Days
      PROVE  CountedOn(voice', d) = CountedOn(voice, d) /\ DayCounts(voice', spoken'[d], d)
  <2>1. /\ spoken[d].calls \in Nat /\ spoken[d].minutes \in Nat
        /\ DayCounts(voice, spoken[d], d)
    BY SpokenRow
  <2>2. spoken'[d] = IF d = day_ THEN [calls |-> spoken[d].calls, minutes |-> spoken[d].minutes + m]
                     ELSE spoken[d]
    BY <1>5, <2>1 DEF VoiceInv, VoiceTyped
  <2>3. /\ CountedOn(voice', d) = CountedOn(voice, d)
        /\ DayCounts(voice', IF d = voice[s].day
                             THEN [calls |-> spoken[d].calls,
                                   minutes |-> spoken[d].minutes + voice'[s].minutes]
                             ELSE spoken[d], d)
    <3>1. PICK V, W, row : V = voice /\ W = voice' /\ row = spoken[d]
      OBVIOUS
    <3>2. /\ V \in [Sessions -> VoiceRow] /\ W \in [Sessions -> VoiceRow]
          /\ \A x \in Sessions : x # s => W[x] = V[x]
          /\ V[s].status = "open" /\ V[s].minutes = 0
          /\ W[s].status = "ended" /\ W[s].day = V[s].day
      BY <1>1, <1>2, <1>4, <3>1
    <3>3. DayCounts(V, row, d) /\ row.calls \in Nat /\ row.minutes \in Nat
      BY <2>1, <3>1
    <3>4. /\ CountedOn(W, d) = CountedOn(V, d)
          /\ DayCounts(W, IF d = V[s].day
                           THEN [calls |-> row.calls, minutes |-> row.minutes + W[s].minutes]
                           ELSE row, d)
      BY <3>2, <3>3, CallHasEnded
    <3> QED BY <3>1, <3>4
  <2> QED BY <1>2, <1>4, <2>2, <2>3
<1>8. VoiceTyped'
  BY <1>4, <1>6 DEF VoiceInv, VoiceTyped
<1>9. /\ \A x \in started' \cup byStart' : voice'[x].status \in {"open", "ended"}
      /\ \A x \in Sessions : voice'[x].status = "open" => voice'[x].minutes = 0
  BY <1>2, <1>4 DEF VoiceInv, VoiceTyped
<1>10. CallCap > 0 => \A d \in Money!Days : Cardinality(CountedOn(voice', d) \cap byStart') <= CallCap
  BY <1>7 DEF VoiceInv
<1> QED BY <1>7, <1>8, <1>9, <1>10 DEF VoiceInv

\* Every webhook keeps the voice calls' books.
LEMMA VoiceStep ==
    ASSUME Money!Voice!VoiceAssumption, VoiceInv, day \in Money!Days, Money!Voice!VoiceNext(day)
    PROVE  VoiceInv'
<1>1. PICK s \in Sessions : Money!Voice!SessionStart(s, day) \/ Money!Voice!SessionEnd(s, day)
  BY DEF Money!Voice!VoiceNext
<1>2. /\ voice \in [Sessions -> VoiceRow] /\ voice[s] \in VoiceRow /\ CallCap \in Nat
      /\ voice[s].status \in {"none", "open", "ended", "refused"} /\ Lengths \subseteq Nat
  BY DEF VoiceInv, VoiceTyped, VoiceRow, Money!Voice!VoiceAssumption
<1>3. ASSUME NEW status \in {"open", "ended", "refused"}, NEW m \in Nat
      PROVE  [day |-> day, status |-> status, minutes |-> m] \in VoiceRow
  BY DEF VoiceRow
<1>4. CASE Money!Voice!Admitted(s, day)
  <2>1. started' \in {started, started \cup {s}}
    BY <1>4 DEF Money!Voice!Admitted, Money!Voice!Answer
  <2>2. CASE voice[s].status \in {"open", "ended"}
    BY <1>4, <2>1, <2>2, VoiceStays DEF Money!Voice!Admitted
  <2>3. CASE voice[s].status \notin {"open", "ended"}
    <3> DEFINE v == [day |-> day, status |-> "open", minutes |-> 0]
    <3>1. /\ voice' = [voice EXCEPT ![s] = v] /\ Money!Voice!Count(day, 1, 0)
          /\ byStart' = byStart \cup {s} /\ ~Money!Voice!Reached(day)
      BY <1>4, <2>3 DEF Money!Voice!Admitted
    <3>2. v \in VoiceRow /\ v.status = "open" /\ v.day = day /\ v.minutes = 0
      BY <1>3
    <3>3. CallCap > 0 => spoken[day].calls < CallCap
      <4>1. spoken[day].calls \in Nat
        BY SpokenRow
      <4> QED BY <1>2, <3>1, <4>1 DEF Money!Voice!Reached
    <3> HIDE DEF v
    <3> QED BY <1>2, <2>1, <2>3, <3>1, <3>2, <3>3, VoiceCounts
  <2> QED BY <2>2, <2>3
<1>5. CASE Money!Voice!Refused(s, day)
  <2>1. CASE voice[s].status = "none"
    <3> DEFINE v == [day |-> day, status |-> "refused", minutes |-> 0]
    <3>1. voice' = [voice EXCEPT ![s] = v] /\ UNCHANGED <<spoken, started, byStart>>
      BY <1>5, <2>1 DEF Money!Voice!Refused, Money!Voice!Known
    <3>2. v \in VoiceRow /\ v.status = "refused"
      BY <1>3
    <3> HIDE DEF v
    <3> QED BY <2>1, <3>1, <3>2, VoiceRefuses
  <2>2. CASE voice[s].status # "none"
    BY <1>5, <2>2, VoiceStays DEF Money!Voice!Refused, Money!Voice!Known
  <2> QED BY <2>1, <2>2
<1>6. CASE Money!Voice!Undecided
  BY <1>6, VoiceStays DEF Money!Voice!Undecided
<1>7. CASE Money!Voice!SessionEnd(s, day)
  <2>1. PICK m \in Money!Voice!Minutes(s) :
             \/ /\ voice[s].status = "open"
                /\ voice' = [voice EXCEPT ![s].status = "ended", ![s].minutes = m]
                /\ Money!Voice!Count(voice[s].day, 0, m)
             \/ /\ ~Money!Voice!Known(s)
                /\ voice' = [voice EXCEPT ![s] = [day |-> day, status |-> "ended", minutes |-> m]]
                /\ Money!Voice!Count(day, 1, m)
    BY <1>7 DEF Money!Voice!SessionEnd
  <2>2. m \in Nat /\ UNCHANGED <<started, byStart>>
    BY <1>2, <1>7, <2>1 DEF Money!Voice!SessionEnd, Money!Voice!Minutes
  <2>3. CASE voice[s].status = "open"
    <3>1. /\ voice' = [voice EXCEPT ![s].status = "ended", ![s].minutes = m]
          /\ Money!Voice!Count(voice[s].day, 0, m)
      BY <2>1, <2>3 DEF Money!Voice!Known
    <3> QED BY <2>2, <2>3, <3>1, VoiceEnds
  <2>4. CASE voice[s].status # "open"
    <3> DEFINE v == [day |-> day, status |-> "ended", minutes |-> m]
    <3>1. voice' = [voice EXCEPT ![s] = v] /\ Money!Voice!Count(day, 1, m) /\ voice[s].status = "none"
      BY <2>1, <2>4 DEF Money!Voice!Known
    <3>2. v \in VoiceRow /\ v.status = "ended" /\ v.day = day /\ v.minutes = m
      BY <1>3, <2>2
    <3> HIDE DEF v
    <3> QED BY <1>2, <2>2, <3>1, <3>2, VoiceCounts
  <2> QED BY <2>3, <2>4
<1> QED BY <1>1, <1>4, <1>5, <1>6, <1>7 DEF Money!Voice!SessionStart

\* The ledger's invariants hold at the start and are kept.
LEMMA LedgerHolds ==
    ASSUME Money!BudgetAssumption PROVE Money!Spec => [](LedgerInv /\ AlertInv)
<1>1. Money!Init => LedgerInv /\ AlertInv
  <2>1. ASSUME Money!Init PROVE AlertInv
    <3>1. mem = [day |-> 1, used |-> 0, err |-> FALSE] /\ alerts = <<>> /\ 1 \in Money!Days
      BY <2>1 DEF Money!Init, Money!Days, Money!BudgetAssumption
    <3> QED BY <3>1 DEF AlertInv, Money!AlertsOnce
  <2> QED BY <2>1, LedgerStarts
<1>2. LedgerInv /\ AlertInv /\ [Money!Next]_(Money!vars) => LedgerInv' /\ AlertInv'
  BY LedgerStep, AlertStep
<1> QED BY <1>1, <1>2, PTL DEF Money!Spec

\* What the provider bills is on the books: a call is billed once at most, and a
\* settled one is charged what was billed, on the day of its admission, whatever
\* is retried, lost, refused by the store or reconciled (SettleBudgetCall).
THEOREM BooksMatch ==
    ASSUME Money!BudgetAssumption
    PROVE  Money!Spec => [](Money!BooksMatchProvider /\ BooksMatchProvider)
<1>1. LedgerInv => Money!BooksMatchProvider
  BY LedgerMatches
<1>2. Money!BooksMatchProvider => BooksMatchProvider
  BY DEF BooksMatchProvider
<1> QED BY <1>1, <1>2, LedgerHolds, PTL

\* A day's spend, of all and of each pipeline, passes a cap by the answer of its
\* last call alone, and with a reservation not at all as long as answers keep to
\* the worst case: a call is admitted alone, and what it was checked against
\* does not grow before it is settled (BeginBudgetCall).
THEOREM OvershootsByOneAnswer ==
    ASSUME Money!BudgetAssumption
    PROVE  Money!Spec => [](Money!OvershootIsOneAnswer /\ OvershootIsOneAnswer)
<1>1. LedgerInv => Money!OvershootIsOneAnswer
  BY LedgerOvershoots
<1>2. Money!OvershootIsOneAnswer => OvershootIsOneAnswer
  BY DEF OvershootIsOneAnswer
<1> QED BY <1>1, <1>2, LedgerHolds, PTL

\* A threshold alerts once a day, across restarts and reloads, unless the store
\* could not write its mark (crossLocked).
THEOREM AlertsComeOnce ==
    ASSUME Money!BudgetAssumption
    PROVE  Money!Spec => [](Money!AlertsOnce /\ AlertsOnce)
<1>1. AlertInv => Money!AlertsOnce
  BY DEF AlertInv
<1>2. Money!AlertsOnce => AlertsOnce
  BY DEF AlertsOnce
<1> QED BY <1>1, <1>2, LedgerHolds, PTL

\* Every step of the model calls and of the voice calls keeps both books.
LEMMA SpendStep ==
    ASSUME Money!BudgetAssumption, Money!Voice!VoiceAssumption,
           LedgerInv, AlertInv, VoiceInv, [Money!SpendNext]_(Money!spendVars)
    PROVE  LedgerInv' /\ AlertInv' /\ VoiceInv'
<1>1. CASE [Money!Next]_(Money!vars) /\ UNCHANGED Money!voiceVars
  <2>1. VoiceInv'
    BY <1>1, VoiceStays DEF Money!voiceVars
  <2> QED BY <1>1, <2>1, LedgerStep, AlertStep
<1>2. CASE Money!Voice!VoiceNext(day) /\ UNCHANGED Money!budgetOnly
  <2>1. /\ UNCHANGED <<day, engine, admitted, callStage, attempt, completion>>
        /\ UNCHANGED <<billed, totals, paid, mem, marks, alerts>>
    BY <1>2 DEF Money!budgetOnly, Money!gateVars, Money!trackerVars, Money!storeVars
  <2>2. /\ day \in Money!Days /\ engine \in BOOLEAN /\ attempt \in Nat
        /\ admitted \in Spenders \cup {NoSpender} /\ callStage \in {"admit", "calling", "answered"}
        /\ admitted # NoSpender => engine
        /\ callStage # "admit" => admitted # NoSpender
    BY DEF LedgerInv, BooksTyped, CallIsOpen
  <2>3. LedgerInv'
    BY <2>1, <2>2, LedgerQuiet
  <2>4. AlertInv'
    BY <2>1 DEF AlertInv, Money!AlertsOnce
  <2>5. VoiceInv'
    BY <1>2, <2>2, VoiceStep
  <2> QED BY <2>3, <2>4, <2>5
<1>3. CASE UNCHANGED Money!spendVars
  BY <1>1, <1>3 DEF Money!spendVars
<1> QED BY <1>1, <1>2, <1>3 DEF Money!SpendNext

\* On the ledger that model calls and voice calls share, each keeps its books:
\* a voice call is counted once and its minutes once, on one day, however its
\* webhooks arrive; a call whose start was answered is counted, and no more
\* calls start on a day than the cap allows (AdmitVoiceCall, EndVoiceCall).
THEOREM SpendingIsCounted ==
    ASSUME Money!BudgetAssumption, Money!Voice!VoiceAssumption
    PROVE  Money!SpendSpec => [](/\ Money!VoiceCountedOnce /\ Money!WelcomeIsCounted
                                 /\ Money!BooksMatchProvider /\ Money!OvershootIsOneAnswer
                                 /\ Money!AlertsOnce /\ WelcomeIsCounted)
<1>1. ASSUME Money!SpendInit PROVE LedgerInv /\ AlertInv /\ VoiceInv
  <2>1. LedgerInv /\ Money!Init /\ 1 \in Money!Days
    BY <1>1, LedgerStarts DEF Money!SpendInit, Money!BudgetAssumption, Money!Days
  <2>2. AlertInv
    <3>1. mem = [day |-> 1, used |-> 0, err |-> FALSE] /\ alerts = <<>>
      BY <2>1 DEF Money!Init
    <3> QED BY <2>1, <3>1 DEF AlertInv, Money!AlertsOnce
  <2>3. /\ voice = [s \in Sessions |-> [day |-> 1, status |-> "none", minutes |-> 0]]
        /\ spoken = [d \in Money!Days |-> [calls |-> 0, minutes |-> 0]]
        /\ started = {} /\ byStart = {} /\ CallCap \in Nat
    BY <1>1 DEF Money!SpendInit, Money!Voice!VoiceInit, Money!Voice!VoiceAssumption
  <2>4. VoiceTyped
    BY <2>1, <2>3 DEF VoiceTyped, VoiceRow
  <2>5. ASSUME NEW d \in Money!Days
        PROVE  CountedOn(voice, d) = {} /\ DayCounts(voice, spoken[d], d)
    <3>1. CountedOn(voice, d) = {}
      BY <2>3 DEF CountedOn
    <3>2. SumFunctionOnSet(MinutesIn(voice), {}) = 0 /\ IsFiniteSet({}) /\ Cardinality({}) = 0
      BY FS_EmptySet, SumTakesOne DEF Summable
    <3> QED BY <2>3, <3>1, <3>2 DEF DayCounts
  <2>6. \A d \in Money!Days : Cardinality(CountedOn(voice, d) \cap byStart) = 0
    BY <2>3, FS_EmptySet
  <2> QED BY <2>1, <2>2, <2>3, <2>4, <2>5, <2>6 DEF VoiceInv
<1>2. ASSUME VoiceInv, Money!Voice!VoiceAssumption PROVE Money!VoiceCountedOnce /\ Money!WelcomeIsCounted
  <2>1. ASSUME NEW d \in Money!Days
        PROVE  /\ Money!Voice!Counted(d) = CountedOn(voice, d)
               /\ spoken[d].calls = Money!Voice!Cardinality(CountedOn(voice, d))
               /\ spoken[d].minutes = Money!Voice!SumFunctionOnSet([s \in Sessions |-> voice[s].minutes],
                                                                  CountedOn(voice, d))
    <3>1. /\ Money!Voice!Cardinality(CountedOn(voice, d)) = Cardinality(CountedOn(voice, d))
      BY DEF Money!Voice!Cardinality, Cardinality
    <3>2. DayCounts(voice, spoken[d], d)
      BY <1>2, SpokenRow
    <3>3. Money!Voice!Counted(d) = CountedOn(voice, d)
      BY DEF Money!Voice!Counted, CountedOn
    <3> QED BY <3>1, <3>2, <3>3, LedgerSum DEF DayCounts, MinutesIn
  <2>2. Money!VoiceCountedOnce
    BY <2>1 DEF Money!VoiceCountedOnce, Money!Voice!VoiceCountedOnce
  <2>3. ASSUME NEW d \in Money!Days, CallCap > 0
        PROVE  Money!Voice!Cardinality(Money!Voice!Counted(d) \cap byStart) <= CallCap
    <3>1. Cardinality(CountedOn(voice, d) \cap byStart) <= CallCap
      BY <1>2, <2>3 DEF VoiceInv
    <3>2. \A S : Money!Voice!Cardinality(S) = Cardinality(S)
      BY DEF Money!Voice!Cardinality, Cardinality
    <3> QED BY <2>1, <3>1, <3>2
  <2>4. Money!WelcomeIsCounted
    BY <1>2, <2>3 DEF Money!WelcomeIsCounted, Money!Voice!WelcomeIsCounted, VoiceInv
  <2> QED BY <2>2, <2>4
<1>3. LedgerInv /\ AlertInv => Money!BooksMatchProvider /\ Money!OvershootIsOneAnswer /\ Money!AlertsOnce
  BY LedgerMatches, LedgerOvershoots DEF AlertInv
<1>4. LedgerInv /\ AlertInv /\ VoiceInv /\ [Money!SpendNext]_(Money!spendVars)
        => LedgerInv' /\ AlertInv' /\ VoiceInv'
  BY SpendStep
<1>5. Money!VoiceCountedOnce /\ Money!WelcomeIsCounted => WelcomeIsCounted
  BY DEF WelcomeIsCounted
<1> QED BY <1>1, <1>2, <1>3, <1>4, <1>5, PTL DEF Money!SpendSpec

-----------------------------------------------------------------------------
\* No risk is written with spaces around it; validate.go:826 compares it as it is.
RisksArePlain == \A s \in Settings : \A r \in s.rules : r.risk # "high, padded"

StandingPcs == {"allowed", "checked", "consumed"}
JudgedPcs == StandingPcs \cup {"asked"}

\* At most one rule, one that was accepted, and what its definition file held.
RuleSet(R) ==
    /\ R \subseteq Rules!Rule /\ Rules!AtMostOne(R) /\ Rules!RulesOk(R)
    /\ \A r \in R : Rules!AtMostOne(r.maxPerDay) /\ Rules!AtMostOne(r.maxCalls)
Pinning(R, p) ==
    /\ p \in Definitions \cup {NoDefinition}
    /\ (\E r \in R : r.definitionFile) => p \in Definitions

RulesInv ==
    /\ gate \in Settings /\ RuleSet(gate.rules) /\ Pinning(gate.rules, pinned)
    /\ \A x \in candidate : x.rules # {} /\ RuleSet(x.rules) /\ Pinning(x.rules, x.pinned)

\* A call keeps the rule it was judged by; one let through unasked satisfied it.
Judged(k) == k = [pc |-> k.pc, by |-> k.by, agent |-> k.agent, value |-> k.value, def |-> k.def,
                  policy |-> k.policy, amounts |-> k.amounts, under |-> k.under, pin |-> k.pin,
                  inForce |-> k.inForce]
JudgedBy(k, r) ==
    /\ k.under = {r} /\ RuleSet({r}) /\ Pinning({r}, k.pin)
    /\ k.amounts = Rules!CappedAmounts(r, k.value)
    /\ k.pc \in StandingPcs /\ k.by # "operator" =>
          /\ ~Rules!Mismatch(r, k.pin, k.value, k.def)
          /\ RisksArePlain => Rules!RiskOf(r) # "high"
RuledOK(k) ==
    /\ k.pc \in {"idle", "hashed", "over"} \cup JudgedPcs
    /\ k.pc \in {"hashed"} \cup JudgedPcs => k.value \in ArgValues
    /\ k.pc \in JudgedPcs => Judged(k) /\ \E r \in k.under : JudgedBy(k, r)
    /\ k.pc \in {"checked", "consumed"} => k.inForce = UNION {x.hash : x \in k.policy}

\* What stands of a table of calls, what a rule let through of it, what it adds,
\* and whether a human made room.
Stand(C) == {c \in ToolCalls : C[c].pc \in StandingPcs}
Mine(C, r) == {c \in Stand(C) : C[c].by # "operator" /\ C[c].under = {r}}
ArgIn(C) == [c \in ToolCalls |-> C[c].amounts.arg]
CallsIn(C) == [c \in ToolCalls |-> C[c].amounts.calls]
RoomLeft(k) ==
    IF k.pc = "over" THEN k.room
    ELSE k.pc \in StandingPcs /\ k.by = "operator" /\ \E n \in k.value.num : n < 0
Room(C) == \E c \in ToolCalls : RoomLeft(C[c])

CallsOK(C) == DOMAIN C = ToolCalls /\ IsFiniteSet(Stand(C)) /\ \A c \in ToolCalls : RuledOK(C[c])

\* Every rule's own calls are within its caps.
WithinCaps(C, r) ==
    /\ \A m \in r.maxPerDay : Room(C) \/ SumFunctionOnSet(ArgIn(C), Mine(C, r)) <= m
    /\ \A m \in r.maxCalls : SumFunctionOnSet(CallsIn(C), Mine(C, r)) <= m
CapsInv == \A r : RuleSet({r}) => WithinCaps(toolCalls, r)

\* A comparison not made yet: on the calls it saw, candidate and live rules agree,
\* if they are alike.
DueOK(x, C) ==
    /\ x.call \notin x.seen /\ x.seen \subseteq ToolCalls
    /\ \A o \in x.seen : C[o].pc \in StandingPcs \cup {"over"}
    /\ x.alike /\ ~x.uncounted /\ x.seen \subseteq Stand(C) =>
          Rules!Same(Rules!Evaluate(x.cand.rules, x.cand.pinned, x.value, x.def,
                                    SumFunctionOnSet(ArgIn(C), x.seen), Cardinality(x.seen)), x.live)
DueInv == \A x \in due : DueOK(x, toolCalls)

CallsInv == RulesInv /\ CallsOK(toolCalls) /\ CapsInv
-----------------------------------------------------------------------------
\* A set of rules is the one rule in it.
LEMMA OneRule ==
    ASSUME NEW R, RuleSet(R), R # {}
    PROVE  \E r : R = {r} /\ r \in Rules!Rule /\ RuleSet({r}) /\ r = CHOOSE x \in R : TRUE
<1>1. PICK r \in R : r = CHOOSE x \in R : TRUE
  OBVIOUS
<1>2. R = {r}
  BY DEF RuleSet, Rules!AtMostOne
<1> QED BY <1>1, <1>2 DEF RuleSet

\* Some condition on the argument fails ...
Fails(r, v) ==
    IF ~v.present THEN ~r.optional
    ELSE \/ \E e \in r.equals : v.spell # e.spell
         \/ v.spell \notin r.matches
         \/ Rules!Numeric(r) /\ v.num = {}
         \/ \E n \in v.num, m \in r.max : n > m
         \/ \E n \in v.num, m \in r.min : n < m
         \/ r.maxPerDay # {} /\ \E n \in v.num : n < 0

\* ... which is what the rule says.
LEMMA FailsIff ==
    ASSUME NEW r, NEW v
    PROVE  Rules!Failing(r, v) # {} <=> Fails(r, v)
BY DEF Rules!Failing, Fails

\* What the rule says of a call it lets through, or lets a grant answer.
LEMMA LetThrough ==
    ASSUME NEW r, NEW p, NEW v, NEW d, NEW t, NEW n, NEW answer, answer = Rules!Evaluate({r}, p, v, d, t, n)
    PROVE  /\ answer.decision \in {"deny", "ask", "allow"}
           /\ answer.decision = "allow" => ~r.requireApproval
           /\ answer.grantable => Rules!Grantable(r)
           /\ answer.decision = "allow" \/ answer.grantable =>
                 ~Rules!Mismatch(r, p, v, d) /\ ~Rules!Over(r, v, t, n)
<1>1. {r} # {} /\ (CHOOSE x \in {r} : TRUE) = r
  OBVIOUS
<1> DEFINE over == ~Rules!Mismatch(r, p, v, d) /\ Rules!Over(r, v, t, n)
           strict == Rules!Mismatch(r, p, v, d) \/ over
<1>2. answer = [decision  |-> IF strict /\ r.denyMismatch THEN "deny"
                            ELSE IF strict \/ r.requireApproval \/ Rules!Reviewed(r, v) THEN "ask"
                            ELSE "allow",
              why       |-> Rules!Why(r, p, v, d, over, Rules!Reviewed(r, v)),
              grantable |-> r.requireApproval /\ ~strict /\ Rules!Grantable(r)]
  BY <1>1, Zenon DEF Rules!Evaluate
<1>3. answer.decision = IF strict /\ r.denyMismatch THEN "deny"
                      ELSE IF strict \/ r.requireApproval \/ Rules!Reviewed(r, v) THEN "ask"
                      ELSE "allow"
  BY <1>2
<1>4. answer.grantable = (r.requireApproval /\ ~strict /\ Rules!Grantable(r))
  BY <1>2
<1> QED BY <1>3, <1>4

\* A rule that is not padded and was accepted lets no call of a high-risk tool
\* through.
LEMMA RiskIsAsked ==
    ASSUME NEW r, Rules!RuleOk(r), r.risk # "high, padded", ~r.requireApproval \/ Rules!Grantable(r)
    PROVE  Rules!RiskOf(r) # "high"
BY DEF Rules!RuleOk, Rules!HighRiskOk, Rules!RiskOf, Rules!Grantable

\* What a call adds: numbers, and no negative one if its rule let it through.
LEMMA AmountsRead ==
    ASSUME Rules!RulesAssumption, NEW r \in Rules!Rule, NEW v \in ArgValues, NEW a, a = Rules!CappedAmounts(r, v)
    PROVE  /\ a.arg \in Int /\ a.calls \in {0, 1} /\ (r.maxCalls # {} => a.calls = 1)
           /\ (~\E n \in v.num : n < 0) => a.arg >= 0
           /\ ~Fails(r, v) => a.arg >= 0
<1>1. v \in Rules!Value /\ Rules!AtMostOne(v.num) /\ (v.num # {} => v.present)
  BY DEF Rules!RulesAssumption
<1>2. v.num \subseteq Int
  BY <1>1 DEF Rules!Value
<1>3. a.arg = (IF r.maxPerDay # {} /\ v.num # {} THEN CHOOSE n \in v.num : TRUE ELSE 0)
      /\ a.calls = (IF r.maxCalls # {} THEN 1 ELSE 0)
  BY DEF Rules!CappedAmounts
<1>4. v.num # {} => (CHOOSE n \in v.num : TRUE) \in v.num
  OBVIOUS
<1> QED BY <1>1, <1>2, <1>3, <1>4 DEF Fails

\* Of a call that is not over a cap, the total with it is within the cap.
LEMMA NotOver ==
    ASSUME Rules!RulesAssumption, NEW r, RuleSet({r}), NEW v \in ArgValues, NEW t \in Int, NEW n \in Int,
           NEW a, a = Rules!CappedAmounts(r, v), ~Rules!Over(r, v, t, n)
    PROVE  /\ \A m \in r.maxPerDay : v.num # {} => t + a.arg <= m
           /\ \A m \in r.maxPerDay : v.num = {} => a.arg = 0
           /\ \A m \in r.maxCalls : n + a.calls <= m
<1>1. r \in Rules!Rule /\ v \in Rules!Value
  BY DEF RuleSet, Rules!RulesAssumption
<1>2. v.num \subseteq Int /\ r.maxPerDay \subseteq Int /\ r.maxCalls \subseteq Int
  BY <1>1 DEF Rules!Value, Rules!Rule
<1>3. a.arg = (IF r.maxPerDay # {} /\ v.num # {} THEN CHOOSE x \in v.num : TRUE ELSE 0)
      /\ a.calls = (IF r.maxCalls # {} THEN 1 ELSE 0)
  BY DEF Rules!CappedAmounts
<1>4. v.num # {} => (CHOOSE x \in v.num : TRUE) \in v.num
  OBVIOUS
<1> QED BY <1>2, <1>3, <1>4 DEF Rules!Over

-----------------------------------------------------------------------------
\* Rules that hash alike differ in where their pin is written only.
LEMMA AlikeRules ==
    ASSUME NEW r, NEW q, RuleSet({r}), RuleSet({q}), NEW p, NEW o,
           Rules!Policy({r}, p) = Rules!Policy({q}, o)
    PROVE  /\ r.requireApproval = q.requireApproval /\ r.denyMismatch = q.denyMismatch
           /\ r.equals = q.equals /\ r.matches = q.matches /\ r.optional = q.optional
           /\ r.min = q.min /\ r.max = q.max /\ r.reviewAbove = q.reviewAbove
           /\ r.maxPerDay = q.maxPerDay /\ r.maxCalls = q.maxCalls
           /\ Rules!Pin(r, p) = Rules!Pin(q, o)
<1> DEFINE F(x, h) == [x EXCEPT !.hash = h, !.definitionFile = FALSE]
<1>1. F(r, Rules!Pin(r, p)) = F(q, Rules!Pin(q, o))
  <2>1. Rules!Policy({r}, p) = {F(r, Rules!Pin(r, p))} /\ Rules!Policy({q}, o) = {F(q, Rules!Pin(q, o))}
    BY DEF Rules!Policy
  <2> HIDE DEF F
  <2> QED BY <2>1
<1>2. \A x, h : x \in Rules!Rule =>
         /\ F(x, h).requireApproval = x.requireApproval /\ F(x, h).denyMismatch = x.denyMismatch
         /\ F(x, h).equals = x.equals /\ F(x, h).matches = x.matches /\ F(x, h).optional = x.optional
         /\ F(x, h).min = x.min /\ F(x, h).max = x.max /\ F(x, h).reviewAbove = x.reviewAbove
         /\ F(x, h).maxPerDay = x.maxPerDay /\ F(x, h).maxCalls = x.maxCalls
         /\ F(x, h).hash = h
  BY DEF Rules!Rule
<1>3. r \in Rules!Rule /\ q \in Rules!Rule
  BY DEF RuleSet
<1> HIDE DEF F
<1> QED BY <1>1, <1>2, <1>3

\* They match the same definitions ...
LEMMA AlikePins ==
    ASSUME NoDefinition \notin Definitions,
           NEW r, NEW q, RuleSet({r}), RuleSet({q}), NEW p, NEW o, Pinning({r}, p), Pinning({q}, o),
           Rules!Pin(r, p) = Rules!Pin(q, o), NEW d
    PROVE  Rules!MatchToolDefinition(r, p, d) = Rules!MatchToolDefinition(q, o, d)
<1>1. \A x, y : RuleSet({x}) /\ Pinning({x}, y) =>
         (Rules!MatchToolDefinition(x, y, d) <=> (Rules!Pin(x, y) = {} \/ d \in Rules!Pin(x, y)))
  <2> SUFFICES ASSUME NEW x, NEW y, RuleSet({x}), Pinning({x}, y)
               PROVE  Rules!MatchToolDefinition(x, y, d) <=> (Rules!Pin(x, y) = {} \/ d \in Rules!Pin(x, y))
    OBVIOUS
  <2>1. ~(x.hash # {} /\ x.definitionFile)
    BY DEF RuleSet, Rules!RulesOk, Rules!RuleOk
  <2>2. x.definitionFile => y # NoDefinition
    BY DEF Pinning
  <2> QED BY <2>1, <2>2 DEF Rules!MatchToolDefinition, Rules!Pin
<1>2. Rules!MatchToolDefinition(r, p, d) <=> Rules!MatchToolDefinition(q, o, d)
  BY <1>1
<1>3. Rules!MatchToolDefinition(r, p, d) \in BOOLEAN /\ Rules!MatchToolDefinition(q, o, d) \in BOOLEAN
  BY DEF Rules!MatchToolDefinition, RuleSet, Rules!Rule
<1> QED BY <1>2, <1>3

\* The verdict of one rule, in terms of what it looks at.
LEMMA VerdictGiven ==
    ASSUME NEW r, NEW p, NEW v, NEW d, NEW t, NEW n,
           NEW over, over = (~Rules!Mismatch(r, p, v, d) /\ Rules!Over(r, v, t, n)),
           NEW strict, strict = (Rules!Mismatch(r, p, v, d) \/ over)
    PROVE  LET answer == Rules!Evaluate({r}, p, v, d, t, n) IN
           /\ answer.decision = IF strict /\ r.denyMismatch THEN "deny"
                              ELSE IF strict \/ r.requireApproval \/ Rules!Reviewed(r, v) THEN "ask"
                              ELSE "allow"
           /\ answer.why = IF Fails(r, v) THEN "args"
                         ELSE IF ~Rules!MatchToolDefinition(r, p, d) THEN "definition"
                         ELSE IF over THEN "cap" ELSE IF Rules!Reviewed(r, v) THEN "review" ELSE "none"
<1>1. {r} # {} /\ (CHOOSE x \in {r} : TRUE) = r
  OBVIOUS
<1>2. Rules!Evaluate({r}, p, v, d, t, n) =
        [decision  |-> IF strict /\ r.denyMismatch THEN "deny"
                       ELSE IF strict \/ r.requireApproval \/ Rules!Reviewed(r, v) THEN "ask"
                       ELSE "allow",
         why       |-> Rules!Why(r, p, v, d, over, Rules!Reviewed(r, v)),
         grantable |-> r.requireApproval /\ ~strict /\ Rules!Grantable(r)]
  BY <1>1, Zenon DEF Rules!Evaluate
<1>3. Rules!Why(r, p, v, d, over, Rules!Reviewed(r, v)) =
         IF Fails(r, v) THEN "args"
         ELSE IF ~Rules!MatchToolDefinition(r, p, d) THEN "definition"
         ELSE IF over THEN "cap" ELSE IF Rules!Reviewed(r, v) THEN "review" ELSE "none"
  BY FailsIff, Zenon DEF Rules!Why
<1> QED BY <1>2, <1>3

\* ... so they judge alike, whatever is on the count when it is not capped.
LEMMA JudgeAlike ==
    ASSUME NoDefinition \notin Definitions,
           NEW r, NEW q, RuleSet({r}), RuleSet({q}), NEW p, NEW o, Pinning({r}, p), Pinning({q}, o),
           Rules!Policy({r}, p) = Rules!Policy({q}, o),
           NEW v, NEW d, NEW t, NEW n, NEW k, r.maxCalls # {} => n = k
    PROVE  Rules!Same(Rules!Evaluate({r}, p, v, d, t, n), Rules!Evaluate({q}, o, v, d, t, k))
<1>1. /\ r.requireApproval = q.requireApproval /\ r.denyMismatch = q.denyMismatch
      /\ r.equals = q.equals /\ r.matches = q.matches /\ r.optional = q.optional
      /\ r.min = q.min /\ r.max = q.max /\ r.reviewAbove = q.reviewAbove
      /\ r.maxPerDay = q.maxPerDay /\ r.maxCalls = q.maxCalls
      /\ Rules!Pin(r, p) = Rules!Pin(q, o)
  BY AlikeRules
<1>2. Rules!MatchToolDefinition(r, p, d) = Rules!MatchToolDefinition(q, o, d)
  BY <1>1, AlikePins
<1>3. Fails(r, v) <=> Fails(q, v)
  BY <1>1 DEF Fails, Rules!Numeric
<1>4. Rules!Reviewed(r, v) <=> Rules!Reviewed(q, v)
  BY <1>1 DEF Rules!Reviewed, Rules!Review
<1>5. Rules!Over(r, v, t, n) <=> Rules!Over(q, v, t, k)
  BY <1>1 DEF Rules!Over
<1>6. Rules!Mismatch(r, p, v, d) <=> Rules!Mismatch(q, o, v, d)
  BY <1>2, <1>3, FailsIff DEF Rules!Mismatch
<1> DEFINE over1 == ~Rules!Mismatch(r, p, v, d) /\ Rules!Over(r, v, t, n)
           over2 == ~Rules!Mismatch(q, o, v, d) /\ Rules!Over(q, v, t, k)
           strict1 == Rules!Mismatch(r, p, v, d) \/ over1
           strict2 == Rules!Mismatch(q, o, v, d) \/ over2
<1>7. (over1 <=> over2) /\ (strict1 <=> strict2)
  BY <1>5, <1>6
<1>a. /\ over1 = (~Rules!Mismatch(r, p, v, d) /\ Rules!Over(r, v, t, n))
      /\ strict1 = (Rules!Mismatch(r, p, v, d) \/ over1)
      /\ over2 = (~Rules!Mismatch(q, o, v, d) /\ Rules!Over(q, v, t, k))
      /\ strict2 = (Rules!Mismatch(q, o, v, d) \/ over2)
  OBVIOUS
<1> HIDE DEF over1, over2, strict1, strict2
<1>8. /\ Rules!Evaluate({r}, p, v, d, t, n).decision =
            IF strict1 /\ r.denyMismatch THEN "deny"
            ELSE IF strict1 \/ r.requireApproval \/ Rules!Reviewed(r, v) THEN "ask" ELSE "allow"
      /\ Rules!Evaluate({r}, p, v, d, t, n).why =
            IF Fails(r, v) THEN "args"
            ELSE IF ~Rules!MatchToolDefinition(r, p, d) THEN "definition"
            ELSE IF over1 THEN "cap" ELSE IF Rules!Reviewed(r, v) THEN "review" ELSE "none"
  BY <1>a, VerdictGiven
<1>9. /\ Rules!Evaluate({q}, o, v, d, t, k).decision =
            IF strict2 /\ q.denyMismatch THEN "deny"
            ELSE IF strict2 \/ q.requireApproval \/ Rules!Reviewed(q, v) THEN "ask" ELSE "allow"
      /\ Rules!Evaluate({q}, o, v, d, t, k).why =
            IF Fails(q, v) THEN "args"
            ELSE IF ~Rules!MatchToolDefinition(q, o, d) THEN "definition"
            ELSE IF over2 THEN "cap" ELSE IF Rules!Reviewed(q, v) THEN "review" ELSE "none"
  BY <1>a, VerdictGiven
<1>10. Rules!Evaluate({r}, p, v, d, t, n).decision = Rules!Evaluate({q}, o, v, d, t, k).decision
  BY <1>1, <1>4, <1>7, <1>8, <1>9
<1>11. Rules!Evaluate({r}, p, v, d, t, n).why = Rules!Evaluate({q}, o, v, d, t, k).why
  BY <1>2, <1>3, <1>4, <1>7, <1>8, <1>9
<1> QED BY <1>10, <1>11 DEF Rules!Same

\* A sum of ones is a size.
LEMMA SumOfOnes ==
    ASSUME NEW F, NEW S, IsFiniteSet(S), \A x \in S : F[x] = 1
    PROVE  SumFunctionOnSet(F, S) = Cardinality(S)
<1> DEFINE Sum(s) == SumFunctionOnSet(F, s)
           Bad == {Cardinality(s) : s \in {s \in SUBSET S : Sum(s) # Cardinality(s)}}
<1>1. \A s \in SUBSET S : Summable(F, s) /\ IsFiniteSet(s) /\ Cardinality(s) \in Nat
  BY FS_Subset, FS_CardinalityType DEF Summable
<1>2. ASSUME NEW k \in Nat, \A m \in Nat : m < k => m \notin Bad
      PROVE  k \notin Bad
  <2> SUFFICES ASSUME NEW s \in SUBSET S, Cardinality(s) = k
               PROVE  Sum(s) = Cardinality(s)
    OBVIOUS
  <2>1. CASE s = {}
    BY <1>1, <2>1, SumTakesOne, FS_EmptySet
  <2>2. CASE s # {}
    <3>1. PICK y : y \in s
      BY <2>2
    <3>2. /\ Cardinality(s \ {y}) \in Nat /\ Cardinality(s) = Cardinality(s \ {y}) + 1
          /\ s \ {y} \in SUBSET S
      BY <1>1, <3>1, OneLess
    <3>3. Sum(s \ {y}) = Cardinality(s \ {y})
      <4>1. Cardinality(s \ {y}) < k
        BY <3>2
      <4>2. Cardinality(s \ {y}) \notin Bad
        BY <1>2, <3>2, <4>1
      <4> QED BY <3>2, <4>2
    <3>4. Sum(s) = F[y] + Sum(s \ {y})
      BY <1>1, <3>1, SumTakesAny
    <3> HIDE DEF Sum
    <3> QED BY <3>1, <3>2, <3>3, <3>4
  <2> QED BY <2>1, <2>2
<1>3. Bad = {}
  <2>1. Bad \subseteq Nat
    BY <1>1
  <2> HIDE DEF Bad
  <2> QED BY <1>2, <2>1, Sizes
<1>4. S \in SUBSET S
  OBVIOUS
<1> QED BY <1>3, <1>4

\* The sums and sizes of the rules are those used here.
LEMMA RulesSums ==
    ASSUME NEW S
    PROVE  /\ \A F : Rules!SumFunctionOnSet(F, S) = SumFunctionOnSet(F, S)
           /\ Rules!Cardinality(S) = Cardinality(S)
<1>1. ASSUME NEW F PROVE Rules!SumFunctionOnSet(F, S) = SumFunctionOnSet(F, S)
  <2>1. SumFunctionOnSet(F, S) = Iter(F, S)[S]
    BY SumIs
  <2>2. Rules!SumFunctionOnSet(F, S) = Iter(F, S)[S]
    BY Zenon DEF Rules!SumFunctionOnSet, Rules!FoldFunctionOnSet, Rules!MapThenFoldSet, Iter, Step, Pick
  <2> QED BY <2>1, <2>2
<1>2. Rules!Cardinality(S) = Cardinality(S)
  BY Zenon DEF Rules!Cardinality, Cardinality, Rules!IsFiniteSet, IsFiniteSet
<1> QED BY <1>1, <1>2

-----------------------------------------------------------------------------
\* A call that was judged has amounts that add up, none of them negative unless a
\* human let it through.
LEMMA JudgedAmounts ==
    ASSUME Rules!RulesAssumption, NEW k, RuledOK(k), k.pc \in JudgedPcs
    PROVE  /\ k.amounts.arg \in Int /\ k.amounts.calls \in {0, 1}
           /\ k.pc \in StandingPcs /\ ~RoomLeft(k) => k.amounts.arg >= 0
           /\ k.pc \in StandingPcs /\ k.by # "operator" => k.amounts.arg >= 0
           /\ \E r : k.under = {r} /\ (r.maxCalls # {} => k.amounts.calls = 1)
<1>1. PICK r \in k.under : JudgedBy(k, r)
  BY DEF RuledOK
<1>2. k.value \in ArgValues
  BY DEF RuledOK
<1>3. r \in Rules!Rule /\ k.under = {r} /\ k.amounts = Rules!CappedAmounts(r, k.value)
  BY <1>1 DEF JudgedBy, RuleSet
<1>4. /\ k.amounts.arg \in Int /\ k.amounts.calls \in {0, 1} /\ (r.maxCalls # {} => k.amounts.calls = 1)
      /\ (~\E n \in k.value.num : n < 0) => k.amounts.arg >= 0
      /\ ~Fails(r, k.value) => k.amounts.arg >= 0
  BY <1>2, <1>3, AmountsRead
<1>5. k.pc \in StandingPcs /\ k.by # "operator" => k.amounts.arg >= 0
  <2>1. k.pc \in StandingPcs /\ k.by # "operator" => ~Rules!Mismatch(r, k.pin, k.value, k.def)
    BY <1>1 DEF JudgedBy
  <2>2. ~Rules!Mismatch(r, k.pin, k.value, k.def) => ~Fails(r, k.value)
    BY FailsIff DEF Rules!Mismatch
  <2> QED BY <1>4, <2>1, <2>2
<1>6. k.pc \in StandingPcs /\ ~RoomLeft(k) => k.amounts.arg >= 0
  BY <1>4, <1>5 DEF RoomLeft, StandingPcs
<1> QED BY <1>3, <1>4, <1>5, <1>6

\* The calls that stand are finitely many, and add up.
LEMMA StandSums ==
    ASSUME Rules!RulesAssumption, NEW C, CallsOK(C), NEW S \in SUBSET Stand(C)
    PROVE  Summable(ArgIn(C), S) /\ Summable(CallsIn(C), S) /\ IsFiniteSet(S)
<1>1. IsFiniteSet(S)
  BY FS_Subset DEF CallsOK
<1>2. ASSUME NEW c \in S PROVE ArgIn(C)[c] \in Int /\ CallsIn(C)[c] \in Int
  <2>1. c \in ToolCalls /\ C[c].pc \in JudgedPcs
    BY DEF Stand, JudgedPcs
  <2>2. RuledOK(C[c])
    BY <2>1 DEF CallsOK
  <2>3. C[c].amounts.arg \in Int /\ C[c].amounts.calls \in {0, 1}
    BY <2>1, <2>2, JudgedAmounts
  <2>4. ArgIn(C)[c] = C[c].amounts.arg /\ CallsIn(C)[c] = C[c].amounts.calls
    BY <2>1 DEF ArgIn, CallsIn
  <2> QED BY <2>3, <2>4
<1> QED BY <1>1, <1>2 DEF Summable

\* What the rules read of the calls.
LEMMA RulesTotals ==
    ASSUME Rules!RulesAssumption, CallsOK(toolCalls), NEW S \in SUBSET Stand(toolCalls)
    PROVE  /\ Rules!Standing = Stand(toolCalls)
           /\ Rules!TotalOf(S) = SumFunctionOnSet(ArgIn(toolCalls), S)
           /\ Rules!CountOf(S) = SumFunctionOnSet(CallsIn(toolCalls), S)
           /\ Rules!Cardinality(S) = Cardinality(S)
<1>1. Rules!Standing = Stand(toolCalls)
  BY DEF Rules!Standing, Stand, StandingPcs
<1>2. S \subseteq ToolCalls
  BY DEF Stand
<1> DEFINE A == [c \in S |-> toolCalls[c].amounts.arg]
           N == [c \in S |-> toolCalls[c].amounts.calls]
<1>3. (\A c \in S : ArgIn(toolCalls)[c] = A[c]) /\ (\A c \in S : CallsIn(toolCalls)[c] = N[c])
  BY <1>2 DEF ArgIn, CallsIn
<1>4. Rules!TotalOf(S) = SumFunctionOnSet(A, S) /\ Rules!CountOf(S) = SumFunctionOnSet(N, S)
  BY RulesSums DEF Rules!TotalOf, Rules!CountOf
<1>5. Summable(ArgIn(toolCalls), S) /\ Summable(CallsIn(toolCalls), S)
  BY StandSums
<1> HIDE DEF A, N
<1>6. SumFunctionOnSet(ArgIn(toolCalls), S) = SumFunctionOnSet(A, S)
  BY <1>3, <1>5, SameSum
<1>7. SumFunctionOnSet(CallsIn(toolCalls), S) = SumFunctionOnSet(N, S)
  BY <1>3, <1>5, SameSum
<1>8. Rules!Cardinality(S) = Cardinality(S)
  BY RulesSums
<1> QED BY <1>1, <1>4, <1>6, <1>7, <1>8

\* A call is not let through by a rule now if it was not before, and makes the room
\* it made.
Narrower(k, l) ==
    /\ l.pc \in StandingPcs /\ l.by # "operator" =>
          k.pc \in StandingPcs /\ l.by = k.by /\ l.under = k.under /\ l.amounts = k.amounts
    /\ RoomLeft(k) => RoomLeft(l)
Shrinks(C, D) == \A c \in ToolCalls : Narrower(C[c], D[c])

\* The rules' calls are still within their caps.
LEMMA FewerInCaps ==
    ASSUME Rules!RulesAssumption, NEW C, NEW D, CallsOK(C), Shrinks(C, D), NEW r, RuleSet({r}), WithinCaps(C, r)
    PROVE  WithinCaps(D, r)
<1> DEFINE M == Mine(C, r)
           L == Mine(D, r)
<1>1. L \in SUBSET M /\ M \in SUBSET Stand(C) /\ M \subseteq ToolCalls
  BY DEF Mine, Stand, Shrinks, Narrower
<1>2. Room(C) => Room(D)
  BY DEF Room, Shrinks, Narrower
<1>3. ASSUME NEW c \in M
      PROVE  ArgIn(C)[c] >= 0 /\ CallsIn(C)[c] >= 0
  <2>1. c \in ToolCalls /\ C[c].pc \in StandingPcs /\ C[c].by # "operator" /\ C[c].pc \in JudgedPcs
    BY DEF Mine, Stand, JudgedPcs
  <2>2. RuledOK(C[c])
    BY <2>1 DEF CallsOK
  <2>3. C[c].amounts.arg >= 0 /\ C[c].amounts.calls \in {0, 1}
    BY <2>1, <2>2, JudgedAmounts
  <2> QED BY <2>1, <2>3 DEF ArgIn, CallsIn
<1>4. \A c \in L : ArgIn(C)[c] = ArgIn(D)[c] /\ CallsIn(C)[c] = CallsIn(D)[c]
  <2>1. \A c \in L : c \in ToolCalls /\ D[c].amounts = C[c].amounts
    BY DEF Mine, Stand, Shrinks, Narrower
  <2> HIDE DEF L
  <2> QED BY <2>1 DEF ArgIn, CallsIn
<1>5. Summable(ArgIn(C), M) /\ Summable(CallsIn(C), M)
  BY <1>1, StandSums
<1> HIDE DEF M, L
<1>6. Summable(ArgIn(C), L) /\ SumFunctionOnSet(ArgIn(C), L) <= SumFunctionOnSet(ArgIn(C), M)
  BY <1>1, <1>3, <1>5, PartOfSum
<1>7. Summable(CallsIn(C), L) /\ SumFunctionOnSet(CallsIn(C), L) <= SumFunctionOnSet(CallsIn(C), M)
  BY <1>1, <1>3, <1>5, PartOfSum
<1>8. SumFunctionOnSet(ArgIn(C), L) = SumFunctionOnSet(ArgIn(D), L)
  BY <1>4, <1>6, SameSum
<1>9. SumFunctionOnSet(CallsIn(C), L) = SumFunctionOnSet(CallsIn(D), L)
  BY <1>4, <1>7, SameSum
<1>10. /\ SumFunctionOnSet(ArgIn(C), M) \in Int /\ SumFunctionOnSet(ArgIn(C), L) \in Int
       /\ SumFunctionOnSet(CallsIn(C), M) \in Int /\ SumFunctionOnSet(CallsIn(C), L) \in Int
  BY <1>5, <1>6, <1>7, SumTakesOne
<1>11. r.maxPerDay \subseteq Int /\ r.maxCalls \subseteq Int
  BY DEF RuleSet, Rules!Rule
<1>12. /\ \A m \in r.maxPerDay : Room(C) \/ SumFunctionOnSet(ArgIn(C), M) <= m
       /\ \A m \in r.maxCalls : SumFunctionOnSet(CallsIn(C), M) <= m
  BY DEF WithinCaps, M
<1>13. /\ \A m \in r.maxPerDay : Room(D) \/ SumFunctionOnSet(ArgIn(D), L) <= m
       /\ \A m \in r.maxCalls : SumFunctionOnSet(CallsIn(D), L) <= m
  BY <1>2, <1>6, <1>7, <1>8, <1>9, <1>10, <1>11, <1>12
<1> QED BY <1>13 DEF WithinCaps, L

\* A call that a rule lets through beside those that stand is within its caps too.
LEMMA OneMoreInCaps ==
    ASSUME Rules!RulesAssumption, NEW C, NEW D, CallsOK(C), NEW c \in ToolCalls, NEW k, D = [C EXCEPT ![c] = k],
           C[c].pc \notin StandingPcs \cup {"over"}, RuledOK(k), k.pc = "allowed", k.by # "operator",
           NEW g, RuleSet({g}), k.under = {g}, k.amounts = Rules!CappedAmounts(g, k.value),
           ~Rules!Over(g, k.value, SumFunctionOnSet(ArgIn(C), Stand(C)), SumFunctionOnSet(CallsIn(C), Stand(C))),
           NEW r, RuleSet({r}), WithinCaps(C, r)
    PROVE  WithinCaps(D, r)
<1> DEFINE L == Mine(C, r)
           S == Stand(C)
<1>1. L \in SUBSET S /\ S \in SUBSET S /\ S \subseteq ToolCalls /\ c \notin S /\ c \notin L
  BY DEF Mine, Stand
<1>2. D[c] = k /\ DOMAIN C = ToolCalls /\ \A o \in ToolCalls \ {c} : D[o] = C[o]
  BY DEF CallsOK
<1>3. Mine(D, r) = IF r = g THEN L \cup {c} ELSE L
  BY <1>1, <1>2 DEF Mine, Stand, StandingPcs
<1>4. Room(C) => Room(D)
  BY <1>2 DEF Room, RoomLeft
<1>5. /\ Summable(ArgIn(C), L) /\ Summable(CallsIn(C), L)
      /\ Summable(ArgIn(C), S) /\ Summable(CallsIn(C), S)
  BY <1>1, StandSums
<1>6. (\A o \in L : ArgIn(C)[o] = ArgIn(D)[o]) /\ (\A o \in L : CallsIn(C)[o] = CallsIn(D)[o])
  BY <1>1, <1>2 DEF ArgIn, CallsIn
<1>7. ArgIn(D)[c] = k.amounts.arg /\ CallsIn(D)[c] = k.amounts.calls
  BY <1>2 DEF ArgIn, CallsIn
<1>8. k.amounts.arg \in Int /\ k.amounts.calls \in {0, 1}
  BY JudgedAmounts DEF JudgedPcs, StandingPcs
<1>9. \A o \in S : CallsIn(C)[o] >= 0 /\ (Room(C) \/ ArgIn(C)[o] >= 0)
  <2> SUFFICES ASSUME NEW o \in S PROVE CallsIn(C)[o] >= 0 /\ (Room(C) \/ ArgIn(C)[o] >= 0)
    OBVIOUS
  <2>1. o \in ToolCalls /\ C[o].pc \in StandingPcs /\ C[o].pc \in JudgedPcs
    BY DEF Stand, JudgedPcs
  <2>2. RuledOK(C[o])
    BY <2>1 DEF CallsOK
  <2>3. C[o].amounts.calls \in {0, 1} /\ (RoomLeft(C[o]) \/ C[o].amounts.arg >= 0)
    BY <2>1, <2>2, JudgedAmounts
  <2> QED BY <2>1, <2>3 DEF ArgIn, CallsIn, Room
<1> HIDE DEF L, S
<1>10. /\ SumFunctionOnSet(ArgIn(D), L) = SumFunctionOnSet(ArgIn(C), L)
       /\ SumFunctionOnSet(CallsIn(D), L) = SumFunctionOnSet(CallsIn(C), L)
  <2>1. \A F, G : Summable(F, L) /\ (\A o \in L : F[o] = G[o]) => SumFunctionOnSet(F, L) = SumFunctionOnSet(G, L)
    BY SameSum
  <2>2. SumFunctionOnSet(ArgIn(C), L) = SumFunctionOnSet(ArgIn(D), L)
    BY <1>5, <1>6, <2>1, Zenon
  <2>3. SumFunctionOnSet(CallsIn(C), L) = SumFunctionOnSet(CallsIn(D), L)
    BY <1>5, <1>6, <2>1, Zenon
  <2> QED BY <2>2, <2>3
<1>11. Summable(ArgIn(D), L) /\ Summable(CallsIn(D), L)
  BY <1>5, <1>6 DEF Summable
<1>12. /\ SumFunctionOnSet(ArgIn(D), L \cup {c}) = SumFunctionOnSet(ArgIn(C), L) + k.amounts.arg
       /\ SumFunctionOnSet(CallsIn(D), L \cup {c}) = SumFunctionOnSet(CallsIn(C), L) + k.amounts.calls
  <2>1. ArgIn(D)[c] \in Int /\ CallsIn(D)[c] \in Int
    BY <1>7, <1>8
  <2>2. SumFunctionOnSet(ArgIn(D), L \cup {c}) = SumFunctionOnSet(ArgIn(D), L) + ArgIn(D)[c]
    BY <1>1, <1>11, <2>1, SumAdds
  <2>3. SumFunctionOnSet(CallsIn(D), L \cup {c}) = SumFunctionOnSet(CallsIn(D), L) + CallsIn(D)[c]
    BY <1>1, <1>11, <2>1, SumAdds
  <2> QED BY <1>7, <1>10, <2>2, <2>3
<1>13. SumFunctionOnSet(CallsIn(C), L) <= SumFunctionOnSet(CallsIn(C), S)
  BY <1>1, <1>5, <1>9, PartOfSum
<1>14. Room(C) \/ SumFunctionOnSet(ArgIn(C), L) <= SumFunctionOnSet(ArgIn(C), S)
  BY <1>1, <1>5, <1>9, PartOfSum
<1>15. /\ SumFunctionOnSet(ArgIn(C), L) \in Int /\ SumFunctionOnSet(ArgIn(C), S) \in Int
       /\ SumFunctionOnSet(CallsIn(C), L) \in Int /\ SumFunctionOnSet(CallsIn(C), S) \in Int
  BY <1>5, SumTakesOne
<1>16. /\ \A m \in r.maxPerDay : Room(C) \/ SumFunctionOnSet(ArgIn(C), L) <= m
       /\ \A m \in r.maxCalls : SumFunctionOnSet(CallsIn(C), L) <= m
  BY DEF WithinCaps, L
<1>17. CASE r # g
  BY <1>3, <1>4, <1>10, <1>16, <1>17 DEF WithinCaps
<1>18. CASE r = g
  <2>1. k.value \in ArgValues
    BY DEF RuledOK
  <2>2. ~Rules!Over(g, k.value, SumFunctionOnSet(ArgIn(C), S), SumFunctionOnSet(CallsIn(C), S))
    BY DEF S
  <2>3. /\ \A m \in g.maxPerDay : k.value.num # {} => SumFunctionOnSet(ArgIn(C), S) + k.amounts.arg <= m
        /\ \A m \in g.maxPerDay : k.value.num = {} => k.amounts.arg = 0
        /\ \A m \in g.maxCalls : SumFunctionOnSet(CallsIn(C), S) + k.amounts.calls <= m
    BY <1>15, <2>1, <2>2, NotOver
  <2>4. g.maxPerDay \subseteq Int /\ g.maxCalls \subseteq Int
    BY DEF RuleSet, Rules!Rule
  <2>5. \A m \in r.maxPerDay : Room(D) \/ SumFunctionOnSet(ArgIn(D), L \cup {c}) <= m
    BY <1>4, <1>8, <1>12, <1>14, <1>15, <1>16, <1>18, <2>3, <2>4
  <2>6. \A m \in r.maxCalls : SumFunctionOnSet(CallsIn(D), L \cup {c}) <= m
    BY <1>8, <1>12, <1>13, <1>15, <1>18, <2>3, <2>4
  <2> QED BY <1>3, <1>18, <2>5, <2>6 DEF WithinCaps
<1> QED BY <1>17, <1>18

\* What stood or has ended comes to nothing else, with the amounts it had.
Lasting(k, l) ==
    k.pc \in StandingPcs \cup {"over"} =>
        /\ l.pc \in StandingPcs \cup {"over"}
        /\ l.pc \in StandingPcs => k.pc \in StandingPcs /\ l.amounts = k.amounts
Keeps(C, D) == \A c \in ToolCalls : Lasting(C[c], D[c])

\* Then a comparison that waits is what it was.
LEMMA DueKeeps ==
    ASSUME Rules!RulesAssumption, NEW C, NEW D, CallsOK(C), Keeps(C, D), NEW x, DueOK(x, C)
    PROVE  DueOK(x, D)
<1>1. x.call \notin x.seen /\ x.seen \subseteq ToolCalls /\ \A o \in x.seen : D[o].pc \in StandingPcs \cup {"over"}
  BY DEF DueOK, Keeps, Lasting
<1>2. ASSUME x.alike, ~x.uncounted, x.seen \subseteq Stand(D)
      PROVE  Rules!Same(Rules!Evaluate(x.cand.rules, x.cand.pinned, x.value, x.def,
                                       SumFunctionOnSet(ArgIn(D), x.seen), Cardinality(x.seen)), x.live)
  <2>1. \A o \in x.seen : o \in ToolCalls /\ C[o].pc \in StandingPcs /\ D[o].amounts = C[o].amounts
    BY <1>1, <1>2 DEF DueOK, Keeps, Lasting, Stand
  <2>2. x.seen \in SUBSET Stand(C)
    BY <2>1 DEF Stand
  <2>3. Summable(ArgIn(C), x.seen)
    BY <2>2, StandSums
  <2>4. \A o \in x.seen : ArgIn(C)[o] = ArgIn(D)[o]
    BY <2>1 DEF ArgIn
  <2>5. SumFunctionOnSet(ArgIn(C), x.seen) = SumFunctionOnSet(ArgIn(D), x.seen)
    BY <2>3, <2>4, SameSum
  <2>6. Rules!Same(Rules!Evaluate(x.cand.rules, x.cand.pinned, x.value, x.def,
                                  SumFunctionOnSet(ArgIn(C), x.seen), Cardinality(x.seen)), x.live)
    BY <1>2, <2>2 DEF DueOK
  <2> QED BY <2>5, <2>6
<1> QED BY <1>1, <1>2 DEF DueOK

-----------------------------------------------------------------------------
\* One call moves: the table stays one.
LEMMA RuleCallMoves ==
    ASSUME NEW C, CallsOK(C), NEW c \in ToolCalls, NEW k, RuledOK(k), NEW D, D = [C EXCEPT ![c] = k]
    PROVE  /\ CallsOK(D)
           /\ Narrower(C[c], k) => Shrinks(C, D)
           /\ Lasting(C[c], k) => Keeps(C, D)
<1>1. /\ DOMAIN C = ToolCalls /\ DOMAIN D = ToolCalls /\ D[c] = k
      /\ \A o \in ToolCalls : o # c => D[o] = C[o]
  BY DEF CallsOK
<1>2. \A o \in ToolCalls : RuledOK(D[o])
  BY <1>1 DEF CallsOK
<1>3. IsFiniteSet(Stand(D))
  <2>1. IsFiniteSet(Stand(C) \cup {c})
    BY FS_AddElement DEF CallsOK
  <2>2. Stand(D) \subseteq Stand(C) \cup {c}
    BY <1>1 DEF Stand
  <2> QED BY <2>1, <2>2, FS_Subset
<1>4. Narrower(C[c], k) => Shrinks(C, D)
  BY <1>1 DEF Shrinks, Narrower
<1>5. Lasting(C[c], k) => Keeps(C, D)
  BY <1>1 DEF Keeps, Lasting
<1> QED BY <1>1, <1>2, <1>3, <1>4, <1>5 DEF CallsOK

\* A step in which nothing new is let through by a rule.
LEMMA CallsShrink ==
    ASSUME Rules!RulesAssumption, CallsOK(toolCalls), CapsInv, DueInv,
           Shrinks(toolCalls, toolCalls'), Keeps(toolCalls, toolCalls'), due' \subseteq due
    PROVE  CapsInv' /\ DueInv'
<1>1. PICK C, D : C = toolCalls /\ D = toolCalls'
  OBVIOUS
<1>2. CallsOK(C) /\ Shrinks(C, D) /\ Keeps(C, D)
  BY <1>1
<1>3. ASSUME NEW r, RuleSet({r}) PROVE WithinCaps(toolCalls', r)
  <2>1. WithinCaps(C, r)
    BY <1>1, <1>3 DEF CapsInv
  <2>2. WithinCaps(D, r)
    BY <1>2, <1>3, <2>1, FewerInCaps
  <2> QED BY <1>1, <2>2
<1>4. ASSUME NEW x \in due' PROVE DueOK(x, toolCalls')
  <2>1. DueOK(x, C)
    BY <1>1, <1>4 DEF DueInv
  <2>2. DueOK(x, D)
    <3>1. \A y : DueOK(y, C) => DueOK(y, D)
      BY <1>2, DueKeeps
    <3> QED BY <2>1, <3>1
  <2> QED BY <1>1, <2>2
<1> QED BY <1>3, <1>4 DEF CapsInv, DueInv

\* ... of one call.
LEMMA CallMoves ==
    ASSUME Rules!RulesAssumption, CallsOK(toolCalls), CapsInv, DueInv, NEW c \in ToolCalls, NEW k, RuledOK(k),
           toolCalls' = [toolCalls EXCEPT ![c] = k], Narrower(toolCalls[c], k), Lasting(toolCalls[c], k),
           due' \subseteq due
    PROVE  CallsOK(toolCalls') /\ CapsInv' /\ DueInv'
<1>1. PICK C, D : C = toolCalls /\ D = toolCalls'
  OBVIOUS
<1>2. CallsOK(D) /\ Shrinks(C, D) /\ Keeps(C, D)
  BY <1>1, RuleCallMoves
<1> QED BY <1>1, <1>2, CallsShrink

\* A call ends: it keeps the room it made.
LEMMA EndedCall ==
    ASSUME NEW c \in ToolCalls, toolCalls[c].pc # "over", NEW k,
           k = Rules!Ended(c \in Rules!Standing /\ Rules!Negative(c))
    PROVE  RuledOK(k) /\ Narrower(toolCalls[c], k) /\ Lasting(toolCalls[c], k)
<1>1. k.pc = "over" /\ k.room = (c \in Rules!Standing /\ Rules!Negative(c))
  BY DEF Rules!Ended
<1>2. RuledOK(k)
  BY <1>1 DEF RuledOK, JudgedPcs, StandingPcs
<1>3. RoomLeft(toolCalls[c]) => k.room
  BY <1>1 DEF RoomLeft, Rules!Standing, Rules!Negative, StandingPcs
<1> QED BY <1>1, <1>2, <1>3 DEF Narrower, Lasting, RoomLeft, StandingPcs

\* A call changes what it is at, no more.
Pinned(j) == UNION {x.hash : x \in j.policy}
SameBut(j, k, pc, by, f) ==
    /\ k = [j EXCEPT !.pc = pc, !.by = by, !.inForce = f]
    /\ pc \in {"checked", "consumed"} => f = Pinned(j)
    /\ \/ by = "operator" /\ j.pc \notin StandingPcs
       \/ by = j.by /\ pc \in StandingPcs /\ j.pc \in StandingPcs

\* It stays one that was judged rightly.
LEMMA SameCall ==
    ASSUME NEW c \in ToolCalls, CallsOK(toolCalls), toolCalls[c].pc \in JudgedPcs, NEW pc \in JudgedPcs,
           NEW by, NEW f, NEW k, SameBut(toolCalls[c], k, pc, by, f)
    PROVE  RuledOK(k) /\ Narrower(toolCalls[c], k) /\ Lasting(toolCalls[c], k)
<1> DEFINE j == toolCalls[c]
<1>1. RuledOK(j) /\ Judged(j) /\ j.value \in ArgValues
  BY DEF CallsOK, RuledOK
<1>2. PICK r \in j.under : JudgedBy(j, r)
  BY <1>1 DEF RuledOK
<1>0. /\ pc \in {"checked", "consumed"} => f = Pinned(j)
      /\ \/ by = "operator" /\ j.pc \notin StandingPcs
         \/ by = j.by /\ pc \in StandingPcs /\ j.pc \in StandingPcs
  BY DEF SameBut
<1>3. /\ k.pc = pc /\ k.by = by /\ k.agent = j.agent /\ k.value = j.value /\ k.def = j.def
      /\ k.policy = j.policy /\ k.amounts = j.amounts /\ k.under = j.under /\ k.pin = j.pin
      /\ k.inForce = f /\ Judged(k)
  BY <1>1 DEF Judged, SameBut
<1> HIDE DEF j
<1>4. JudgedBy(k, r)
  BY <1>0, <1>2, <1>3 DEF JudgedBy, j
<1>5. RuledOK(k)
  BY <1>0, <1>1, <1>2, <1>3, <1>4 DEF RuledOK, Pinned, j
<1>6. Narrower(j, k)
  BY <1>0, <1>3 DEF Narrower, RoomLeft, j, JudgedPcs, StandingPcs
<1>7. Lasting(j, k)
  BY <1>0, <1>3 DEF Lasting, j, JudgedPcs, StandingPcs
<1> QED BY <1>5, <1>6, <1>7 DEF j

\* The definitions in force are what a policy pins.
LEMMA PolicyPins ==
    ASSUME NEW R, NEW p, RuleSet(R)
    PROVE  UNION {x.hash : x \in Rules!Policy(R, p)} = UNION {Rules!Pin(r, p) : r \in R}
<1>1. \A r \in R : [r EXCEPT !.hash = Rules!Pin(r, p), !.definitionFile = FALSE].hash = Rules!Pin(r, p)
  BY DEF RuleSet, Rules!Rule
<1> DEFINE F(r) == [r EXCEPT !.hash = Rules!Pin(r, p), !.definitionFile = FALSE]
<1>2. Rules!Policy(R, p) = {F(r) : r \in R}
  BY DEF Rules!Policy
<1>3. \A r \in R : F(r).hash = Rules!Pin(r, p)
  BY <1>1
<1> HIDE DEF F
<1>4. {x.hash : x \in {F(r) : r \in R}} = {Rules!Pin(r, p) : r \in R}
  BY <1>3
<1> QED BY <1>2, <1>4

-----------------------------------------------------------------------------
CallsKept == CallsOK(toolCalls) /\ CapsInv /\ DueInv

\* A call arrives.
LEMMA CallArrives ==
    ASSUME Rules!RulesAssumption, RulesInv, CallsKept, NEW c \in ToolCalls, Rules!Arrive(c)
    PROVE  CallsKept'
<1>1. toolCalls[c].pc = "idle" /\ due' = due
  BY DEF Rules!Arrive, Rules!At
<1>2. PICK who \in Rules!Askers, v \in ArgValues, d \in SentDefinitions :
         \E a \in Rules!AgentsOf(who) :
           toolCalls' = [toolCalls EXCEPT ![c] =
             [pc |-> "hashed", who |-> who, agent |-> a, value |-> v, def |-> d,
              policy |-> Rules!Policy(gate.rules, pinned)]]
  BY DEF Rules!Arrive
<1>3. PICK k : k.pc = "hashed" /\ k.value \in ArgValues /\ toolCalls' = [toolCalls EXCEPT ![c] = k]
  BY <1>2
<1>4. RuledOK(k) /\ Narrower(toolCalls[c], k) /\ Lasting(toolCalls[c], k)
  BY <1>1, <1>3 DEF RuledOK, Narrower, Lasting, RoomLeft, JudgedPcs, StandingPcs
<1> QED BY <1>1, <1>3, <1>4, CallMoves DEF CallsKept

\* An operator decides, a permit expires, a consume begins and ends.
LEMMA CallGoesOn ==
    ASSUME Rules!RulesAssumption, RulesInv, CallsKept, NEW c \in ToolCalls,
           Rules!OperatorDecides(c) \/ Rules!Look(c) \/ Rules!ConsumeStart(c) \/ Rules!Consume(c)
    PROVE  CallsKept'
<1>1. due' = due
  BY DEF Rules!OperatorDecides, Rules!Look, Rules!ConsumeStart, Rules!Consume
<1> DEFINE j == toolCalls[c]
<1>2. CallsOK(toolCalls) /\ (j.pc \in JudgedPcs => Judged(j))
  BY DEF CallsKept, CallsOK, RuledOK
<1>3. ASSUME Rules!End(c), j.pc \in JudgedPcs PROVE CallsKept'
  <2>1. PICK k : k = Rules!Ended(c \in Rules!Standing /\ Rules!Negative(c)) /\ toolCalls' = [toolCalls EXCEPT ![c] = k]
    BY <1>3 DEF Rules!End
  <2>2. RuledOK(k) /\ Narrower(toolCalls[c], k) /\ Lasting(toolCalls[c], k)
    <3>1. toolCalls[c].pc # "over"
      BY <1>3 DEF JudgedPcs, StandingPcs
    <3> QED BY <2>1, <3>1, EndedCall
  <2> QED BY <1>1, <2>1, <2>2, CallMoves DEF CallsKept
<1>4. ASSUME NEW pc \in JudgedPcs, NEW by, NEW f, NEW k, j.pc \in JudgedPcs,
             toolCalls' = [toolCalls EXCEPT ![c] = k], SameBut(j, k, pc, by, f)
      PROVE  CallsKept'
  <2>1. RuledOK(k) /\ Narrower(toolCalls[c], k) /\ Lasting(toolCalls[c], k)
    BY <1>2, <1>4, SameCall
  <2> QED BY <1>1, <1>4, <2>1, CallMoves DEF CallsKept
<1>5. ASSUME Rules!OperatorDecides(c) PROVE CallsKept'
  <2>1. j.pc = "asked" /\ j.pc \in JudgedPcs /\ j.pc \notin StandingPcs
    BY <1>5 DEF Rules!OperatorDecides, Rules!At, JudgedPcs, StandingPcs
  <2>2. Judged(j)
    BY <1>2, <2>1
  <2>3. Rules!End(c) \/ toolCalls' = [toolCalls EXCEPT ![c].pc = "allowed", ![c].by = "operator"]
    BY <1>5 DEF Rules!OperatorDecides
  <2>4. CASE Rules!End(c)
    BY <1>3, <2>1, <2>4
  <2>5. CASE toolCalls' = [toolCalls EXCEPT ![c].pc = "allowed", ![c].by = "operator"]
    <3>1. PICK k : k = [j EXCEPT !.pc = "allowed", !.by = "operator", !.inForce = j.inForce]
      OBVIOUS
    <3>2. toolCalls' = [toolCalls EXCEPT ![c] = k]
      BY <1>2, <2>2, <2>5, <3>1 DEF Judged, CallsOK
    <3>3. SameBut(j, k, "allowed", "operator", j.inForce)
      BY <2>1, <3>1 DEF SameBut
    <3>4. "allowed" \in JudgedPcs
      BY DEF JudgedPcs, StandingPcs
    <3> QED BY <1>4, <2>1, <3>2, <3>3, <3>4
  <2> QED BY <2>3, <2>4, <2>5
<1>6. ASSUME Rules!Look(c) PROVE CallsKept'
  <2>1. j.pc \in JudgedPcs /\ Rules!End(c)
    BY <1>6 DEF Rules!Look, Rules!At, JudgedPcs, StandingPcs
  <2> QED BY <1>3, <2>1
<1>7. ASSUME Rules!ConsumeStart(c) PROVE CallsKept'
  <2>1. /\ j.pc = "allowed" /\ j.pc \in JudgedPcs /\ j.pc \in StandingPcs
        /\ "checked" \in JudgedPcs /\ "checked" \in StandingPcs
    BY <1>7 DEF Rules!ConsumeStart, Rules!At, JudgedPcs, StandingPcs
  <2>2. PICK f : f = UNION {Rules!Pin(r, pinned) : r \in gate.rules}
    OBVIOUS
  <2>3. /\ j.policy = Rules!Policy(gate.rules, pinned)
        /\ toolCalls' = [toolCalls EXCEPT ![c].pc = "checked", ![c].inForce = f]
    BY <1>7, <2>2 DEF Rules!ConsumeStart
  <2>4. f = Pinned(j)
    BY <2>2, <2>3, PolicyPins DEF RulesInv, Pinned
  <2>5. PICK k : k = [j EXCEPT !.pc = "checked", !.by = j.by, !.inForce = f]
    OBVIOUS
  <2>6. toolCalls' = [toolCalls EXCEPT ![c] = k]
    BY <1>2, <2>1, <2>3, <2>5 DEF Judged, CallsOK
  <2>7. SameBut(j, k, "checked", j.by, f)
    BY <2>1, <2>4, <2>5 DEF SameBut
  <2> QED BY <1>4, <2>1, <2>6, <2>7
<1>8. ASSUME Rules!Consume(c) PROVE CallsKept'
  <2>1. /\ j.pc = "checked" /\ j.pc \in JudgedPcs /\ j.pc \in StandingPcs
        /\ "consumed" \in JudgedPcs /\ "consumed" \in StandingPcs
    BY <1>8 DEF Rules!Consume, Rules!At, JudgedPcs, StandingPcs
  <2>2. toolCalls' = [toolCalls EXCEPT ![c].pc = "consumed"]
    BY <1>8 DEF Rules!Consume, Rules!Move
  <2>3. j.inForce = Pinned(j)
    BY <1>2, <2>1 DEF CallsOK, RuledOK, Pinned
  <2>4. PICK k : k = [j EXCEPT !.pc = "consumed", !.by = j.by, !.inForce = j.inForce]
    OBVIOUS
  <2>5. toolCalls' = [toolCalls EXCEPT ![c] = k]
    BY <1>2, <2>1, <2>2, <2>4 DEF Judged, CallsOK
  <2>6. SameBut(j, k, "consumed", j.by, j.inForce)
    BY <2>1, <2>3, <2>4 DEF SameBut
  <2> QED BY <1>4, <2>1, <2>5, <2>6
<1> QED BY <1>5, <1>6, <1>7, <1>8

\* What a comparison is owed when a call was just judged.
NewlyDue(x, c) ==
    \E y, v, d, answer :
      /\ y \in candidate
      /\ x.call = c /\ x.cand = y /\ x.value = v /\ x.def = d /\ x.seen = Rules!Standing
      /\ answer = Rules!Evaluate(gate.rules, pinned, v, d, Rules!TotalOf(Rules!Standing),
                                 Rules!CountOf(Rules!Standing))
      /\ x.live.decision = answer.decision /\ x.live.why = answer.why
      /\ x.alike => Rules!Policy(y.rules, y.pinned) = Rules!Policy(gate.rules, pinned)
      /\ (\E o \in Rules!Standing : toolCalls[o].under # gate.rules) => x.uncounted

-----------------------------------------------------------------------------
\* The comparison a verdict leaves behind: alike rules judge alike what stands now.
LEMMA NewDue ==
    ASSUME Rules!RulesAssumption, RulesInv, CallsOK(toolCalls), NEW c \in ToolCalls, toolCalls[c].pc = "hashed",
           NEW x, NewlyDue(x, c)
    PROVE  DueOK(x, toolCalls)
<1> DEFINE S == Stand(toolCalls)
<1>0. PICK y, v, d, answer :
         /\ y \in candidate
         /\ x.call = c /\ x.cand = y /\ x.value = v /\ x.def = d /\ x.seen = Rules!Standing
         /\ answer = Rules!Evaluate(gate.rules, pinned, v, d, Rules!TotalOf(Rules!Standing),
                                    Rules!CountOf(Rules!Standing))
         /\ x.live.decision = answer.decision /\ x.live.why = answer.why
         /\ x.alike => Rules!Policy(y.rules, y.pinned) = Rules!Policy(gate.rules, pinned)
         /\ (\E o \in Rules!Standing : toolCalls[o].under # gate.rules) => x.uncounted
  BY DEF NewlyDue
<1>1. /\ Rules!Standing = S /\ Rules!TotalOf(S) = SumFunctionOnSet(ArgIn(toolCalls), S)
      /\ Rules!CountOf(S) = SumFunctionOnSet(CallsIn(toolCalls), S) /\ IsFiniteSet(S)
  <2>1. S \in SUBSET S
    OBVIOUS
  <2> QED BY <2>1, RulesTotals, StandSums
<1>2. x.call \notin x.seen /\ x.seen \subseteq ToolCalls /\ \A o \in x.seen : toolCalls[o].pc \in StandingPcs \cup {"over"}
  BY <1>0, <1>1 DEF Stand, StandingPcs
<1>3. ASSUME x.alike, ~x.uncounted
      PROVE  Rules!Same(Rules!Evaluate(y.rules, y.pinned, v, d, SumFunctionOnSet(ArgIn(toolCalls), S),
                                       Cardinality(S)), x.live)
  <2>a. y.rules # {} /\ RuleSet(y.rules) /\ Pinning(y.rules, y.pinned)
    BY <1>0 DEF RulesInv
  <2>b. PICK q : y.rules = {q} /\ RuleSet({q})
    BY <2>a, OneRule
  <2>1. y.rules = {q} /\ RuleSet({q}) /\ Pinning({q}, y.pinned)
    BY <2>a, <2>b
  <2>2. Rules!Policy({q}, y.pinned) = Rules!Policy(gate.rules, pinned)
    BY <1>0, <1>3, <2>1
  <2>3. gate.rules # {}
    BY <2>2 DEF Rules!Policy
  <2>c. PICK R, p : R = gate.rules /\ p = pinned
    OBVIOUS
  <2>d. R # {} /\ RuleSet(R) /\ Pinning(R, p)
    BY <2>3, <2>c DEF RulesInv
  <2>e. PICK r : R = {r} /\ RuleSet({r})
    BY <2>d, OneRule
  <2>4. gate.rules = {r} /\ RuleSet({r}) /\ Pinning({r}, p) /\ p = pinned
    BY <2>c, <2>d, <2>e
  <2>9. PICK k, h : k = Cardinality(S) /\ h = y.pinned
    OBVIOUS
  <2>5. Rules!Policy({q}, h) = Rules!Policy({r}, p)
    BY <2>2, <2>4, <2>9
  <2>6. q.maxCalls = r.maxCalls
    <3>1. ASSUME NEW a, NEW b, NEW f, NEW g, RuleSet({a}), RuleSet({b}),
                 Rules!Policy({a}, f) = Rules!Policy({b}, g)
          PROVE  a.maxCalls = b.maxCalls
      BY <3>1, AlikeRules, SMTT(30)
    <3> QED BY <2>1, <2>4, <2>5, <3>1
  <2>7. r.maxCalls # {} => SumFunctionOnSet(CallsIn(toolCalls), S) = Cardinality(S)
    <3> SUFFICES ASSUME r.maxCalls # {} PROVE SumFunctionOnSet(CallsIn(toolCalls), S) = Cardinality(S)
      OBVIOUS
    <3>1. ASSUME NEW o \in S PROVE CallsIn(toolCalls)[o] = 1
      <4>1. o \in ToolCalls /\ toolCalls[o].pc \in JudgedPcs /\ RuledOK(toolCalls[o])
        BY DEF Stand, JudgedPcs, CallsOK
      <4>2. toolCalls[o].under = {r}
        BY <1>0, <1>1, <1>3, <2>4
      <4>3. PICK w : toolCalls[o].under = {w} /\ (w.maxCalls # {} => toolCalls[o].amounts.calls = 1)
        BY <4>1, JudgedAmounts
      <4>4. w = r
        BY <4>2, <4>3
      <4> QED BY <4>1, <4>3, <4>4 DEF CallsIn
    <3> HIDE DEF S
    <3> QED BY <1>1, <3>1, SumOfOnes
  <2>8. PICK t, n : t = SumFunctionOnSet(ArgIn(toolCalls), S) /\ n = SumFunctionOnSet(CallsIn(toolCalls), S)
    OBVIOUS
  <2>10. NoDefinition \notin Definitions
    BY DEF Rules!RulesAssumption
  <2>11. Rules!Same(Rules!Evaluate({q}, h, v, d, t, k), Rules!Evaluate({r}, p, v, d, t, n))
    BY <2>1, <2>4, <2>5, <2>6, <2>7, <2>8, <2>9, <2>10, JudgeAlike, ZenonT(60)
  <2>12. answer = Rules!Evaluate({r}, p, v, d, t, n)
    BY <1>0, <1>1, <2>4, <2>8, <2>9
  <2> QED BY <1>0, <2>1, <2>8, <2>9, <2>11, <2>12 DEF Rules!Same
<1> QED BY <1>0, <1>1, <1>2, <1>3 DEF DueOK

\* The record of a call that was judged.
VerdictsGiven(c, pc, by, k) ==
    k = [pc |-> pc, by |-> by, agent |-> toolCalls[c].agent, value |-> toolCalls[c].value,
         def |-> toolCalls[c].def, policy |-> toolCalls[c].policy, amounts |-> Rules!Recorded(toolCalls[c]),
         under |-> gate.rules, pin |-> pinned, inForce |-> {}]

\* It was judged by the rule in force, and if let through it satisfied that rule.
LEMMA VerdictIsOK ==
    ASSUME Rules!RulesAssumption, RulesInv, CallsOK(toolCalls), NEW c \in ToolCalls, toolCalls[c].pc = "hashed",
           NEW answer, answer = Rules!Evaluate(gate.rules, pinned, toolCalls[c].value, toolCalls[c].def,
                                           Rules!TotalOf(Rules!Standing), Rules!CountOf(Rules!Standing)),
           NEW pc \in {"asked", "allowed"}, NEW by, NEW k, VerdictsGiven(c, pc, by, k), gate.rules # {},
           pc = "allowed" => answer.decision = "allow" \/ answer.grantable
    PROVE  \E r : /\ RuleSet({r}) /\ k.under = {r} /\ RuledOK(k)
                  /\ k.amounts = Rules!CappedAmounts(r, k.value)
                  /\ pc = "allowed" =>
                       ~Rules!Over(r, k.value, SumFunctionOnSet(ArgIn(toolCalls), Stand(toolCalls)),
                                   SumFunctionOnSet(CallsIn(toolCalls), Stand(toolCalls)))
<1>1. PICK r : gate.rules = {r} /\ RuleSet({r}) /\ r = CHOOSE x \in gate.rules : TRUE
  BY OneRule, ZenonT(60) DEF RulesInv
<1>2. /\ Rules!Standing = Stand(toolCalls)
      /\ Rules!TotalOf(Rules!Standing) = SumFunctionOnSet(ArgIn(toolCalls), Stand(toolCalls))
      /\ Rules!CountOf(Rules!Standing) = SumFunctionOnSet(CallsIn(toolCalls), Stand(toolCalls))
  <2>1. Stand(toolCalls) \in SUBSET Stand(toolCalls)
    OBVIOUS
  <2> QED BY <2>1, RulesTotals
<1>3. /\ k.pc = pc /\ k.by = by /\ k.value = toolCalls[c].value /\ k.def = toolCalls[c].def
      /\ k.amounts = Rules!Recorded(toolCalls[c]) /\ k.under = {r} /\ k.pin = pinned /\ Judged(k)
  BY <1>1 DEF VerdictsGiven, Judged
<1>4. k.amounts = Rules!CappedAmounts(r, k.value)
  BY <1>1, <1>3 DEF Rules!Recorded
<1>5. PICK t, n, p : /\ t = SumFunctionOnSet(ArgIn(toolCalls), Stand(toolCalls))
                     /\ n = SumFunctionOnSet(CallsIn(toolCalls), Stand(toolCalls))
                     /\ p = pinned
  OBVIOUS
<1>6. answer = Rules!Evaluate({r}, p, k.value, k.def, t, n)
  BY <1>1, <1>2, <1>3, <1>5
<1>7. pc = "allowed" => /\ ~Rules!Mismatch(r, p, k.value, k.def) /\ ~Rules!Over(r, k.value, t, n)
                        /\ (~r.requireApproval \/ Rules!Grantable(r))
  <2>1. PICK v, d : v = k.value /\ d = k.def
    OBVIOUS
  <2>2. answer = Rules!Evaluate({r}, p, v, d, t, n)
    BY <1>6, <2>1
  <2>3. /\ answer.decision = "allow" => ~r.requireApproval
        /\ answer.grantable => Rules!Grantable(r)
        /\ answer.decision = "allow" \/ answer.grantable =>
                 ~Rules!Mismatch(r, p, v, d) /\ ~Rules!Over(r, v, t, n)
    BY <2>2, LetThrough
  <2> QED BY <2>1, <2>3
<1>8. pc = "allowed" /\ RisksArePlain => Rules!RiskOf(r) # "high"
  <2>1. RisksArePlain => r.risk # "high, padded"
    BY <1>1 DEF RisksArePlain, RulesInv
  <2>2. Rules!RuleOk(r)
    BY <1>1 DEF RuleSet, Rules!RulesOk
  <2> QED BY <1>7, <2>1, <2>2, RiskIsAsked
<1>9. JudgedBy(k, r)
  <2>1. Pinning({r}, k.pin)
    BY <1>1, <1>3 DEF RulesInv
  <2>2. k.pc \in StandingPcs => pc = "allowed"
    BY <1>3 DEF StandingPcs
  <2> QED BY <1>1, <1>3, <1>4, <1>5, <1>7, <1>8, <2>1, <2>2 DEF JudgedBy
<1>10. RuledOK(k)
  <2>1. toolCalls[c].value \in ArgValues
    BY DEF CallsOK, RuledOK
  <2> QED BY <1>3, <1>9, <2>1 DEF RuledOK, JudgedPcs, StandingPcs
<1> QED BY <1>1, <1>3, <1>4, <1>5, <1>7, <1>10

\* A call is judged.
LEMMA CallIsJudged ==
    ASSUME Rules!RulesAssumption, RulesInv, CallsKept, NEW c \in ToolCalls, Rules!Decide(c)
    PROVE  CallsKept'
<1> DEFINE j    == toolCalls[c]
           answer == Rules!Evaluate(Rules!RulesFor(j.who), pinned, j.value, j.def,
                                  Rules!TotalOf(Rules!Standing), Rules!CountOf(Rules!Standing))
<1>1. j.pc = "hashed" /\ CallsOK(toolCalls) /\ CapsInv /\ DueInv
  BY DEF Rules!Decide, Rules!At, CallsKept
<1>2. \/ Rules!End(c)
      \/ \E by : /\ answer.decision = "allow" \/ answer.grantable
                 /\ by # "operator"
                 /\ \E k : VerdictsGiven(c, "allowed", by, k) /\ toolCalls' = [toolCalls EXCEPT ![c] = k]
      \/ /\ answer.decision = "ask"
         /\ \E k : VerdictsGiven(c, "asked", "nobody", k) /\ toolCalls' = [toolCalls EXCEPT ![c] = k]
  BY DEF Rules!Decide, VerdictsGiven, Rules!Nobody
<1>3. answer.decision \in {"ask", "allow"} \/ answer.grantable => Rules!RulesFor(j.who) = gate.rules /\ gate.rules # {}
  <2>1. Rules!RulesFor(j.who) = {} => answer.decision = "deny" /\ answer.grantable = FALSE
    BY DEF Rules!Evaluate, Rules!Unlisted
  <2> QED BY <2>1 DEF Rules!RulesFor
<1>4. PICK C, D : C = toolCalls /\ D = toolCalls'
  OBVIOUS
<1>5. CallsOK(D) /\ Keeps(C, D) /\ CapsInv'
  <2>1. ASSUME NEW k, RuledOK(k), Narrower(j, k), Lasting(j, k), toolCalls' = [toolCalls EXCEPT ![c] = k]
        PROVE  CallsOK(D) /\ Keeps(C, D) /\ CapsInv'
    <3>1. CallsOK(D) /\ Keeps(C, D) /\ Shrinks(C, D)
      BY <1>1, <1>4, <2>1, RuleCallMoves
    <3>2. ASSUME NEW r, RuleSet({r}) PROVE WithinCaps(D, r)
      <4>1. WithinCaps(C, r) /\ CallsOK(C)
        BY <1>1, <1>4, <3>2 DEF CapsInv
      <4> QED BY <3>1, <3>2, <4>1, FewerInCaps
    <3> QED BY <1>4, <3>1, <3>2 DEF CapsInv
  <2>2. CASE Rules!End(c)
    <3>1. PICK k : k = Rules!Ended(c \in Rules!Standing /\ Rules!Negative(c)) /\ toolCalls' = [toolCalls EXCEPT ![c] = k]
      BY <2>2 DEF Rules!End
    <3>2. RuledOK(k) /\ Narrower(j, k) /\ Lasting(j, k)
      BY <1>1, <3>1, EndedCall
    <3> QED BY <2>1, <3>1, <3>2
  <2>3. ASSUME answer.decision = "ask",
               NEW k, VerdictsGiven(c, "asked", "nobody", k), toolCalls' = [toolCalls EXCEPT ![c] = k]
        PROVE  CallsOK(D) /\ Keeps(C, D) /\ CapsInv'
    <3>1. RuledOK(k)
      BY <1>1, <1>3, <2>3, VerdictIsOK
    <3>2. k.pc = "asked"
      BY <2>3 DEF VerdictsGiven
    <3>3. Narrower(j, k) /\ Lasting(j, k)
      BY <1>1, <3>2 DEF Narrower, Lasting, RoomLeft, StandingPcs
    <3> QED BY <2>1, <2>3, <3>1, <3>3
  <2>4. ASSUME answer.decision = "allow" \/ answer.grantable, NEW by, by # "operator",
               NEW k, VerdictsGiven(c, "allowed", by, k), toolCalls' = [toolCalls EXCEPT ![c] = k]
        PROVE  CallsOK(D) /\ Keeps(C, D) /\ CapsInv'
    <3>1. PICK g : /\ RuleSet({g}) /\ k.under = {g} /\ RuledOK(k)
                   /\ k.amounts = Rules!CappedAmounts(g, k.value)
                   /\ ~Rules!Over(g, k.value, SumFunctionOnSet(ArgIn(toolCalls), Stand(toolCalls)),
                                  SumFunctionOnSet(CallsIn(toolCalls), Stand(toolCalls)))
      BY <1>1, <1>3, <2>4, VerdictIsOK
    <3>2. k.pc = "allowed" /\ k.by = by
      BY <2>4 DEF VerdictsGiven
    <3>3. Lasting(j, k)
      BY <1>1 DEF Lasting, StandingPcs
    <3>4. CallsOK(D) /\ Keeps(C, D)
      BY <1>1, <1>4, <2>4, <3>1, <3>3, RuleCallMoves
    <3>5. ASSUME NEW r, RuleSet({r}) PROVE WithinCaps(D, r)
      <4>1. /\ WithinCaps(C, r) /\ CallsOK(C) /\ C[c].pc \notin StandingPcs \cup {"over"}
            /\ D = [C EXCEPT ![c] = k]
            /\ ~Rules!Over(g, k.value, SumFunctionOnSet(ArgIn(C), Stand(C)), SumFunctionOnSet(CallsIn(C), Stand(C)))
        BY <1>1, <1>4, <2>4, <3>1, <3>5 DEF CapsInv, StandingPcs
      <4> QED BY <2>4, <3>1, <3>2, <3>5, <4>1, OneMoreInCaps
    <3> QED BY <1>4, <3>4, <3>5 DEF CapsInv
  <2> QED BY <1>2, <2>2, <2>3, <2>4
<1>6. ASSUME NEW x \in due' PROVE DueOK(x, C)
  <2>1. CASE x \in due
    BY <1>1, <1>4, <2>1 DEF DueInv
  <2>2. CASE x \notin due
    <3>1. PICK y \in candidate :
             /\ j.who \notin gate.limited
             /\ x = [call |-> c, cand |-> y, value |-> j.value, def |-> j.def,
                     live |-> [decision |-> answer.decision, why |-> answer.why],
                     alike |-> Rules!Policy(y.rules, y.pinned) = Rules!Policy(gate.rules, pinned),
                     seen |-> Rules!Standing,
                     uncounted |-> \E o \in Rules!Standing : toolCalls[o].under # gate.rules]
      BY <2>2, <1>6 DEF Rules!Decide
    <3>2. Rules!RulesFor(j.who) = gate.rules
      BY <3>1 DEF Rules!RulesFor
    <3>3. PICK v, d, k : v = j.value /\ d = j.def /\ k = answer
      OBVIOUS
    <3>4. k = Rules!Evaluate(gate.rules, pinned, v, d, Rules!TotalOf(Rules!Standing), Rules!CountOf(Rules!Standing))
      BY <3>2, <3>3
    <3>5. /\ x.call = c /\ x.cand = y /\ x.value = v /\ x.def = d /\ x.seen = Rules!Standing
          /\ x.live.decision = k.decision /\ x.live.why = k.why
          /\ x.alike = (Rules!Policy(y.rules, y.pinned) = Rules!Policy(gate.rules, pinned))
          /\ x.uncounted = (\E o \in Rules!Standing : toolCalls[o].under # gate.rules)
      BY <3>1, <3>3
    <3> HIDE DEF answer, j
    <3>6. NewlyDue(x, c)
      BY <3>4, <3>5 DEF NewlyDue
    <3>7. DueOK(x, toolCalls)
      BY <1>1, <3>6, NewDue DEF j
    <3> QED BY <1>4, <3>7
  <2> QED BY <2>1, <2>2
<1>7. ASSUME NEW x \in due' PROVE DueOK(x, toolCalls')
  <2>1. DueOK(x, C) /\ CallsOK(C)
    BY <1>1, <1>4, <1>6, <1>7
  <2>2. \A y : DueOK(y, C) => DueOK(y, D)
    BY <1>5, <2>1, DueKeeps
  <2> QED BY <1>4, <2>1, <2>2
<1> QED BY <1>4, <1>5, <1>7 DEF CallsKept, DueInv

-----------------------------------------------------------------------------
\* Rules that are accepted with a readable file, as they come into force.
LEMMA SettingRules ==
    ASSUME Rules!RulesAssumption, NEW s \in Settings, NEW f \in Rules!Files, NEW R, R = s.rules \/ R = s.shadow,
           Rules!RulesOk(R), Rules!Readable(R, f)
    PROVE  RuleSet(R) /\ Pinning(R, Rules!Reads(R, f))
<1>1. /\ s \in Rules!Setting /\ Rules!AtMostOne(s.rules) /\ Rules!AtMostOne(s.shadow)
      /\ \A r \in s.rules \cup s.shadow : Rules!AtMostOne(r.maxPerDay) /\ Rules!AtMostOne(r.maxCalls)
  BY DEF Rules!RulesAssumption
<1>2. R \subseteq Rules!Rule
  BY <1>1 DEF Rules!Setting
<1>3. RuleSet(R)
  BY <1>1, <1>2 DEF RuleSet
<1>4. Pinning(R, Rules!Reads(R, f))
  BY DEF Pinning, Rules!Reads, Rules!Readable, Rules!Files
<1> QED BY <1>3, <1>4

\* A candidate is such rules, and there is one.
LEMMA CandidateIsOK ==
    ASSUME Rules!RulesAssumption, NEW s \in Settings, NEW f \in Rules!Files, NEW x \in Rules!Candidate(s, f)
    PROVE  x.rules # {} /\ RuleSet(x.rules) /\ Pinning(x.rules, x.pinned)
<1>1. /\ x.rules = s.shadow /\ x.pinned = Rules!Reads(s.shadow, f) /\ s.shadow # {}
      /\ Rules!RulesOk(s.shadow) /\ Rules!Readable(s.shadow, f)
  BY DEF Rules!Candidate
<1> QED BY <1>1, SettingRules

\* The engine starts on accepted rules.
LEMMA StartsOK ==
    ASSUME Rules!RulesAssumption, NEW s \in Settings, NEW f \in Rules!Files, Rules!Starts(s, f)
    PROVE  RuleSet(s.rules) /\ Pinning(s.rules, Rules!Reads(s.rules, f))
<1>1. Rules!RulesOk(s.rules) /\ Rules!Readable(s.rules, f)
  BY DEF Rules!Starts, Rules!RulesOk, Rules!Readable
<1> QED BY <1>1, SettingRules

\* No call stands before the first.
LEMMA RulesInit ==
    ASSUME Rules!RulesAssumption, Rules!Init
    PROVE  RulesInv /\ CallsKept /\ Rules!NoFalseDifference
<1>1. PICK f \in Rules!Files : /\ Rules!Starts(gate, f) /\ pinned = Rules!Reads(gate.rules, f)
                               /\ candidate = Rules!Candidate(gate, f)
  BY DEF Rules!Init
<1>2. PICK s : s = gate
  OBVIOUS
<1>3. s \in Settings /\ Rules!Starts(s, f) /\ pinned = Rules!Reads(s.rules, f) /\ candidate = Rules!Candidate(s, f)
  BY <1>1, <1>2 DEF Rules!Init
<1>4. RulesInv
  BY <1>2, <1>3, StartsOK, CandidateIsOK DEF RulesInv
<1>5. toolCalls = [c \in ToolCalls |-> Rules!NoCall] /\ due = {} /\ diffs = {}
  BY DEF Rules!Init
<1>6. \A c \in ToolCalls : toolCalls[c].pc = "idle"
  BY <1>5 DEF Rules!NoCall
<1>7. Stand(toolCalls) = {} /\ \A r : Mine(toolCalls, r) = {}
  BY <1>6 DEF Stand, Mine, StandingPcs
<1>8. CallsOK(toolCalls)
  <2>1. IsFiniteSet({})
    BY FS_EmptySet
  <2>2. \A c \in ToolCalls : RuledOK(toolCalls[c])
    BY <1>6 DEF RuledOK, JudgedPcs, StandingPcs
  <2> QED BY <1>5, <1>7, <2>1, <2>2 DEF CallsOK
<1>9. CapsInv
  <2> SUFFICES ASSUME NEW r, RuleSet({r}) PROVE WithinCaps(toolCalls, r)
    BY DEF CapsInv
  <2>1. \A F : SumFunctionOnSet(F, {}) = 0
    <3>1. \A F : Summable(F, {})
      BY FS_EmptySet DEF Summable
    <3> QED BY <3>1, SumTakesOne
  <2>2. (\A m \in r.maxPerDay : m >= 0) /\ (\A m \in r.maxCalls : m >= 0)
    <3>1. Rules!RuleOk(r) /\ r.maxPerDay \subseteq Int /\ r.maxCalls \subseteq Int
      BY DEF RuleSet, Rules!RulesOk, Rules!Rule
    <3>2. (\A m \in r.maxCalls : m >= 1) /\ (\A m \in r.maxPerDay : m >= 0)
      BY <3>1 DEF Rules!RuleOk
    <3> QED BY <3>1, <3>2
  <2> QED BY <1>7, <2>1, <2>2 DEF WithinCaps
<1> QED BY <1>4, <1>5, <1>8, <1>9 DEF CallsKept, DueInv, Rules!NoFalseDifference

\* A step that leaves the calls alone.
LEMMA CallsStay ==
    ASSUME Rules!RulesAssumption, CallsKept, UNCHANGED toolCalls, due' \subseteq due
    PROVE  CallsKept'
<1>1. CallsOK(toolCalls) /\ CapsInv /\ DueInv /\ toolCalls' = toolCalls
  BY DEF CallsKept
<1>2. Shrinks(toolCalls, toolCalls') /\ Keeps(toolCalls, toolCalls')
  BY <1>1 DEF Shrinks, Narrower, Keeps, Lasting
<1> QED BY <1>1, <1>2, CallsShrink DEF CallsKept

\* The engine starts again: what was undecided ends, a consume begins anew.
LEMMA CallsRestart ==
    ASSUME Rules!RulesAssumption, CallsKept, Rules!Restart
    PROVE  CallsKept'
<1>1. CallsOK(toolCalls) /\ CapsInv /\ DueInv /\ due' = {}
  BY DEF CallsKept, Rules!Restart
<1>2. PICK C, D : C = toolCalls /\ D = toolCalls'
  OBVIOUS
<1>3. DOMAIN D = ToolCalls
  BY <1>2 DEF Rules!Restart
<1>4. ASSUME NEW c \in ToolCalls
      PROVE  RuledOK(D[c]) /\ Narrower(C[c], D[c]) /\ Lasting(C[c], D[c]) /\ (D[c].pc \in StandingPcs => C[c].pc \in StandingPcs)
  <2>1. D[c] = IF C[c].pc \in {"hashed", "asked"} THEN Rules!Ended(FALSE)
               ELSE IF C[c].pc \in {"checked"} THEN [C[c] EXCEPT !.pc = "allowed"] ELSE C[c]
    BY <1>2 DEF Rules!Restart, Rules!At
  <2>2. RuledOK(C[c])
    BY <1>1, <1>2 DEF CallsOK
  <2>3. CASE C[c].pc \in {"hashed", "asked"}
    <3>1. D[c].pc = "over" /\ D[c].room = FALSE
      BY <2>1, <2>3 DEF Rules!Ended
    <3> QED BY <2>3, <3>1 DEF RuledOK, Narrower, Lasting, RoomLeft, JudgedPcs, StandingPcs
  <2>4. CASE C[c].pc = "checked"
    <3>1. /\ C[c].pc \in JudgedPcs /\ C[c].pc \in StandingPcs /\ Judged(C[c])
          /\ "allowed" \in JudgedPcs /\ "allowed" \in StandingPcs
      BY <2>2, <2>4 DEF RuledOK, JudgedPcs, StandingPcs
    <3>2. PICK k, f : f = C[c].inForce /\ k = [C[c] EXCEPT !.pc = "allowed", !.by = C[c].by, !.inForce = f]
      OBVIOUS
    <3>3. D[c] = k
      BY <2>1, <2>4, <3>1, <3>2 DEF Judged
    <3>4. SameBut(toolCalls[c], k, "allowed", C[c].by, f)
      BY <1>2, <3>1, <3>2 DEF SameBut
    <3>5. RuledOK(k) /\ Narrower(toolCalls[c], k) /\ Lasting(toolCalls[c], k)
      BY <1>1, <1>2, <3>1, <3>4, SameCall
    <3> QED BY <1>2, <3>1, <3>3, <3>5
  <2>5. CASE C[c].pc \notin {"hashed", "asked", "checked"}
    <3>1. D[c] = C[c]
      BY <2>1, <2>5
    <3> QED BY <2>2, <3>1 DEF Narrower, Lasting
  <2> QED BY <2>3, <2>4, <2>5
<1>5. Shrinks(C, D) /\ Keeps(C, D)
  BY <1>4 DEF Shrinks, Keeps
<1>6. IsFiniteSet(Stand(D))
  <2>1. Stand(D) \subseteq Stand(C) /\ IsFiniteSet(Stand(C))
    BY <1>1, <1>2, <1>4 DEF Stand, CallsOK
  <2> QED BY <2>1, FS_Subset
<1>7. CallsOK(D)
  BY <1>3, <1>4, <1>6 DEF CallsOK
<1> QED BY <1>1, <1>2, <1>5, <1>7, CallsShrink DEF CallsKept

\* The rules in force are accepted ones, whatever is edited.
LEMMA RulesStayOK ==
    ASSUME Rules!RulesAssumption, RulesInv, [Rules!Next]_Rules!vars
    PROVE  RulesInv'
<1>1. CASE UNCHANGED <<gate, pinned, candidate>>
  BY <1>1 DEF RulesInv
<1>2. CASE Rules!Reload
  <2>1. PICK f \in Rules!Files, s \in Settings :
           /\ Rules!Readable(gate.rules, f) /\ pinned' = Rules!Reads(gate.rules, f)
           /\ candidate' = Rules!Candidate(s, f) /\ gate' = gate
    BY <1>2 DEF Rules!Reload
  <2>2. PICK g : g = gate
    OBVIOUS
  <2>3. Pinning(g.rules, Rules!Reads(g.rules, f))
    BY <2>1, <2>2 DEF Pinning, Rules!Reads, Rules!Readable, Rules!Files
  <2>4. \A x \in candidate' : x.rules # {} /\ RuleSet(x.rules) /\ Pinning(x.rules, x.pinned)
    BY <2>1, CandidateIsOK
  <2> QED BY <2>1, <2>2, <2>3, <2>4 DEF RulesInv
<1>3. CASE Rules!Restart
  <2>1. PICK f \in Rules!Files, s \in Settings :
           /\ Rules!Starts(s, f) /\ gate' = s /\ pinned' = Rules!Reads(s.rules, f)
           /\ candidate' = Rules!Candidate(s, f)
    BY <1>3 DEF Rules!Restart
  <2>2. RuleSet(s.rules) /\ Pinning(s.rules, Rules!Reads(s.rules, f))
    BY <2>1, StartsOK
  <2>3. \A x \in candidate' : x.rules # {} /\ RuleSet(x.rules) /\ Pinning(x.rules, x.pinned)
    BY <2>1, CandidateIsOK
  <2> QED BY <2>1, <2>2, <2>3 DEF RulesInv
<1>4. ASSUME NEW c \in ToolCalls,
             \/ Rules!Arrive(c) \/ Rules!OperatorDecides(c) \/ Rules!Look(c)
             \/ Rules!ConsumeStart(c) \/ Rules!Consume(c)
      PROVE  UNCHANGED <<gate, pinned, candidate>>
  <2>1. CASE Rules!Arrive(c) \/ Rules!OperatorDecides(c)
    BY <2>1 DEF Rules!Arrive, Rules!OperatorDecides
  <2>2. CASE Rules!Look(c) \/ Rules!ConsumeStart(c) \/ Rules!Consume(c)
    BY <2>2 DEF Rules!Look, Rules!ConsumeStart, Rules!Consume
  <2> QED BY <1>4, <2>1, <2>2
<1>5. ASSUME NEW c \in ToolCalls, Rules!Decide(c) PROVE UNCHANGED <<gate, pinned, candidate>>
  BY <1>5 DEF Rules!Decide
<1>6. ASSUME NEW x \in due, Rules!CompareShadow(x) PROVE UNCHANGED <<gate, pinned, candidate>>
  BY <1>6 DEF Rules!CompareShadow
<1>7. CASE Rules!Grant
  BY <1>1, <1>7 DEF Rules!Grant
<1>8. CASE UNCHANGED Rules!vars
  BY <1>1, <1>8 DEF Rules!vars
<1> QED BY <1>1, <1>2, <1>3, <1>4, <1>5, <1>6, <1>7, <1>8 DEF Rules!Next

\* The calls keep what they promise.
LEMMA CallsStayKept ==
    ASSUME Rules!RulesAssumption, RulesInv, CallsKept, [Rules!Next]_Rules!vars
    PROVE  CallsKept'
<1>1. ASSUME NEW c \in ToolCalls, Rules!Arrive(c) PROVE CallsKept'
  BY <1>1, CallArrives
<1>2. ASSUME NEW c \in ToolCalls, Rules!Decide(c) PROVE CallsKept'
  BY <1>2, CallIsJudged
<1>3. ASSUME NEW c \in ToolCalls,
             Rules!OperatorDecides(c) \/ Rules!Look(c) \/ Rules!ConsumeStart(c) \/ Rules!Consume(c)
      PROVE  CallsKept'
  BY <1>3, CallGoesOn
<1>4. ASSUME NEW x \in due, Rules!CompareShadow(x) PROVE CallsKept'
  <2>1. UNCHANGED toolCalls /\ due' \subseteq due
    BY <1>4 DEF Rules!CompareShadow
  <2> QED BY <2>1, CallsStay
<1>5. CASE Rules!Grant \/ Rules!Reload
  <2>1. UNCHANGED toolCalls /\ due' \subseteq due
    BY <1>5 DEF Rules!Grant, Rules!Reload
  <2> QED BY <2>1, CallsStay
<1>6. CASE Rules!Restart
  BY <1>6, CallsRestart
<1>7. CASE UNCHANGED Rules!vars
  <2>1. UNCHANGED toolCalls /\ due' \subseteq due
    BY <1>7 DEF Rules!vars
  <2> QED BY <2>1, CallsStay
<1> QED BY <1>1, <1>2, <1>3, <1>4, <1>5, <1>6, <1>7 DEF Rules!Next

\* A comparison of alike rules finds a difference only when something moved.
LEMMA ComparedTruly ==
    ASSUME Rules!RulesAssumption, CallsKept, NEW x \in due, Rules!CompareShadow(x), Rules!NoFalseDifference
    PROVE  Rules!NoFalseDifference'
<1> DEFINE answer == Rules!Evaluate(x.cand.rules, x.cand.pinned, x.value, x.def,
                                  Rules!TotalOf(Rules!Others(x.call)), Rules!Cardinality(Rules!Others(x.call)))
<1> SUFFICES ASSUME NEW d \in diffs' PROVE d.alike => d.moved \/ d.uncounted
  BY DEF Rules!NoFalseDifference
<1>1. CASE d \in diffs
  BY <1>1 DEF Rules!NoFalseDifference
<1>2. CASE d \notin diffs
  <2>1. /\ d.alike = x.alike /\ d.uncounted = x.uncounted
        /\ d.moved = (Rules!Standing \ {x.call} # x.seen)
        /\ ~Rules!Same(answer, x.live)
    BY <1>2 DEF Rules!CompareShadow
  <2>2. SUFFICES ASSUME x.alike, ~x.uncounted, Rules!Standing \ {x.call} = x.seen PROVE FALSE
    BY <2>1
  <2>3. CallsOK(toolCalls) /\ DueOK(x, toolCalls) /\ Rules!Others(x.call) = x.seen
    BY <2>2 DEF CallsKept, DueInv, Rules!Others
  <2>4. Rules!Standing = Stand(toolCalls)
    BY DEF Rules!Standing, Stand, StandingPcs
  <2>5. x.seen \in SUBSET Stand(toolCalls)
    BY <2>2, <2>4
  <2>6. Rules!TotalOf(x.seen) = SumFunctionOnSet(ArgIn(toolCalls), x.seen) /\ Rules!Cardinality(x.seen) = Cardinality(x.seen)
    BY <2>3, <2>5, RulesTotals
  <2>7. Rules!Same(Rules!Evaluate(x.cand.rules, x.cand.pinned, x.value, x.def,
                                  SumFunctionOnSet(ArgIn(toolCalls), x.seen), Cardinality(x.seen)), x.live)
    BY <2>2, <2>3, <2>5 DEF DueOK
  <2> QED BY <2>1, <2>3, <2>6, <2>7
<1> QED BY <1>1, <1>2

-----------------------------------------------------------------------------
RulesKept == RulesInv /\ CallsKept /\ Rules!NoFalseDifference

\* It is inductive.
LEMMA RulesStep ==
    ASSUME Rules!RulesAssumption, RulesKept, [Rules!Next]_(Rules!vars)
    PROVE  RulesKept'
<1>1. RulesInv' /\ CallsKept'
  BY RulesStayOK, CallsStayKept DEF RulesKept
<1>2. Rules!NoFalseDifference'
  <2>1. ASSUME NEW x \in due, Rules!CompareShadow(x) PROVE Rules!NoFalseDifference'
    BY <2>1, ComparedTruly DEF RulesKept
  <2>2. CASE UNCHANGED diffs
    BY <2>2 DEF RulesKept, Rules!NoFalseDifference
  <2>3. UNCHANGED diffs \/ \E x \in due : Rules!CompareShadow(x)
    BY DEF Rules!Next, Rules!vars, Rules!Arrive, Rules!Decide, Rules!OperatorDecides, Rules!Look,
           Rules!ConsumeStart, Rules!Consume, Rules!Grant, Rules!Reload, Rules!Restart
  <2> QED BY <2>1, <2>2, <2>3
<1> QED BY <1>1, <1>2 DEF RulesKept

\* What the rules let through is within their caps.
LEMMA SilentAreWithin ==
    ASSUME Rules!RulesAssumption, RulesKept
    PROVE  Rules!SilentStaysWithin
<1> DEFINE mine(r) == {c \in Rules!Silent : toolCalls[c].under = {r}}
           room == \E c \in ToolCalls : IF Rules!At(c, {"over"}) THEN toolCalls[c].room
                                        ELSE c \in Rules!Standing /\ Rules!Negative(c)
<1>1. CallsOK(toolCalls) /\ CapsInv /\ RulesInv
  BY DEF RulesKept, CallsKept
<1>2. Room(toolCalls) => room
  BY DEF Room, RoomLeft, Rules!At, Rules!Standing, Rules!Negative, StandingPcs
<1>3. ASSUME NEW r \in gate.rules
      PROVE  /\ \A m \in r.maxPerDay : room \/ Rules!TotalOf(mine(r)) <= m
             /\ \A m \in r.maxCalls : Rules!CountOf(mine(r)) <= m
  <2>1. RuleSet({r})
    BY <1>1 DEF RulesInv, RuleSet, Rules!AtMostOne, Rules!RulesOk
  <2>2. mine(r) = Mine(toolCalls, r)
    BY DEF Rules!Silent, Rules!Standing, Mine, Stand, StandingPcs
  <2>3. Mine(toolCalls, r) \in SUBSET Stand(toolCalls)
    BY DEF Mine
  <2>4. PICK S : S = mine(r)
    OBVIOUS
  <2>5. S \in SUBSET Stand(toolCalls) /\ S = Mine(toolCalls, r)
    BY <2>2, <2>3, <2>4
  <2>6. /\ Rules!TotalOf(S) = SumFunctionOnSet(ArgIn(toolCalls), S)
        /\ Rules!CountOf(S) = SumFunctionOnSet(CallsIn(toolCalls), S)
    BY <1>1, <2>5, RulesTotals
  <2>7. WithinCaps(toolCalls, r)
    BY <1>1, <2>1 DEF CapsInv
  <2> HIDE DEF mine, room
  <2> QED BY <1>2, <2>4, <2>5, <2>6, <2>7 DEF WithinCaps
<1> QED BY <1>3 DEF Rules!SilentStaysWithin

\* What runs unasked runs on the definition it was decided with.
LEMMA RunsOnPins ==
    ASSUME RulesKept
    PROVE  Rules!RunsOnItsDefinition
<1> SUFFICES ASSUME NEW c \in ToolCalls, toolCalls[c].pc = "consumed", toolCalls[c].by # "operator",
                    NEW r \in toolCalls[c].under, Rules!Pin(r, toolCalls[c].pin) # {},
                    Rules!Policy(toolCalls[c].under, toolCalls[c].pin) = toolCalls[c].policy
             PROVE  toolCalls[c].def \in toolCalls[c].inForce
  BY DEF Rules!RunsOnItsDefinition, Rules!At
<1>1. PICK k : k = toolCalls[c]
  OBVIOUS
<1>2. RuledOK(k) /\ k.pc \in JudgedPcs /\ k.pc \in StandingPcs /\ k.pc \in {"checked", "consumed"}
  BY <1>1 DEF RulesKept, CallsKept, CallsOK, JudgedPcs, StandingPcs
<1>3. k.under = {r} /\ JudgedBy(k, r)
  BY <1>1, <1>2 DEF RuledOK, JudgedBy
<1>4. RuleSet({r}) /\ Pinning({r}, k.pin) /\ ~Rules!Mismatch(r, k.pin, k.value, k.def)
  BY <1>1, <1>2, <1>3 DEF JudgedBy
<1>5. k.inForce = Rules!Pin(r, k.pin)
  <2>1. k.inForce = UNION {x.hash : x \in Rules!Policy({r}, k.pin)}
    BY <1>1, <1>2, <1>3 DEF RuledOK
  <2>2. UNION {x.hash : x \in Rules!Policy({r}, k.pin)} = UNION {Rules!Pin(w, k.pin) : w \in {r}}
    BY <1>4, PolicyPins
  <2>3. UNION {Rules!Pin(w, k.pin) : w \in {r}} = Rules!Pin(r, k.pin)
    OBVIOUS
  <2> QED BY <2>1, <2>2, <2>3
<1>6. k.def \in Rules!Pin(r, k.pin)
  <2>1. Rules!MatchToolDefinition(r, k.pin, k.def)
    BY <1>4 DEF Rules!Mismatch
  <2>2. ~(r.hash # {} /\ r.definitionFile)
    BY <1>4 DEF RuleSet, Rules!RulesOk, Rules!RuleOk
  <2> QED BY <1>1, <2>1, <2>2 DEF Rules!MatchToolDefinition, Rules!Pin
<1> QED BY <1>1, <1>5, <1>6

\* A high-risk tool is never let through unasked.
LEMMA HighRiskAsked ==
    ASSUME RisksArePlain, RulesKept
    PROVE  Rules!HighRiskIsAsked
<1> SUFFICES ASSUME NEW c \in Rules!Silent, NEW r \in toolCalls[c].under PROVE Rules!RiskOf(r) # "high"
  BY DEF Rules!HighRiskIsAsked
<1>1. /\ c \in ToolCalls /\ RuledOK(toolCalls[c]) /\ toolCalls[c].by # "operator"
      /\ toolCalls[c].pc \in StandingPcs /\ toolCalls[c].pc \in JudgedPcs
  BY DEF RulesKept, CallsKept, CallsOK, Rules!Silent, Rules!Standing, JudgedPcs, StandingPcs
<1> QED BY <1>1 DEF RuledOK, JudgedBy

\* Under rules that change by reloads of the definition file and by restarts, what
\* they let through unasked stays within their caps, and runs on the definition it
\* was decided with (tool_policy.go, hashToolPolicy, actionResponse); when no risk is
\* written with spaces around it, it is of no high-risk tool (validate.go:826).
THEOREM SilentCallsAreCovered ==
    ASSUME Rules!RulesAssumption
    PROVE  Rules!Spec => [](/\ Rules!SilentStaysWithin /\ Rules!RunsOnItsDefinition
                            /\ RisksArePlain => Rules!HighRiskIsAsked /\ SilentIsCovered)
<1>1. Rules!Init => RulesKept
  BY RulesInit DEF RulesKept
<1>2. RulesKept /\ [Rules!Next]_(Rules!vars) => RulesKept'
  BY RulesStep
<1>3. RulesKept => /\ Rules!SilentStaysWithin /\ Rules!RunsOnItsDefinition
                   /\ RisksArePlain => Rules!HighRiskIsAsked
  BY SilentAreWithin, RunsOnPins, HighRiskAsked
<1>4. (/\ Rules!SilentStaysWithin /\ Rules!RunsOnItsDefinition
       /\ (RisksArePlain => Rules!HighRiskIsAsked))
        => (RisksArePlain => SilentIsCovered)
  BY DEF SilentIsCovered
<1> QED BY <1>1, <1>2, <1>3, <1>4, PTL DEF Rules!Spec

\* A candidate that has the live rules differs from them only on a call beside
\* which another was decided, or allowed under other rules (gate_shadow.go).
THEOREM DifferencesAreReal ==
    ASSUME Rules!RulesAssumption
    PROVE  Rules!Spec => [](Rules!NoFalseDifference /\ NoFalseDifference)
<1>1. Rules!Init => RulesKept
  BY RulesInit DEF RulesKept
<1>2. RulesKept /\ [Rules!Next]_(Rules!vars) => RulesKept'
  BY RulesStep
<1>3. RulesKept => Rules!NoFalseDifference /\ NoFalseDifference
  BY DEF RulesKept, NoFalseDifference
<1> QED BY <1>1, <1>2, <1>3, PTL DEF Rules!Spec
=============================================================================
