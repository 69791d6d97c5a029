---------------------------- MODULE DesignProofs ----------------------------
(***************************************************************************)
(* Proofs about Design: the register allocator of the design never gives   *)
(* two live values one place, never loses a register, and spills what ends *)
(* last; and the three passes leave a block that does what it did.  Each   *)
(* for every block, pool and frontend, and every width of words.           *)
(***************************************************************************)
EXTENDS Design, ArithFacts, FiniteSetTheorems

-----------------------------------------------------------------------------
(* The loops of the passes and of expire_old.                              *)

(* One turn of the loop of that name, in state s, with the next element x. *)
(* data is what else the loop knows: the ops, or the start of an interval. *)
Turn(loop, data, s, x) ==
  CASE loop = "fold"      -> FoldStep(s, x)
    [] loop = "eliminate" -> EliminateStep(s, x)
    [] loop = "flags"     -> IF Keeps(data, x) THEN Append(s, data[x]) ELSE s
    [] loop = "hop"       -> IF s \in DOMAIN data THEN data[s] ELSE s
    [] loop = "run"       -> IF s.left THEN s ELSE DesignExec(x, s)
    [] loop = "expire"    -> ExpireTurn(s, data)

(* The states before and after each turn.                                  *)
Turns(loop, data, first, seq, n, g) ==
  g = [j \in 0..n |-> IF j = 0 THEN first ELSE Turn(loop, data, g[j - 1], seq[j])]

LEMMA LoopTurns ==
  ASSUME NEW loop, NEW data, NEW first, NEW seq, NEW n \in Nat
  PROVE  \E g : Turns(loop, data, first, seq, n, g)
<1> DEFINE Go(s, j) == Turn(loop, data, s, seq[j])
           Is(m, g) == g = [j \in 0..m |-> IF j = 0 THEN first ELSE Go(g[j - 1], j)]
           T == {m \in Nat : \E g : Is(m, g)}
<1> HIDE DEF Go
<1>1. 0 \in T
  <2>1. Is(0, [j \in 0..0 |-> first])
    OBVIOUS
  <2> QED
    BY <2>1
<1>2. ASSUME NEW m \in Nat, m \in T
      PROVE  m + 1 \in T
  <2>1. PICK g : Is(m, g)
    BY <1>2
  <2> DEFINE h == [j \in 0..(m + 1) |-> IF j = m + 1 THEN Go(g[m], m + 1) ELSE g[j]]
  <2>2. \A j \in 0..m : g[j] = IF j = 0 THEN first ELSE Go(g[j - 1], j)
    BY <2>1
  <2>3. ASSUME NEW j \in 0..(m + 1)
        PROVE  h[j] = IF j = 0 THEN first ELSE Go(h[j - 1], j)
    <3>1. CASE j = m + 1
      <4>1. h[j] = Go(g[m], m + 1) /\ h[j - 1] = g[m] /\ j # 0
        BY <3>1
      <4> QED
        BY <3>1, <4>1
    <3>2. CASE j # m + 1
      <4>1. h[j] = g[j] /\ j \in 0..m /\ (j # 0 => h[j - 1] = g[j - 1])
        BY <3>2
      <4> QED
        BY <2>2, <4>1
    <3> QED
      BY <3>1, <3>2
  <2>4. Is(m + 1, h)
    <3>1. h = [j \in 0..(m + 1) |-> h[j]]
      OBVIOUS
    <3> HIDE DEF h
    <3> QED
      BY <2>3, <3>1
  <2> HIDE DEF h, Is
  <2> QED
    BY <2>4
<1>3. n \in T
  BY <1>1, <1>2, SetInduction
<1> QED
  BY <1>3 DEF Turns, Go

LEMMA TurnsAt ==
  ASSUME NEW loop, NEW data, NEW first, NEW seq, NEW n \in Nat,
         NEW g, Turns(loop, data, first, seq, n, g)
  PROVE  /\ g[0] = first
         /\ \A j \in 1..n : g[j] = Turn(loop, data, g[j - 1], seq[j])
<1>1. \A j \in 0..n : g[j] = IF j = 0 THEN first ELSE Turn(loop, data, g[j - 1], seq[j])
  BY DEF Turns
<1> QED
  BY <1>1

(* What the first state has and each turn keeps, the last state has.       *)
LEMMA TurnsKeep ==
  ASSUME NEW loop, NEW data, NEW first, NEW seq, NEW n \in Nat,
         NEW g, Turns(loop, data, first, seq, n, g),
         NEW S, first \in S,
         \A j \in 1..n : g[j - 1] \in S => Turn(loop, data, g[j - 1], seq[j]) \in S
  PROVE  g[n] \in S
<1> DEFINE U == {j \in Nat : j <= n => g[j] \in S}
<1>1. /\ g[0] = first
      /\ \A j \in 1..n : g[j] = Turn(loop, data, g[j - 1], seq[j])
  BY TurnsAt
<1>2. 0 \in U
  BY <1>1
<1>3. ASSUME NEW j \in Nat, j \in U
      PROVE  j + 1 \in U
  <2>1. j + 1 <= n => g[j + 1] = Turn(loop, data, g[j], seq[j + 1])
    BY <1>1
  <2> QED
    BY <1>3, <2>1
<1>4. n \in U
  BY <1>2, <1>3, SetInduction
<1> QED
  BY <1>4

-----------------------------------------------------------------------------
(* What the passes leave is a sequence, whatever the ops are.              *)

FoldShape(s) == DOMAIN s = {"ops", "constants"} /\ IsSeq(s.ops)

LEMMA FoldStepShape ==
  ASSUME NEW s, FoldShape(s), NEW op
  PROVE  FoldShape(FoldStep(s, op))
<1> DEFINE known == WithArgs(op, LAMBDA a : resolve_const(a, s.constants))
           x == fold_binary(op.kind.name, op.kind.bits, known.args[1], known.args[2])
           folded == op.kind.name \in aluNames /\ {known.args[1], known.args[2]} \subseteq Imm
           last == [known EXCEPT !.args = <<x, 0>>]
           rest == Insert(s.constants, op.dst, x)
           others == Removed(s.constants, op.dst)
<1>1. FoldStep(s, op) = IF folded THEN [ops |-> Append(s.ops, last), constants |-> rest]
                        ELSE [ops |-> Append(s.ops, known), constants |-> others]
  BY DEF FoldStep
<1> HIDE DEF known, x, folded, last, rest, others
<1>2. IsSeq(Append(s.ops, last)) /\ IsSeq(Append(s.ops, known))
  BY AppendIsSeq DEF FoldShape
<1> QED
  BY <1>1, <1>2 DEF FoldShape

LEMMA ConstantFoldIsSeq ==
  ASSUME NEW b, Len(b) \in Nat
  PROVE  IsSeq(constant_fold(b))
<1> DEFINE first == [ops |-> <<>>, constants |-> <<>>]
           c == CHOOSE g : g = [j \in 0..Len(b) |->
                                  IF j = 0 THEN first
                                  ELSE LET s == g[j - 1] IN FoldStep(s, b[j])]
           S == {s \in {c[j] : j \in 0..Len(b)} : FoldShape(s)}
<1>1. constant_fold(b) = c[Len(b)].ops
  BY DEF constant_fold, Sweep
<1>2. PICK g : Turns("fold", b, first, b, Len(b), g)
  BY LoopTurns
<1>3. Turns("fold", b, first, b, Len(b), c)
  BY <1>2 DEF Turns, Turn
<1> HIDE DEF c, first
<1>4. /\ c[0] = first
      /\ \A j \in 1..Len(b) : c[j] = Turn("fold", b, c[j - 1], b[j])
  BY <1>3, TurnsAt
<1>5. first \in S
  <2>1. IsSeq(<<>>)
    BY EmptySeq, SeqIsSeq
  <2> QED
    BY <1>4, <2>1 DEF FoldShape, first
<1>6. ASSUME NEW j \in 1..Len(b), c[j - 1] \in S
      PROVE  Turn("fold", b, c[j - 1], b[j]) \in S
  <2>1. Turn("fold", b, c[j - 1], b[j]) = FoldStep(c[j - 1], b[j])
    BY DEF Turn
  <2> QED
    BY <1>4, <1>6, <2>1, FoldStepShape
<1> HIDE DEF S
<1>7. c[Len(b)] \in S
  BY <1>3, <1>5, <1>6, TurnsKeep
<1> QED
  BY <1>1, <1>7 DEF S, FoldShape

EliminateShape(s) == DOMAIN s = {"ops", "loads", "stores", "subst"} /\ IsSeq(s.ops)

(* Each branch adds the op or leaves it out.                               *)
LEMMA EliminateStepShape ==
  ASSUME NEW s, EliminateShape(s), NEW op
  PROVE  EliminateShape(EliminateStep(s, op))
<1> DEFINE known == WithArgs(op, LAMBDA a : resolve_substitution(a, s.subst))
<1>1. IsSeq(Append(s.ops, known))
  BY AppendIsSeq DEF EliminateShape
<1>2. EliminateStep(s, op) \in {LoadStep(s, known), StoreStep(s, known), Forget(s, known),
                                [s EXCEPT !.ops = Append(@, known)]}
  BY DEF EliminateStep
<1> HIDE DEF known
<1>3. EliminateShape(Forget(s, known))
  BY <1>1 DEF EliminateShape, Forget
<1>4. EliminateShape(StoreStep(s, known))
  BY <1>1, <1>3 DEF EliminateShape, StoreStep
<1>5. EliminateShape(LoadStep(s, known))
  BY <1>1 DEF EliminateShape, LoadStep
<1>6. EliminateShape([s EXCEPT !.ops = Append(@, known)])
  BY <1>1 DEF EliminateShape
<1> QED
  BY <1>2, <1>3, <1>4, <1>5, <1>6

LEMMA EliminationIsSeq ==
  ASSUME NEW b, Len(b) \in Nat
  PROVE  IsSeq(redundant_load_elimination(b))
<1> DEFINE first == [ops |-> <<>>, loads |-> {}, stores |-> {}, subst |-> <<>>]
           c == CHOOSE g : g = [j \in 0..Len(b) |->
                                  IF j = 0 THEN first
                                  ELSE LET s == g[j - 1] IN EliminateStep(s, b[j])]
           S == {s \in {c[j] : j \in 0..Len(b)} : EliminateShape(s)}
<1>1. redundant_load_elimination(b) = c[Len(b)].ops
  BY DEF redundant_load_elimination, Sweep
<1>2. PICK g : Turns("eliminate", b, first, b, Len(b), g)
  BY LoopTurns
<1>3. Turns("eliminate", b, first, b, Len(b), c)
  BY <1>2 DEF Turns, Turn
<1> HIDE DEF c, first
<1>4. /\ c[0] = first
      /\ \A j \in 1..Len(b) : c[j] = Turn("eliminate", b, c[j - 1], b[j])
  BY <1>3, TurnsAt
<1>5. first \in S
  <2>1. IsSeq(<<>>)
    BY EmptySeq, SeqIsSeq
  <2> QED
    BY <1>4, <2>1 DEF EliminateShape, first
<1>6. ASSUME NEW j \in 1..Len(b), c[j - 1] \in S
      PROVE  Turn("eliminate", b, c[j - 1], b[j]) \in S
  <2>1. Turn("eliminate", b, c[j - 1], b[j]) = EliminateStep(c[j - 1], b[j])
    BY DEF Turn
  <2> QED
    BY <1>4, <1>6, <2>1, EliminateStepShape
<1> HIDE DEF S
<1>7. c[Len(b)] \in S
  BY <1>3, <1>5, <1>6, TurnsKeep
<1> QED
  BY <1>1, <1>7 DEF S, EliminateShape

LEMMA DeadFlagsIsSeq ==
  ASSUME NEW b, IsSeq(b)
  PROVE  IsSeq(dead_flag_elimination(b))
<1> DEFINE positions == [n \in DOMAIN b |-> n]
           c == CHOOSE g : g = [j \in 0..Len(positions) |->
                                  IF j = 0 THEN <<>>
                                  ELSE LET s == g[j - 1]
                                       IN  IF Keeps(b, positions[j])
                                           THEN Append(s, b[positions[j]]) ELSE s]
           S == {s \in {c[j] : j \in 0..Len(positions)} : IsSeq(s)}
<1>1. dead_flag_elimination(b) = c[Len(positions)]
  BY DEF dead_flag_elimination, Sweep
<1>2. Len(positions) \in Nat
  <2>1. Len(b) \in Nat /\ DOMAIN b = 1..Len(b)
    BY LenProperties DEF IsSeq
  <2>2. positions \in Seq(Nat)
    BY <2>1
  <2> QED
    BY <2>2, LenProperties
<1> HIDE DEF positions
<1>3. PICK g : Turns("flags", b, <<>>, positions, Len(positions), g)
  BY <1>2, LoopTurns
<1>4. Turns("flags", b, <<>>, positions, Len(positions), c)
  BY <1>3 DEF Turns, Turn
<1> HIDE DEF c
<1>5. /\ c[0] = <<>>
      /\ \A j \in 1..Len(positions) : c[j] = Turn("flags", b, c[j - 1], positions[j])
  BY <1>2, <1>4, TurnsAt
<1>6. <<>> \in S
  <2>1. IsSeq(<<>>)
    BY EmptySeq, SeqIsSeq
  <2> QED
    BY <1>2, <1>5, <2>1
<1>7. ASSUME NEW j \in 1..Len(positions), c[j - 1] \in S
      PROVE  Turn("flags", b, c[j - 1], positions[j]) \in S
  <2>1. Turn("flags", b, c[j - 1], positions[j]) \in
          {c[j - 1], Append(c[j - 1], b[positions[j]])}
    BY DEF Turn
  <2>2. IsSeq(c[j - 1]) /\ IsSeq(Append(c[j - 1], b[positions[j]]))
    BY <1>7, AppendIsSeq
  <2>3. j \in 0..Len(positions) /\ c[j] = Turn("flags", b, c[j - 1], positions[j])
    BY <1>2, <1>5
  <2> QED
    BY <2>1, <2>2, <2>3
<1> HIDE DEF S
<1>8. c[Len(positions)] \in S
  BY <1>2, <1>4, <1>6, <1>7, TurnsKeep
<1> QED
  BY <1>1, <1>8 DEF S

LEMMA OptimisedIsSeq ==
  ASSUME NEW b, IsSeq(b)
  PROVE  IsSeq(run_all(b))
<1>1. ASSUME NEW s, IsSeq(s) PROVE Len(s) \in Nat
  BY <1>1, LenProperties DEF IsSeq
<1>2. IsSeq(constant_fold(b))
  BY <1>1, ConstantFoldIsSeq
<1>3. IsSeq(redundant_load_elimination(constant_fold(b)))
  BY <1>1, <1>2, EliminationIsSeq
<1> QED
  BY <1>3, DeadFlagsIsSeq DEF run_all

-----------------------------------------------------------------------------
(* Sorting.                                                                *)

(* R is a strict total order of S.                                         *)
Orders(R, S) ==
  /\ \A x \in S : <<x, x>> \notin R
  /\ \A x, y, z \in S : <<x, y>> \in R /\ <<y, z>> \in R => <<x, z>> \in R
  /\ \A x, y \in S : x = y \/ <<x, y>> \in R \/ <<y, x>> \in R

(* Each place is taken by the element with as many before it.              *)
Ranked(q, R, S) ==
  q = [n \in 1..Cardinality(S) |->
         CHOOSE x \in S : Cardinality({y \in S : <<y, x>> \in R}) = n - 1]

LEMMA RanksFill ==
  ASSUME NEW S, IsFiniteSet(S), NEW R, Orders(R, S), NEW q, Ranked(q, R, S)
  PROVE  /\ q \in [1..Cardinality(S) -> S]
         /\ \A n, j \in 1..Cardinality(S) : n < j => <<q[n], q[j]>> \in R
         /\ \A x \in S : \E n \in 1..Cardinality(S) : q[n] = x
<1> DEFINE N == Cardinality(S)
           Before(x) == {y \in S : <<y, x>> \in R}
           rank == [x \in S |-> Cardinality(Before(x)) + 1]
<1>1. N \in Nat
  BY FS_CardinalityType
<1>2. ASSUME NEW x \in S
      PROVE  /\ IsFiniteSet(Before(x))
             /\ Cardinality(Before(x)) \in Nat
             /\ Cardinality(Before(x)) < N
  <2>1. Before(x) \in SUBSET S /\ Before(x) # S
    BY DEF Orders
  <2>2. /\ IsFiniteSet(Before(x))
        /\ Cardinality(Before(x)) <= N
        /\ N = Cardinality(Before(x)) => S = Before(x)
    BY <2>1, FS_Subset
  <2>3. Cardinality(Before(x)) \in Nat
    BY <2>2, FS_CardinalityType
  <2> QED
    BY <1>1, <2>1, <2>2, <2>3
<1>3. ASSUME NEW x \in S, NEW y \in S, <<x, y>> \in R
      PROVE  Cardinality(Before(x)) < Cardinality(Before(y))
  <2>1. Before(x) \in SUBSET Before(y)
    BY <1>3 DEF Orders
  <2>2. x \in Before(y) /\ x \notin Before(x)
    BY <1>3 DEF Orders
  <2>3. /\ Cardinality(Before(x)) <= Cardinality(Before(y))
        /\ Cardinality(Before(y)) = Cardinality(Before(x)) => Before(y) = Before(x)
    BY <1>2, <2>1, FS_Subset
  <2>4. Cardinality(Before(x)) \in Nat /\ Cardinality(Before(y)) \in Nat
    BY <1>2
  <2> HIDE DEF Before
  <2> QED
    BY <2>2, <2>3, <2>4
<1> HIDE DEF Before, N
<1>4. rank \in [S -> 1..N] /\ \A x \in S : rank[x] = Cardinality(Before(x)) + 1
  BY <1>1, <1>2
<1> HIDE DEF rank
<1>5. ASSUME NEW x \in S, NEW y \in S, rank[x] = rank[y]
      PROVE  x = y
  <2>1. Cardinality(Before(x)) = Cardinality(Before(y))
    BY <1>2, <1>4, <1>5
  <2>2. <<x, y>> \notin R /\ <<y, x>> \notin R
    BY <1>2, <1>3, <2>1
  <2> QED
    BY <2>2 DEF Orders
<1>6. \A n \in 1..N : \E x \in S : rank[x] = n
  <2>1. rank \in Injection(S, 1..N)
    BY <1>4, <1>5 DEF Injection, IsInjective
  <2>2. IsFiniteSet(1..N) /\ Cardinality(1..N) = N
    BY <1>1, FS_Interval
  <2>3. rank \in Surjection(S, 1..N)
    BY <2>1, <2>2, FS_Injection DEF N
  <2> QED
    BY <2>3 DEF Surjection
<1>7. ASSUME NEW n \in 1..N
      PROVE  q[n] \in S /\ rank[q[n]] = n
  <2>1. q[n] = CHOOSE x \in S : Cardinality(Before(x)) = n - 1
    BY DEF Before, N, Ranked
  <2>2. PICK x \in S : rank[x] = n
    BY <1>6
  <2>3. Cardinality(Before(x)) = n - 1
    BY <1>2, <1>4, <2>2
  <2>4. q[n] \in S /\ Cardinality(Before(q[n])) = n - 1
    BY <2>1, <2>3
  <2> QED
    BY <1>1, <1>4, <2>4
<1>8. q \in [1..N -> S]
  <2> DEFINE e(n) == CHOOSE x \in S : Cardinality({y \in S : <<y, x>> \in R}) = n - 1
  <2>1. q = [n \in 1..N |-> e(n)]
    BY DEF N, Ranked
  <2> HIDE DEF e
  <2>2. \A n \in 1..N : e(n) = q[n]
    BY <2>1
  <2> QED
    BY <1>7, <2>1, <2>2
<1>9. ASSUME NEW n \in 1..N, NEW j \in 1..N, n < j
      PROVE  <<q[n], q[j]>> \in R
  <2>1. q[n] # q[j]
    <3>1. rank[q[n]] = n /\ rank[q[j]] = j
      BY <1>7
    <3>2. n # j
      BY <1>1, <1>9
    <3> QED
      BY <3>1, <3>2
  <2>2. <<q[j], q[n]>> \notin R
    <3> SUFFICES ASSUME <<q[j], q[n]>> \in R PROVE FALSE
      OBVIOUS
    <3>1. Cardinality(Before(q[j])) < Cardinality(Before(q[n]))
      BY <1>3, <1>7
    <3>2. rank[q[j]] = Cardinality(Before(q[j])) + 1 /\ rank[q[n]] = Cardinality(Before(q[n])) + 1
      BY <1>4, <1>7
    <3>3. /\ Cardinality(Before(q[j])) \in Nat /\ Cardinality(Before(q[n])) \in Nat
          /\ rank[q[j]] = j /\ rank[q[n]] = n
      BY <1>2, <1>7
    <3> QED
      BY <1>9, <3>1, <3>2, <3>3
  <2> QED
    BY <1>7, <2>1, <2>2 DEF Orders
<1>10. ASSUME NEW x \in S
       PROVE  \E n \in 1..N : q[n] = x
  <2>1. rank[x] \in 1..N
    BY <1>4
  <2>2. q[rank[x]] \in S /\ rank[q[rank[x]]] = rank[x]
    BY <1>7, <2>1
  <2>3. q[rank[x]] = x
    BY <1>5, <2>2
  <2> QED
    BY <2>1, <2>3
<1> QED
  BY <1>8, <1>9, <1>10 DEF N

(* What linear_scan goes through: each virtual register once, by starts.   *)
ByStart(ivs) ==
  /\ ivs \in Seq(Interval)
  /\ \A n, j \in 1..Len(ivs) : n < j => ivs[n].start <= ivs[j].start
  /\ \A n, j \in 1..Len(ivs) : ivs[n].vreg = ivs[j].vreg => n = j

LEMMA LeastOf ==
  ASSUME NEW S \in SUBSET Nat, S # {}
  PROVE  Min(S) \in S
<1>1. PICK x \in S : \A y \in S : x <= y
  BY LeastElement
<1> QED
  BY <1>1 DEF Min

LEMMA GreatestOf ==
  ASSUME NEW n \in Nat, NEW S \in SUBSET (1..n), S # {}
  PROVE  Max(S) \in S
<1> DEFINE T == {n - x : x \in S}
<1>1. T \in SUBSET Nat /\ T # {}
  <2>1. \A x \in S : n - x \in Nat
    OBVIOUS
  <2>2. \E x : x \in S
    OBVIOUS
  <2> QED
    BY <2>1, <2>2
<1>2. PICK t \in T : \A y \in T : t <= y
  BY <1>1, LeastElement
<1>3. PICK x \in S : t = n - x
  BY <1>2
<1>4. ASSUME NEW y \in S
      PROVE  x >= y
  <2>1. n - y \in T
    OBVIOUS
  <2>2. n - x <= n - y
    BY <1>2, <1>3, <2>1
  <2> QED
    BY <2>2
<1> QED
  BY <1>4 DEF Max

LEMMA IntervalsByStart ==
  ASSUME NEW b, IsSeq(b)
  PROVE  ByStart(compute_intervals(b))
<1> DEFINE S == {IntervalOf(b, v) : v \in {u \in VReg : Defs(b, u) \cup Uses(b, u) # {}}}
           R == {p \in S \X S : StartsBefore(p[1], p[2])}
           q == compute_intervals(b)
<1>1. Len(b) \in Nat /\ DOMAIN b = 1..Len(b)
  BY LenProperties DEF IsSeq
<1>2. ASSUME NEW v \in VReg, Defs(b, v) \cup Uses(b, v) # {}
      PROVE  IntervalOf(b, v) \in [vreg : {v}, start : Nat, end : Nat]
  <2> DEFINE start == IF Defs(b, v) # {} THEN Min(Defs(b, v)) ELSE Min(Uses(b, v))
             end == IF Uses(b, v) # {} THEN Max(Uses(b, v)) ELSE start
  <2>1. Defs(b, v) \in SUBSET (1..Len(b)) /\ Uses(b, v) \in SUBSET (1..Len(b))
    BY <1>1 DEF Defs, Uses
  <2>2. 1..Len(b) \subseteq Nat
    BY <1>1
  <2>3. /\ Defs(b, v) # {} => Min(Defs(b, v)) \in Nat
        /\ Uses(b, v) # {} => Min(Uses(b, v)) \in Nat
    BY <2>1, <2>2, LeastOf
  <2>4. Uses(b, v) # {} => Max(Uses(b, v)) \in Nat
    <3>1. Uses(b, v) # {} => Max(Uses(b, v)) \in Uses(b, v)
      BY <1>1, <2>1, GreatestOf
    <3> QED
      BY <2>1, <2>2, <3>1
  <2>5. IntervalOf(b, v) = [vreg |-> v, start |-> start, end |-> end]
    BY DEF IntervalOf
  <2> QED
    BY <1>2, <2>3, <2>4, <2>5
<1>3. S \subseteq [vreg : VReg, start : Nat, end : Nat]
  BY <1>2
<1>4. \A x, y \in S : x.vreg = y.vreg => x = y
  BY <1>2
<1>5. IsFiniteSet(S)
  <2> DEFINE Of == [x \in S |-> x.vreg]
  <2> HIDE DEF S
  <2>1. Of \in Injection(S, VReg)
    BY <1>3, <1>4 DEF Injection, IsInjective
  <2> QED
    BY <2>1, FS_Injection, DesignAssumption
<1> HIDE DEF S
<1>6. \A x \in S : x.vreg \in Nat /\ x.start \in Nat /\ x.end \in Nat
  BY <1>3, DesignAssumption
<1>7. Orders(R, S)
  <2>2. \A x, y \in S : <<x, y>> \in R <=> StartsBefore(x, y)
    OBVIOUS
  <2> HIDE DEF R
  <2>3. \A x \in S : ~StartsBefore(x, x)
    BY <1>6 DEF StartsBefore
  <2>4. \A x, y, z \in S : StartsBefore(x, y) /\ StartsBefore(y, z) => StartsBefore(x, z)
    BY <1>6 DEF StartsBefore
  <2>5. \A x, y \in S : x = y \/ StartsBefore(x, y) \/ StartsBefore(y, x)
    BY <1>4, <1>6 DEF StartsBefore
  <2> QED
    BY <2>2, <2>3, <2>4, <2>5 DEF Orders
<1>8. Ranked(q, R, S)
  <2>1. q = [n \in 1..Cardinality(S) |->
               CHOOSE x \in S : Cardinality({y \in S : StartsBefore(y, x)}) = n - 1]
    BY DEF compute_intervals, Sorted, S
  <2>2. ASSUME NEW x \in S
        PROVE  {y \in S : StartsBefore(y, x)} = {y \in S : <<y, x>> \in R}
    OBVIOUS
  <2> QED
    BY <2>1, <2>2 DEF Ranked
<1> HIDE DEF q
<1>9. Cardinality(S) \in Nat
  BY <1>5, FS_CardinalityType
<1>10. /\ q \in [1..Cardinality(S) -> S]
      /\ \A n, j \in 1..Cardinality(S) : n < j => <<q[n], q[j]>> \in R
  <2> HIDE DEF R
  <2> QED
    BY <1>5, <1>7, <1>8, RanksFill
<1>11. q \in Seq(Interval) /\ Len(q) = Cardinality(S)
  <2>1. q \in Seq(S) /\ Len(q) = Cardinality(S)
    BY <1>9, <1>10, SeqDef, LenProperties
  <2>2. S \subseteq Interval
    BY <1>3 DEF Interval
  <2> QED
    BY <2>1, <2>2, SeqMonotonic
<1>12. ASSUME NEW n \in 1..Len(q), NEW j \in 1..Len(q), n < j
       PROVE  q[n].start <= q[j].start /\ q[n].vreg # q[j].vreg
  <2>1. q[n] \in S /\ q[j] \in S /\ StartsBefore(q[n], q[j])
    BY <1>10, <1>11, <1>12
  <2>2. /\ q[n].vreg \in Nat /\ q[n].start \in Nat /\ q[n].end \in Nat
        /\ q[j].vreg \in Nat /\ q[j].start \in Nat /\ q[j].end \in Nat
    BY <1>6, <2>1
  <2>3. q[n] # q[j]
    BY <2>1, <2>2 DEF StartsBefore
  <2> QED
    BY <1>4, <2>1, <2>2, <2>3 DEF StartsBefore
<1>13. \A n, j \in 1..Len(q) : q[n].vreg = q[j].vreg => n = j
  <2> SUFFICES ASSUME NEW n \in 1..Len(q), NEW j \in 1..Len(q), q[n].vreg = q[j].vreg, n # j
               PROVE  FALSE
    OBVIOUS
  <2> QED
    BY <1>9, <1>11, <1>12
<1> QED
  BY <1>11, <1>12, <1>13 DEF ByStart, q

-----------------------------------------------------------------------------
(* The active intervals and the free registers.                            *)

Entry == [interval : Interval, reg : HostGpr]

LEMMA EntryTypes ==
  ASSUME NEW a \in Seq(Entry), NEW n \in 1..Len(a)
  PROVE  /\ a[n] \in Entry
         /\ a[n].interval.start \in Nat
         /\ a[n].interval.end \in Nat
         /\ a[n].reg \in HostGpr
<1>1. a[n] \in Entry
  BY ElementOfSeq
<1> QED
  BY <1>1 DEF Entry, Interval

LEMMA SwapRemoveFacts ==
  ASSUME NEW S, NEW a \in Seq(S), NEW n \in 1..Len(a)
  PROVE  /\ SwapRemove(a, n) \in Seq(S)
         /\ Len(SwapRemove(a, n)) = Len(a) - 1
         /\ \A j \in 1..(Len(a) - 1) : SwapRemove(a, n)[j] = a[IF j = n THEN Len(a) ELSE j]
<1> DEFINE r == [j \in 1..(Len(a) - 1) |-> a[IF j = n THEN Len(a) ELSE j]]
<1>1. Len(a) \in Nat /\ \A j \in 1..Len(a) : a[j] \in S
  BY LenProperties, ElementOfSeq
<1>2. SwapRemove(a, n) = r
  <2>1. \A j \in 1..(Len(a) - 1) :
          (IF j = n THEN a[Len(a)] ELSE a[j]) = a[IF j = n THEN Len(a) ELSE j]
    OBVIOUS
  <2> QED
    BY <2>1 DEF SwapRemove
<1>3. r \in [1..(Len(a) - 1) -> S] /\ Len(a) - 1 \in Nat
  BY <1>1
<1>4. r \in Seq(S) /\ Len(r) = Len(a) - 1
  BY <1>3, SeqDef, LenProperties
<1> QED
  BY <1>2, <1>4

EndsBefore(s, n, j) ==
  \/ s[n].interval.end < s[j].interval.end
  \/ s[n].interval.end = s[j].interval.end /\ n < j

LEMMA ByEndPermutes ==
  ASSUME NEW s \in Seq(Entry)
  PROVE  \E p \in [1..Len(s) -> 1..Len(s)] :
           /\ ByEnd(s) = [n \in 1..Len(s) |-> s[p[n]]]
           /\ \A n, j \in 1..Len(s) : n < j => EndsBefore(s, p[n], p[j])
           /\ \A n, j \in 1..Len(s) : p[n] = p[j] => n = j
           /\ \A j \in 1..Len(s) : \E n \in 1..Len(s) : p[n] = j
<1> DEFINE N == Len(s)
           Earlier(n, j) ==
             \/ s[n].interval.end < s[j].interval.end
             \/ s[n].interval.end = s[j].interval.end /\ n < j
           R == {u \in (1..N) \X (1..N) : Earlier(u[1], u[2])}
           p == Sorted(DOMAIN s, Earlier)
<1>1. N \in Nat /\ DOMAIN s = 1..N
  BY LenProperties
<1>2. \A n \in 1..N : s[n].interval.end \in Nat
  BY EntryTypes
<1>3. Orders(R, 1..N)
  <2>1. \A n, j \in 1..N : <<n, j>> \in R <=> Earlier(n, j)
    OBVIOUS
  <2> HIDE DEF R
  <2>2. \A n \in 1..N : ~Earlier(n, n)
    BY <1>1, <1>2
  <2>3. \A n, j, m \in 1..N : Earlier(n, j) /\ Earlier(j, m) => Earlier(n, m)
    BY <1>1, <1>2
  <2>4. \A n, j \in 1..N : n = j \/ Earlier(n, j) \/ Earlier(j, n)
    BY <1>1, <1>2
  <2> QED
    BY <2>1, <2>2, <2>3, <2>4 DEF Orders
<1>4. IsFiniteSet(1..N) /\ Cardinality(1..N) = N
  BY <1>1, FS_Interval
<1>5. Ranked(p, R, 1..N)
  <2>1. p = [n \in 1..Cardinality(1..N) |->
               CHOOSE x \in 1..N : Cardinality({y \in 1..N : Earlier(y, x)}) = n - 1]
    BY <1>1 DEF Sorted
  <2>2. ASSUME NEW x \in 1..N
        PROVE  {y \in 1..N : Earlier(y, x)} = {y \in 1..N : <<y, x>> \in R}
    OBVIOUS
  <2> QED
    BY <2>1, <2>2 DEF Ranked
<1>6. ByEnd(s) = [n \in 1..N |-> s[p[n]]]
  BY <1>1 DEF ByEnd
<1>7. \A n, j \in 1..N : <<n, j>> \in R => EndsBefore(s, n, j)
  BY DEF EndsBefore
<1> HIDE DEF p, R, N
<1>8. /\ p \in [1..N -> 1..N]
      /\ \A n, j \in 1..N : n < j => <<p[n], p[j]>> \in R
      /\ \A j \in 1..N : \E n \in 1..N : p[n] = j
  <2> DEFINE C == Cardinality(1..N)
  <2>1. /\ p \in [1..C -> 1..N]
        /\ \A n, j \in 1..C : n < j => <<p[n], p[j]>> \in R
        /\ \A j \in 1..N : \E n \in 1..C : p[n] = j
    BY <1>3, <1>4, <1>5, RanksFill
  <2>2. C = N
    BY <1>4
  <2> HIDE DEF C
  <2> QED
    BY <2>1, <2>2
<1>9. ASSUME NEW n \in 1..N, NEW j \in 1..N, p[n] = p[j]
      PROVE  n = j
  <2>1. \A m \in 1..N : <<m, m>> \notin R
    BY <1>3 DEF Orders
  <2>2. ~(n < j) /\ ~(j < n)
    BY <1>8, <1>9, <2>1
  <2> QED
    BY <1>1, <2>2
<1> QED
  BY <1>6, <1>7, <1>8, <1>9 DEF N

LEMMA FarthestFacts ==
  ASSUME NEW s \in Seq(Entry), s # <<>>
  PROVE  /\ Farthest(s) \in 1..Len(s)
         /\ \A j \in 1..Len(s) : s[j].interval.end <= s[Farthest(s)].interval.end
<1>1. Len(s) \in Nat \ {0} /\ DOMAIN s = 1..Len(s)
  BY EmptySeq, LenProperties
<1>2. \A j \in 1..Len(s) : s[j].interval.end \in Nat
  BY EntryTypes
<1>3. PICK p \in [1..Len(s) -> 1..Len(s)] :
        /\ \A n, j \in 1..Len(s) : n < j => EndsBefore(s, p[n], p[j])
        /\ \A j \in 1..Len(s) : \E n \in 1..Len(s) : p[n] = j
  BY ByEndPermutes
<1> DEFINE m == p[Len(s)]
<1>4. m \in 1..Len(s)
  BY <1>1
<1>5. ASSUME NEW j \in 1..Len(s)
      PROVE  /\ s[j].interval.end <= s[m].interval.end
             /\ j > m => s[j].interval.end < s[m].interval.end
  <2>1. PICK n \in 1..Len(s) : p[n] = j
    BY <1>3
  <2>2. CASE n = Len(s)
    BY <1>2, <1>4, <2>1, <2>2
  <2>3. CASE n # Len(s)
    <3>1. n < Len(s) /\ Len(s) \in 1..Len(s)
      <4> DEFINE N == Len(s)
      <4>1. N \in Nat \ {0} /\ n \in 1..N /\ n # N
        BY <1>1, <2>3
      <4> HIDE DEF N
      <4>2. n < N /\ N \in 1..N
        BY <4>1
      <4> QED
        BY <4>2 DEF N
    <3>2. EndsBefore(s, j, m)
      BY <1>3, <2>1, <3>1
    <3> QED
      BY <1>1, <1>2, <1>4, <3>2 DEF EndsBefore
  <2> QED
    BY <2>2, <2>3
<1> HIDE DEF m
<1>6. Farthest(s) \in DOMAIN s /\ \A j \in DOMAIN s :
        /\ s[j].interval.end <= s[Farthest(s)].interval.end
        /\ j > Farthest(s) => s[j].interval.end < s[Farthest(s)].interval.end
  BY <1>1, <1>4, <1>5 DEF Farthest
<1> QED
  BY <1>1, <1>6

(* A register of the pool is held by one active interval or is free, and   *)
(* no other is.                                                            *)
Pool == ToSet(HostGprs)

Shared(a, f) ==
  /\ \A n, j \in 1..Len(a) : a[n].reg = a[j].reg => n = j
  /\ \A n, j \in 1..Len(f) : f[n] = f[j] => n = j
  /\ \A n \in 1..Len(a) : \A j \in 1..Len(f) : a[n].reg # f[j]
  /\ \A n \in 1..Len(a) : a[n].reg \in Pool
  /\ \A n \in 1..Len(f) : f[n] \in Pool
  /\ \A g \in Pool : \/ \E n \in 1..Len(a) : a[n].reg = g
                     \/ \E n \in 1..Len(f) : f[n] = g

(* Sorting changes nothing of this.                                        *)
LEMMA ByEndFacts ==
  ASSUME NEW s \in Seq(Entry)
  PROVE  /\ ByEnd(s) \in Seq(Entry)
         /\ \A n \in 1..Len(ByEnd(s)) : \E j \in 1..Len(s) : ByEnd(s)[n] = s[j]
         /\ \A j \in 1..Len(s) : \E n \in 1..Len(ByEnd(s)) : ByEnd(s)[n] = s[j]
         /\ \A f : Shared(s, f) => Shared(ByEnd(s), f)
<1> DEFINE b == ByEnd(s)
<1>1. Len(s) \in Nat
  BY LenProperties
<1>2. PICK p \in [1..Len(s) -> 1..Len(s)] :
        /\ b = [n \in 1..Len(s) |-> s[p[n]]]
        /\ \A n, j \in 1..Len(s) : p[n] = p[j] => n = j
        /\ \A j \in 1..Len(s) : \E n \in 1..Len(s) : p[n] = j
  BY ByEndPermutes
<1> HIDE DEF b
<1>3. b \in [1..Len(s) -> Entry] /\ \A n \in 1..Len(s) : b[n] = s[p[n]]
  BY <1>2, EntryTypes
<1>4. b \in Seq(Entry) /\ Len(b) = Len(s)
  BY <1>1, <1>3, SeqDef, LenProperties
<1>5. \A n \in 1..Len(b) : \E j \in 1..Len(s) : b[n] = s[j]
  BY <1>3, <1>4
<1>6. \A j \in 1..Len(s) : \E n \in 1..Len(b) : b[n] = s[j]
  BY <1>2, <1>3, <1>4
<1>7. ASSUME NEW f, Shared(s, f)
      PROVE  Shared(b, f)
  <2>1. ASSUME NEW n \in 1..Len(b), NEW j \in 1..Len(b), b[n].reg = b[j].reg
        PROVE  n = j
    <3>1. p[n] \in 1..Len(s) /\ p[j] \in 1..Len(s) /\ s[p[n]].reg = s[p[j]].reg
      BY <1>3, <1>4, <2>1
    <3>2. p[n] = p[j]
      BY <1>7, <3>1 DEF Shared
    <3> QED
      BY <1>2, <1>4, <3>2
  <2>2. \A n \in 1..Len(b) : b[n].reg \in Pool /\ \A j \in 1..Len(f) : b[n].reg # f[j]
    BY <1>5, <1>7 DEF Shared
  <2>3. \A g \in Pool : (\E n \in 1..Len(b) : b[n].reg = g) \/ \E n \in 1..Len(f) : f[n] = g
    BY <1>6, <1>7 DEF Shared
  <2> QED
    BY <1>7, <2>1, <2>2, <2>3 DEF Shared
<1> QED
  BY <1>4, <1>5, <1>6, <1>7 DEF b

LEMMA SharedIsWhole ==
  ASSUME NEW a \in Seq(Entry), NEW f \in Seq(HostGpr), Shared(a, f)
  PROVE  LET held == [n \in DOMAIN a |-> a[n].reg] \o f
         IN  IsInjective(held) /\ ToSet(held) = ToSet(HostGprs)
<1> DEFINE r == [n \in DOMAIN a |-> a[n].reg]
           held == r \o f
<1>1. /\ Len(a) \in Nat /\ DOMAIN a = 1..Len(a)
      /\ Len(f) \in Nat /\ DOMAIN f = 1..Len(f)
  BY LenProperties
<1>2. r \in Seq(HostGpr) /\ Len(r) = Len(a) /\ \A n \in 1..Len(a) : r[n] = a[n].reg
  <2>1. r \in [1..Len(a) -> HostGpr]
    BY <1>1, EntryTypes
  <2> QED
    BY <1>1, <2>1, SeqDef, LenProperties
<1> HIDE DEF r
<1>3. /\ held \in Seq(HostGpr)
      /\ Len(held) = Len(a) + Len(f)
      /\ \A n \in 1..(Len(a) + Len(f)) : held[n] = IF n <= Len(a) THEN r[n] ELSE f[n - Len(a)]
  <2>1. /\ r \o f \in Seq(HostGpr)
        /\ Len(r \o f) = Len(r) + Len(f)
        /\ \A n \in 1..(Len(r) + Len(f)) :
             (r \o f)[n] = IF n <= Len(r) THEN r[n] ELSE f[n - Len(r)]
    BY <1>2, ConcatProperties
  <2> QED
    BY <1>2, <2>1
<1>4. DOMAIN held = 1..(Len(a) + Len(f))
  BY <1>3, LenProperties
<1> HIDE DEF held
<1>5. /\ \A n \in 1..Len(a) : n \in DOMAIN held /\ held[n] = a[n].reg
      /\ \A n \in 1..Len(f) : Len(a) + n \in DOMAIN held /\ held[Len(a) + n] = f[n]
  <2>1. ASSUME NEW n \in 1..Len(a)
        PROVE  n \in DOMAIN held /\ held[n] = a[n].reg
    <3>1. n \in 1..(Len(a) + Len(f)) /\ n <= Len(a)
      BY <1>1
    <3> QED
      BY <1>2, <1>3, <1>4, <3>1
  <2>2. ASSUME NEW n \in 1..Len(f)
        PROVE  Len(a) + n \in DOMAIN held /\ held[Len(a) + n] = f[n]
    <3>1. Len(a) + n \in 1..(Len(a) + Len(f)) /\ ~(Len(a) + n <= Len(a)) /\ (Len(a) + n) - Len(a) = n
      BY <1>1
    <3> QED
      BY <1>3, <1>4, <3>1
  <2> QED
    BY <2>1, <2>2
<1>6. ASSUME NEW n \in DOMAIN held
      PROVE  n \in 1..Len(a) \/ \E j \in 1..Len(f) : n = Len(a) + j
  <2>1. n \in 1..(Len(a) + Len(f))
    BY <1>4
  <2>2. CASE ~(n <= Len(a))
    <3>1. n - Len(a) \in 1..Len(f) /\ n = Len(a) + (n - Len(a))
      BY <1>1, <2>1, <2>2
    <3> QED
      BY <3>1
  <2> QED
    BY <1>1, <2>1, <2>2
<1>7. IsInjective(held)
  <2> SUFFICES ASSUME NEW n \in DOMAIN held, NEW j \in DOMAIN held, held[n] = held[j]
               PROVE  n = j
    BY DEF IsInjective
  <2> QED
    BY <1>5, <1>6 DEF Shared
<1>8. ToSet(held) = Pool
  <2>1. \A n \in DOMAIN held : held[n] \in Pool
    BY <1>5, <1>6 DEF Shared
  <2>2. ASSUME NEW g \in Pool
        PROVE  \E n \in DOMAIN held : held[n] = g
    BY <1>5 DEF Shared
  <2> QED
    BY <2>1, <2>2 DEF ToSet
<1> QED
  BY <1>7, <1>8 DEF Pool, held, r

-----------------------------------------------------------------------------
(* expire_old.                                                             *)

(* What its loop keeps of the active intervals a and the free registers:   *)
(* an interval goes only when it has ended before start.                   *)
Expiring(s, a, start) ==
  /\ s \in [active : Seq(Entry), free : Seq(HostGpr), index : Nat \ {0}]
  /\ Shared(s.active, s.free)
  /\ \A n \in 1..Len(s.active) : \E j \in 1..Len(a) : s.active[n] = a[j]
  /\ \A j \in 1..Len(a) : \/ \E n \in 1..Len(s.active) : s.active[n] = a[j]
                          \/ a[j].interval.end < start

LEMMA ExpireTurnKeeps ==
  ASSUME NEW s, NEW a, NEW start \in Nat, Expiring(s, a, start)
  PROVE  Expiring(ExpireTurn(s, start), a, start)
<1> DEFINE i == s.index
           b == s.active
           f == s.free
           c == SwapRemove(b, i)
           g == Append(f, b[i].reg)
<1>1. /\ b \in Seq(Entry) /\ f \in Seq(HostGpr) /\ i \in Nat \ {0}
      /\ Len(b) \in Nat /\ Len(f) \in Nat
      /\ Shared(b, f)
  BY LenProperties DEF Expiring
<1>2. CASE i > Len(b)
  BY <1>2 DEF ExpireTurn
<1>3. CASE ~(i > Len(b)) /\ ~HasEnded(b[i], start)
  <2>1. ExpireTurn(s, start) = [s EXCEPT !.index = @ + 1]
    BY <1>3 DEF ExpireTurn
  <2>2. /\ [s EXCEPT !.index = @ + 1] \in
             [active : Seq(Entry), free : Seq(HostGpr), index : Nat \ {0}]
        /\ [s EXCEPT !.index = @ + 1].active = b
        /\ [s EXCEPT !.index = @ + 1].free = f
    BY DEF Expiring
  <2> QED
    BY <2>1, <2>2 DEF Expiring
<1>4. CASE ~(i > Len(b)) /\ HasEnded(b[i], start)
  <2> DEFINE t == [s EXCEPT !.active = SwapRemove(@, i), !.free = Append(@, b[i].reg)]
  <2>1. ExpireTurn(s, start) = t
    BY <1>4 DEF ExpireTurn
  <2>2. i \in 1..Len(b)
    BY <1>1, <1>4
  <2>3. /\ c \in Seq(Entry)
        /\ Len(c) = Len(b) - 1
        /\ \A j \in 1..(Len(b) - 1) : c[j] = b[IF j = i THEN Len(b) ELSE j]
    BY <1>1, <2>2, SwapRemoveFacts
  <2>4. b[i].reg \in HostGpr
    BY <1>1, <2>2, EntryTypes
  <2>5. /\ g \in Seq(HostGpr)
        /\ Len(g) = Len(f) + 1
        /\ \A j \in 1..Len(f) : g[j] = f[j]
        /\ g[Len(f) + 1] = b[i].reg
    BY <1>1, <2>4, AppendProperties
  <2>6. t \in [active : Seq(Entry), free : Seq(HostGpr), index : Nat \ {0}]
        /\ t.active = c /\ t.free = g
    BY <2>3, <2>5 DEF Expiring
  <2> HIDE DEF t, c, g
  <2>7. ASSUME NEW n \in 1..Len(c)
        PROVE  \E j \in 1..Len(b) : j # i /\ c[n] = b[j]
    <3>1. (IF n = i THEN Len(b) ELSE n) \in 1..Len(b) /\ (IF n = i THEN Len(b) ELSE n) # i
      BY <1>1, <2>2, <2>3
    <3> QED
      BY <2>3, <3>1
  <2>8. ASSUME NEW j \in 1..Len(b), j # i
        PROVE  \E n \in 1..Len(c) : c[n] = b[j]
    <3>1. CASE j = Len(b)
      <4>1. Len(b) \in Nat /\ i \in Nat /\ Len(c) = Len(b) - 1
        BY <1>1, <2>3
      <4>2. i \in 1..(Len(b) - 1)
        BY ONLY <2>2, <2>8, <3>1, <4>1
      <4>3. i \in 1..Len(c) /\ c[i] = b[j]
        BY <2>3, <3>1, <4>1, <4>2
      <4> QED
        BY <4>3
    <3>2. CASE j # Len(b)
      <4>1. j \in 1..Len(c) /\ c[j] = b[j]
        BY <1>1, <2>3, <2>8, <3>2
      <4> QED
        BY <4>1
    <3> QED
      BY <3>1, <3>2
  <2>9. ASSUME NEW n \in 1..Len(c), NEW j \in 1..Len(c), c[n].reg = c[j].reg
        PROVE  n = j
    <3> DEFINE at(m) == IF m = i THEN Len(b) ELSE m
    <3>1. at(n) \in 1..Len(b) /\ at(j) \in 1..Len(b)
      BY <1>1, <2>3
    <3>2. c[n] = b[at(n)] /\ c[j] = b[at(j)]
      BY <2>3
    <3>3. at(n) = at(j)
      BY <1>1, <2>9, <3>1, <3>2 DEF Shared
    <3> QED
      BY <1>1, <2>3, <3>3
  <2>10. ASSUME NEW n \in 1..Len(g)
         PROVE  \/ n = Len(f) + 1 /\ g[n] = b[i].reg
                \/ n \in 1..Len(f) /\ g[n] = f[n]
    <3>1. n = Len(f) + 1 \/ n \in 1..Len(f)
      BY <1>1, <2>5
    <3> QED
      BY <2>5, <3>1
  <2>11. ASSUME NEW n \in 1..Len(g), NEW j \in 1..Len(g), g[n] = g[j]
         PROVE  n = j
    <3>1. \A m \in 1..Len(f) : f[m] # b[i].reg
      BY <1>1, <2>2 DEF Shared
    <3>2. \A m, l \in 1..Len(f) : f[m] = f[l] => m = l
      BY <1>1 DEF Shared
    <3> QED
      BY <2>10, <2>11, <3>1, <3>2
  <2>12. ASSUME NEW n \in 1..Len(c), NEW j \in 1..Len(g)
         PROVE  c[n].reg # g[j]
    <3>1. PICK m \in 1..Len(b) : m # i /\ c[n] = b[m]
      BY <2>7
    <3>2. b[m].reg # b[i].reg
      BY <1>1, <2>2, <3>1 DEF Shared
    <3>3. \A l \in 1..Len(f) : b[m].reg # f[l]
      BY <1>1 DEF Shared
    <3> QED
      BY <2>10, <3>1, <3>2, <3>3
  <2>13. \A n \in 1..Len(c) : c[n].reg \in Pool
    BY <1>1, <2>7 DEF Shared
  <2>14. \A n \in 1..Len(g) : g[n] \in Pool
    BY <1>1, <2>2, <2>5, <2>10 DEF Shared
  <2>15. ASSUME NEW r \in Pool
         PROVE  (\E n \in 1..Len(c) : c[n].reg = r) \/ \E n \in 1..Len(g) : g[n] = r
    <3>1. 1..Len(f) \subseteq 1..Len(g) /\ Len(f) + 1 \in 1..Len(g)
      BY <1>1, <2>5
    <3>2. CASE \E n \in 1..Len(f) : f[n] = r
      BY <2>5, <3>1, <3>2
    <3>3. CASE \E n \in 1..Len(b) : b[n].reg = r
      BY <2>5, <2>8, <3>1, <3>3
    <3> QED
      BY <1>1, <3>2, <3>3 DEF Shared
  <2>16. Shared(c, g)
    BY <2>9, <2>11, <2>12, <2>13, <2>14, <2>15 DEF Shared
  <2>17. \A n \in 1..Len(c) : \E j \in 1..Len(a) : c[n] = a[j]
    BY <2>7 DEF Expiring
  <2>18. ASSUME NEW j \in 1..Len(a)
         PROVE  (\E n \in 1..Len(c) : c[n] = a[j]) \/ a[j].interval.end < start
    <3>1. CASE \E n \in 1..Len(b) : b[n] = a[j]
      BY <1>4, <2>8, <3>1 DEF HasEnded
    <3> QED
      BY <3>1 DEF Expiring
  <2> QED
    BY <2>1, <2>6, <2>16, <2>17, <2>18 DEF Expiring
<1> QED
  BY <1>2, <1>3, <1>4

LEMMA ExpireOldKeeps ==
  ASSUME NEW start \in Nat, active \in Seq(Entry), free \in Seq(HostGpr), Shared(active, free)
  PROVE  Expiring(expire_old(start), active, start)
<1> DEFINE first == [active |-> active, free |-> free, index |-> 1]
           c == CHOOSE g : g = [j \in 0..Len(active) |->
                                  IF j = 0 THEN first
                                  ELSE LET s == g[j - 1] IN ExpireTurn(s, start)]
           S == {s \in {c[j] : j \in 0..Len(active)} : Expiring(s, active, start)}
<1>1. expire_old(start) = c[Len(active)]
  BY DEF expire_old, Sweep
<1>2. Len(active) \in Nat
  BY LenProperties
<1>3. PICK g : Turns("expire", start, first, active, Len(active), g)
  BY <1>2, LoopTurns
<1>4. Turns("expire", start, first, active, Len(active), c)
  BY <1>3 DEF Turns, Turn
<1> HIDE DEF c, first
<1>5. /\ c[0] = first
      /\ \A j \in 1..Len(active) : c[j] = Turn("expire", start, c[j - 1], active[j])
  BY <1>2, <1>4, TurnsAt
<1>6. first \in S
  <2>1. Expiring(first, active, start)
    BY DEF Expiring, first
  <2> QED
    BY <1>2, <1>5, <2>1
<1>7. ASSUME NEW j \in 1..Len(active), c[j - 1] \in S
      PROVE  Turn("expire", start, c[j - 1], active[j]) \in S
  <2>1. Turn("expire", start, c[j - 1], active[j]) = ExpireTurn(c[j - 1], start)
    BY DEF Turn
  <2>2. Expiring(ExpireTurn(c[j - 1], start), active, start)
    BY <1>7, ExpireTurnKeeps
  <2>3. j \in 0..Len(active) /\ c[j] = Turn("expire", start, c[j - 1], active[j])
    BY <1>2, <1>5
  <2> QED
    BY <2>1, <2>2, <2>3
<1> HIDE DEF S
<1>8. \A j \in 1..Len(active) :
        c[j - 1] \in S => Turn("expire", start, c[j - 1], active[j]) \in S
  BY <1>7
<1>9. c[Len(active)] \in S
  <2> DEFINE n == Len(active)
  <2>1. /\ n \in Nat
        /\ Turns("expire", start, first, active, n, c)
        /\ first \in S
        /\ \A j \in 1..n :
             c[j - 1] \in S => Turn("expire", start, c[j - 1], active[j]) \in S
    BY <1>2, <1>4, <1>6, <1>8
  <2> HIDE DEF n
  <2>2. c[n] \in S
    BY ONLY <2>1, TurnsKeep
  <2> QED
    BY <2>2 DEF n
<1> QED
  BY <1>1, <1>9 DEF S

-----------------------------------------------------------------------------
(* The invariant of the allocator: every interval placed so far is in a    *)
(* slot of its own, or active in the register it was given, or has ended.  *)

(* The intervals placed so far.                                            *)
Placed == 1..(k - 1)

Where(i) == map[intervals[i].vreg]

ActiveAt(a) ==
  \A n \in 1..Len(a) : \E i \in Placed :
    a[n].interval = intervals[i] /\ Where(i) = InReg(a[n].reg)

(* Where interval i is, if the active ones are a and the next starts at    *)
(* start.                                                                  *)
Settled(i, a, start) ==
  \/ \E slot \in 0..(next_slot - 1) : Where(i) = StateSpill(slot)
  \/ \E n \in 1..Len(a) : a[n].interval = intervals[i] /\ Where(i) = InReg(a[n].reg)
  \/ Where(i).kind = "Reg" /\ intervals[i].end < start

AllocInv ==
  /\ k \in Nat
  /\ IsSeq(src)
  /\ k = 0 => intervals = <<>> /\ map = <<>>
  /\ ByStart(intervals)
  /\ k <= Len(intervals) + 1
  /\ next_slot \in Nat
  /\ active \in Seq(Entry) /\ free \in Seq(HostGpr) /\ Shared(active, free)
  /\ DOMAIN map = {intervals[i].vreg : i \in Placed}
  /\ ActiveAt(active)
  /\ \A i \in Placed : Settled(i, active, intervals[k - 1].start)
  /\ \A i, j \in Placed :
       i < j /\ intervals[j].start <= intervals[i].end => Where(i) # Where(j)

LEMMA AllocInit == Init => AllocInv
<1> SUFFICES ASSUME Init PROVE AllocInv
  OBVIOUS
<1> USE DEF Init
<1>1. /\ IsSeq(<<>>) /\ <<>> \in Seq(Interval) /\ <<>> \in Seq(Entry)
      /\ Len(<<>>) = 0 /\ DOMAIN <<>> = {}
  <2>1. \A S : <<>> \in Seq(S)
    BY EmptySeq
  <2>2. Len(<<>>) = 0 /\ DOMAIN <<>> = {}
    OBVIOUS
  <2> QED
    BY <2>1, <2>2, SeqIsSeq
<1>2. ByStart(intervals)
  BY <1>1 DEF ByStart
<1>3. HostGprs \in Seq(HostGpr) /\ Len(HostGprs) \in Nat /\ DOMAIN HostGprs = 1..Len(HostGprs)
  BY DesignAssumption, LenProperties
<1>4. Shared(active, free)
  BY <1>1, <1>3, DesignAssumption DEF Shared, Pool, ToSet, IsInjective
<1>5. Placed = {}
  BY DEF Placed
<1> QED
  BY <1>1, <1>2, <1>3, <1>4, <1>5 DEF AllocInv, ActiveAt

(* Types of what is placed next.                                           *)
LEMMA NextInterval ==
  ASSUME AllocInv, Placing
  PROVE  /\ k \in Nat \ {0}
         /\ k \in 1..Len(intervals)
         /\ \A i \in 1..Len(intervals) : /\ intervals[i] \in Interval
                                         /\ intervals[i].vreg \in VReg
                                         /\ intervals[i].start \in Nat
                                         /\ intervals[i].end \in Nat
         /\ \A i, j \in 1..Len(intervals) : intervals[i].vreg = intervals[j].vreg => i = j
         /\ Placed \subseteq 1..Len(intervals)
         /\ \A i \in Placed : i < k /\ intervals[i].start <= intervals[k].start
         /\ k \notin Placed
         /\ intervals[k].vreg \notin DOMAIN map
         /\ \A i \in Placed : intervals[i].vreg \in DOMAIN map
<1>1. Len(intervals) \in Nat /\ k \in 1..Len(intervals)
  BY LenProperties DEF AllocInv, ByStart, Placing
<1>2. \A i \in 1..Len(intervals) : intervals[i] \in Interval
  BY ElementOfSeq DEF AllocInv, ByStart
<1>3. Placed \subseteq 1..Len(intervals) /\ \A i \in Placed : i < k
  BY <1>1 DEF Placed
<1>4. \A i, j \in 1..Len(intervals) : intervals[i].vreg = intervals[j].vreg => i = j
  BY DEF AllocInv, ByStart
<1>5. \A i \in Placed : intervals[i].start <= intervals[k].start
  BY <1>1, <1>3 DEF AllocInv, ByStart
<1>6. intervals[k].vreg \notin DOMAIN map /\ \A i \in Placed : intervals[i].vreg \in DOMAIN map
  <2>1. DOMAIN map = {intervals[i].vreg : i \in Placed}
    BY DEF AllocInv
  <2>2. \A i \in Placed : intervals[i].vreg # intervals[k].vreg
    BY <1>1, <1>3, <1>4
  <2> QED
    BY <2>1, <2>2
<1> QED
  BY <1>1, <1>2, <1>3, <1>4, <1>5, <1>6 DEF Interval

(* What expire_old leaves.                                                 *)
LEMMA LeftFacts ==
  ASSUME AllocInv, Placing
  PROVE  /\ Left.active \in Seq(Entry)
         /\ Left.free \in Seq(HostGpr)
         /\ Shared(Left.active, Left.free)
         /\ ActiveAt(Left.active)
         /\ \A i \in Placed : Settled(i, Left.active, intervals[k].start)
         /\ Left.free = <<>> => Left.active # <<>>
<1> DEFINE start == intervals[k].start
<1>1. start \in Nat
  BY NextInterval
<1>2. Expiring(Left, active, start)
  BY <1>1, ExpireOldKeeps DEF AllocInv, Left
<1> HIDE DEF start
<1>3. ActiveAt(Left.active)
  <2>1. ASSUME NEW n \in 1..Len(Left.active)
        PROVE  \E i \in Placed : /\ Left.active[n].interval = intervals[i]
                                 /\ Where(i) = InReg(Left.active[n].reg)
    <3>1. PICK j \in 1..Len(active) : Left.active[n] = active[j]
      BY <1>2 DEF Expiring
    <3>2. PICK i \in Placed : active[j].interval = intervals[i] /\ Where(i) = InReg(active[j].reg)
      BY DEF AllocInv, ActiveAt
    <3> QED
      BY <3>1, <3>2
  <2> QED
    BY <2>1 DEF ActiveAt
<1>4. ASSUME NEW i \in Placed
      PROVE  Settled(i, Left.active, start)
  <2>1. Settled(i, active, intervals[k - 1].start)
    BY DEF AllocInv
  <2>2. CASE \E slot \in 0..(next_slot - 1) : Where(i) = StateSpill(slot)
    BY <2>2 DEF Settled
  <2>3. CASE \E n \in 1..Len(active) :
               active[n].interval = intervals[i] /\ Where(i) = InReg(active[n].reg)
    <3>1. PICK n \in 1..Len(active) :
            active[n].interval = intervals[i] /\ Where(i) = InReg(active[n].reg)
      BY <2>3
    <3>2. CASE \E j \in 1..Len(Left.active) : Left.active[j] = active[n]
      BY <3>1, <3>2 DEF Settled
    <3>3. CASE active[n].interval.end < start
      BY <3>1, <3>3 DEF Settled, InReg
    <3> QED
      BY <1>2, <3>2, <3>3 DEF Expiring
  <2>4. CASE Where(i).kind = "Reg" /\ intervals[i].end < intervals[k - 1].start
    <3>1. k - 1 \in Placed
      BY NextInterval DEF Placed
    <3>2. /\ intervals[k - 1].start <= start
          /\ intervals[k - 1].start \in Nat /\ intervals[i].end \in Nat
      BY <3>1, NextInterval DEF start
    <3> QED
      BY <1>1, <2>4, <3>2 DEF Settled
  <2> QED
    BY <2>1, <2>2, <2>3, <2>4 DEF Settled
<1>5. /\ Left.active \in Seq(Entry)
      /\ Left.free \in Seq(HostGpr)
      /\ Shared(Left.active, Left.free)
  BY <1>2 DEF Expiring
<1>6. Left.free = <<>> => Left.active # <<>>
  <2>1. HostGprs[1] \in Pool
    <3>1. Len(HostGprs) \in Nat \ {0} /\ DOMAIN HostGprs = 1..Len(HostGprs)
      BY DesignAssumption, EmptySeq, LenProperties
    <3> QED
      BY <3>1 DEF Pool, ToSet
  <2>2. Len(<<>>) = 0
    BY EmptySeq
  <2> QED
    BY <1>5, <2>1, <2>2 DEF Shared
<1> QED
  BY <1>3, <1>4, <1>5, <1>6 DEF start

(* Where interval i is after the step.                                     *)
Then(i) == map'[intervals[i].vreg]

(* What is to be shown of a step that places interval k.                   *)
Continues ==
  /\ k' = k + 1
  /\ UNCHANGED <<src, intervals>>
  /\ next_slot' \in Nat
  /\ active' \in Seq(Entry) /\ free' \in Seq(HostGpr) /\ Shared(active', free')
  /\ DOMAIN map' = DOMAIN map \cup {intervals[k].vreg}
  /\ \A n \in 1..Len(active') : \E i \in Placed \cup {k} :
       active'[n].interval = intervals[i] /\ Then(i) = InReg(active'[n].reg)
  /\ \A i \in Placed \cup {k} :
       \/ \E slot \in 0..(next_slot' - 1) : Then(i) = StateSpill(slot)
       \/ \E n \in 1..Len(active') :
            active'[n].interval = intervals[i] /\ Then(i) = InReg(active'[n].reg)
       \/ Then(i).kind = "Reg" /\ intervals[i].end < intervals[k].start
  /\ \A i, j \in Placed : i < j /\ intervals[j].start <= intervals[i].end => Then(i) # Then(j)
  /\ \A i \in Placed : intervals[k].start <= intervals[i].end => Then(i) # Then(k)

LEMMA ContinuesKeeps ==
  ASSUME AllocInv, Placing, Continues
  PROVE  AllocInv'
<1>1. k \in Nat \ {0} /\ k \in 1..Len(intervals) /\ Len(intervals) \in Nat
  BY NextInterval, LenProperties DEF AllocInv, ByStart
<1>2. k' = k + 1 /\ src' = src /\ intervals' = intervals
  BY DEF Continues
<1>3. Placed' = Placed \cup {k} /\ k' - 1 = k
  BY <1>1, <1>2 DEF Placed
<1>4. /\ k' \in Nat /\ k' # 0 /\ IsSeq(src') /\ ByStart(intervals') /\ k' <= Len(intervals') + 1
  BY <1>1, <1>2 DEF AllocInv
<1>5. DOMAIN map' = {intervals'[i].vreg : i \in Placed'}
  <2>1. DOMAIN map' = {intervals[i].vreg : i \in Placed} \cup {intervals[k].vreg}
    BY DEF Continues, AllocInv
  <2> QED
    BY <1>2, <1>3, <2>1
<1>6. ASSUME NEW i \in Placed'
      PROVE  Where(i)' = Then(i) /\ i \in Placed \cup {k}
  BY <1>2, <1>3 DEF Where, Then
<1>7. ActiveAt(active)'
  <2>1. ASSUME NEW n \in 1..Len(active')
        PROVE  \E i \in Placed' : /\ active'[n].interval = intervals'[i]
                                  /\ Where(i)' = InReg(active'[n].reg)
    <3>1. PICK i \in Placed \cup {k} :
            active'[n].interval = intervals[i] /\ Then(i) = InReg(active'[n].reg)
      BY DEF Continues
    <3> QED
      BY <1>2, <1>3, <1>6, <3>1
  <2> QED
    BY <2>1 DEF ActiveAt
<1>8. ASSUME NEW i \in Placed'
      PROVE  Settled(i, active, intervals[k - 1].start)'
  <2>1. /\ i \in Placed \cup {k}
        /\ intervals' = intervals
        /\ intervals'[k' - 1] = intervals[k]
        /\ Where(i)' = Then(i)
    BY <1>2, <1>3, <1>6
  <2>2. \/ \E slot \in 0..(next_slot' - 1) : Then(i) = StateSpill(slot)
        \/ \E n \in 1..Len(active') :
             active'[n].interval = intervals[i] /\ Then(i) = InReg(active'[n].reg)
        \/ Then(i).kind = "Reg" /\ intervals[i].end < intervals[k].start
    BY <2>1 DEF Continues
  <2> QED
    BY <2>1, <2>2 DEF Settled
<1>9. ASSUME NEW i \in Placed', NEW j \in Placed',
             i < j, intervals'[j].start <= intervals'[i].end
      PROVE  Where(i)' # Where(j)'
  <2>1. /\ i \in Placed \cup {k} /\ j \in Placed \cup {k}
        /\ intervals[j].start <= intervals[i].end
        /\ Where(i)' = Then(i) /\ Where(j)' = Then(j)
    BY <1>2, <1>6, <1>9
  <2>2. \A n \in Placed : n < k /\ n \in Int
    BY <1>1 DEF Placed
  <2>3. i \in Placed
    BY <1>1, <1>9, <2>1, <2>2
  <2>4. CASE j = k
    BY <2>1, <2>3, <2>4 DEF Continues
  <2>5. CASE j \in Placed
    BY <1>9, <2>1, <2>3, <2>5 DEF Continues
  <2> QED
    BY <2>1, <2>4, <2>5
<1>10. /\ next_slot' \in Nat
       /\ active' \in Seq(Entry) /\ free' \in Seq(HostGpr) /\ Shared(active', free')
  BY DEF Continues
<1> QED
  BY <1>4, <1>5, <1>7, <1>8, <1>9, <1>10 DEF AllocInv

LEMMA PlaceFreeContinues ==
  ASSUME AllocInv, PlaceFree
  PROVE  Continues
<1> DEFINE a == Left.active
           f == Left.free
           g == Last(f)
           entry == Active(intervals[k], g)
           b == Append(a, entry)
<1>1. Placing /\ f # <<>>
  BY DEF PlaceFree
<1>2. /\ a \in Seq(Entry) /\ f \in Seq(HostGpr) /\ Shared(a, f) /\ ActiveAt(a)
      /\ \A i \in Placed : Settled(i, a, intervals[k].start)
  BY <1>1, LeftFacts
<1>3. /\ k \in Nat \ {0} /\ k \notin Placed
      /\ intervals[k] \in Interval
      /\ \A i \in Placed : /\ intervals[i].vreg # intervals[k].vreg
                           /\ intervals[i].end \in Nat
      /\ intervals[k].start \in Nat
  BY <1>1, NextInterval
<1>4. /\ k' = k + 1 /\ src' = src /\ intervals' = intervals /\ next_slot' = next_slot
      /\ map' = Insert(map, intervals[k].vreg, InReg(g))
      /\ free' = Front(f)
      /\ active' = ByEnd(b)
  BY DEF PlaceFree
<1> HIDE DEF a, f
<1>5. /\ Len(f) \in Nat \ {0} /\ Len(f) > 0
      /\ g \in HostGpr /\ g = f[Len(f)]
      /\ Front(f) \in Seq(HostGpr) /\ Len(Front(f)) = Len(f) - 1
      /\ \A j \in 1..(Len(f) - 1) : Front(f)[j] = f[j]
  BY <1>1, <1>2, PopFacts, LenProperties
<1> HIDE DEF g
<1>6. entry \in Entry /\ entry.interval = intervals[k] /\ entry.reg = g
  BY <1>3, <1>5 DEF Active, Entry
<1> HIDE DEF entry
<1>7. /\ Len(a) \in Nat
      /\ b \in Seq(Entry)
      /\ Len(b) = Len(a) + 1
      /\ \A n \in 1..Len(a) : b[n] = a[n]
      /\ b[Len(a) + 1] = entry
  BY <1>2, <1>6, AppendProperties, LenProperties
<1> HIDE DEF b
<1>8. \A n \in 1..Len(b) : n \in 1..Len(a) \/ n = Len(a) + 1
  BY <1>7
<1>9. \A n \in 1..Len(a) : n \in 1..Len(b)
  BY <1>7
<1>10. Len(f) \in 1..Len(f) /\ \A n \in 1..(Len(f) - 1) : n \in 1..Len(f) /\ n # Len(f)
  BY <1>5
<1>11. Shared(b, Front(f))
  <2>1. \A n \in 1..Len(a) : a[n].reg # g
    BY <1>2, <1>5, <1>10 DEF Shared
  <2>2. ASSUME NEW n \in 1..Len(b), NEW j \in 1..Len(b), b[n].reg = b[j].reg
        PROVE  n = j
    BY <1>2, <1>6, <1>7, <1>8, <2>1, <2>2 DEF Shared
  <2>3. \A n, j \in 1..(Len(f) - 1) : Front(f)[n] = Front(f)[j] => n = j
    BY <1>2, <1>5, <1>10 DEF Shared
  <2>4. ASSUME NEW n \in 1..Len(b), NEW j \in 1..(Len(f) - 1)
        PROVE  b[n].reg # Front(f)[j]
    <3>1. Front(f)[j] = f[j] /\ j \in 1..Len(f) /\ f[j] # g
      BY <1>2, <1>5, <1>10 DEF Shared
    <3>2. \A m \in 1..Len(a) : a[m].reg # f[j]
      BY <1>2, <3>1 DEF Shared
    <3> QED
      BY <1>6, <1>7, <1>8, <3>1, <3>2
  <2>5. \A n \in 1..Len(b) : b[n].reg \in Pool
    BY <1>2, <1>5, <1>6, <1>7, <1>8, <1>10 DEF Shared
  <2>6. \A n \in 1..(Len(f) - 1) : Front(f)[n] \in Pool
    BY <1>2, <1>5, <1>10 DEF Shared
  <2>7. ASSUME NEW r \in Pool
        PROVE  (\E n \in 1..Len(b) : b[n].reg = r) \/ \E n \in 1..(Len(f) - 1) : Front(f)[n] = r
    <3>1. CASE \E n \in 1..Len(a) : a[n].reg = r
      BY <1>7, <1>9, <3>1
    <3>2. CASE \E n \in 1..Len(f) : f[n] = r
      <4>1. PICK n \in 1..Len(f) : f[n] = r
        BY <3>2
      <4>2. CASE n = Len(f)
        <5>1. Len(a) + 1 \in 1..Len(b) /\ b[Len(a) + 1].reg = r
          BY <1>5, <1>6, <1>7, <4>1, <4>2
        <5> QED
          BY <5>1
      <4>3. CASE n # Len(f)
        <5>1. n \in 1..(Len(f) - 1)
          BY <1>5, <4>3
        <5> QED
          BY <1>5, <4>1, <5>1
      <4> QED
        BY <4>2, <4>3
    <3> QED
      BY <1>2, <3>1, <3>2 DEF Shared
  <2> QED
    BY <1>5, <2>2, <2>3, <2>4, <2>5, <2>6, <2>7 DEF Shared
<1>12. /\ active' \in Seq(Entry) /\ Shared(active', free')
       /\ \A n \in 1..Len(active') : \E j \in 1..Len(b) : active'[n] = b[j]
       /\ \A j \in 1..Len(b) : \E n \in 1..Len(active') : active'[n] = b[j]
  BY <1>4, <1>7, <1>11, ByEndFacts
<1>13. /\ DOMAIN map' = DOMAIN map \cup {intervals[k].vreg}
       /\ Then(k) = InReg(g)
       /\ \A i \in Placed : Then(i) = Where(i)
  <2>1. \A i \in Placed : intervals[i].vreg \in DOMAIN map
    BY <1>1, NextInterval
  <2>2. /\ DOMAIN map' = DOMAIN map \cup {intervals[k].vreg}
        /\ map'[intervals[k].vreg] = InReg(g)
        /\ \A v \in DOMAIN map : v # intervals[k].vreg => map'[v] = map[v]
    <3> DEFINE v == intervals[k].vreg
               r == Insert(map, v, InReg(g))
    <3>1. DOMAIN r = DOMAIN map \cup {v} /\ r[v] = InReg(g) /\ \A u \in DOMAIN map : u # v => r[u] = map[u]
      BY DEF Insert
    <3>2. map' = r
      BY <1>4
    <3> QED
      BY <3>1, <3>2
  <2> QED
    BY <1>3, <2>1, <2>2 DEF Where, Then
<1>14. ASSUME NEW n \in 1..Len(active')
       PROVE  \E i \in Placed \cup {k} :
                active'[n].interval = intervals[i] /\ Then(i) = InReg(active'[n].reg)
  <2>1. PICK j \in 1..Len(b) : active'[n] = b[j]
    BY <1>12
  <2>2. CASE j \in 1..Len(a)
    <3>1. PICK i \in Placed : a[j].interval = intervals[i] /\ Where(i) = InReg(a[j].reg)
      BY <1>2, <2>2 DEF ActiveAt
    <3> QED
      BY <1>7, <1>13, <2>1, <2>2, <3>1
  <2>3. CASE j = Len(a) + 1
    BY <1>6, <1>7, <1>13, <2>1, <2>3
  <2> QED
    BY <1>8, <2>2, <2>3
<1>15. ASSUME NEW i \in Placed \cup {k}
       PROVE  \/ \E slot \in 0..(next_slot' - 1) : Then(i) = StateSpill(slot)
              \/ \E n \in 1..Len(active') :
                   active'[n].interval = intervals[i] /\ Then(i) = InReg(active'[n].reg)
              \/ Then(i).kind = "Reg" /\ intervals[i].end < intervals[k].start
  <2>1. CASE i = k
    <3>1. Len(a) + 1 \in 1..Len(b)
      BY <1>7
    <3>2. PICK n \in 1..Len(active') : active'[n] = b[Len(a) + 1]
      BY <1>12, <3>1
    <3> QED
      BY <1>6, <1>7, <1>13, <2>1, <3>2
  <2>2. CASE i \in Placed
    <3>1. Settled(i, a, intervals[k].start) /\ Then(i) = Where(i)
      BY <1>2, <1>13, <2>2
    <3>2. CASE \E n \in 1..Len(a) : a[n].interval = intervals[i] /\ Where(i) = InReg(a[n].reg)
      <4>1. PICK n \in 1..Len(a) : a[n].interval = intervals[i] /\ Where(i) = InReg(a[n].reg)
        BY <3>2
      <4>2. PICK j \in 1..Len(active') : active'[j] = b[n]
        BY <1>9, <1>12
      <4> QED
        BY <1>7, <3>1, <4>1, <4>2
    <3> QED
      BY <1>4, <3>1, <3>2 DEF Settled
  <2> QED
    BY <2>1, <2>2
<1>16. ASSUME NEW i \in Placed, NEW j \in Placed,
              i < j, intervals[j].start <= intervals[i].end
       PROVE  Then(i) # Then(j)
  BY <1>13, <1>16 DEF AllocInv
<1>17. ASSUME NEW i \in Placed, intervals[k].start <= intervals[i].end
       PROVE  Then(i) # Then(k)
  <2>1. Settled(i, a, intervals[k].start) /\ Then(i) = Where(i) /\ Then(k) = InReg(g)
    BY <1>2, <1>13
  <2>2. \A n \in 1..Len(a) : a[n].reg # g
    BY <1>2, <1>5, <1>10 DEF Shared
  <2> QED
    BY <1>3, <1>17, <2>1, <2>2 DEF Settled, InReg, StateSpill
<1> QED
  BY <1>4, <1>5, <1>12, <1>13, <1>14, <1>15, <1>16, <1>17 DEF Continues, AllocInv

(* A slot that has not been handed out is nobody's location.               *)
LEMMA SlotIsFresh ==
  ASSUME AllocInv, NEW i, NEW a, NEW start, Settled(i, a, start)
  PROVE  Where(i) # StateSpill(next_slot)
<1>1. \A slot \in 0..(next_slot - 1) : slot # next_slot
  BY DEF AllocInv
<1>2. \A slot : StateSpill(slot) = StateSpill(next_slot) => slot = next_slot
  <2>1. \A slot : StateSpill(slot).slot = slot
    BY DEF StateSpill
  <2> QED
    BY <2>1
<1>3. \A g : InReg(g) # StateSpill(next_slot)
  <2>1. \A g : InReg(g).kind = "Reg" /\ StateSpill(next_slot).kind = "StateSpill"
    BY DEF InReg, StateSpill
  <2> QED
    BY <2>1
<1>4. StateSpill(next_slot).kind # "Reg"
  BY DEF StateSpill
<1> QED
  BY <1>1, <1>2, <1>3, <1>4 DEF Settled

LEMMA PlaceSpilledContinues ==
  ASSUME AllocInv, PlaceSpilled
  PROVE  Continues
<1> DEFINE a == Left.active
           v == intervals[k].vreg
           there == StateSpill(next_slot)
           r == Insert(map, v, there)
<1>1. Placing /\ Left.free = <<>>
  BY DEF PlaceSpilled
<1>2. /\ a \in Seq(Entry) /\ Shared(a, <<>>) /\ ActiveAt(a)
      /\ \A i \in Placed : Settled(i, a, intervals[k].start)
  BY <1>1, LeftFacts
<1>3. /\ k \in Nat \ {0} /\ k \notin Placed
      /\ \A i \in Placed : intervals[i].vreg # v /\ intervals[i].vreg \in DOMAIN map
  BY <1>1, NextInterval
<1>4. /\ k' = k + 1 /\ src' = src /\ intervals' = intervals /\ next_slot' = next_slot + 1
      /\ map' = r
      /\ free' = <<>>
      /\ active' = a
  BY DEF PlaceSpilled
<1> HIDE DEF a
<1>5. next_slot \in Nat /\ <<>> \in Seq(HostGpr)
  BY EmptySeq DEF AllocInv
<1>6. DOMAIN r = DOMAIN map \cup {v} /\ r[v] = there /\ \A u \in DOMAIN map : u # v => r[u] = map[u]
  BY DEF Insert
<1>7. /\ DOMAIN map' = DOMAIN map \cup {v}
      /\ Then(k) = there
      /\ \A i \in Placed : Then(i) = Where(i)
  BY <1>3, <1>4, <1>6 DEF Then, Where
<1> HIDE DEF r
<1>8. \A i \in Placed : Then(i) # Then(k)
  BY <1>2, <1>7, SlotIsFresh
<1>9. \A n \in 1..Len(active') : \E i \in Placed \cup {k} :
        active'[n].interval = intervals[i] /\ Then(i) = InReg(active'[n].reg)
  BY <1>2, <1>4, <1>7 DEF ActiveAt
<1>10. ASSUME NEW i \in Placed \cup {k}
       PROVE  \/ \E slot \in 0..(next_slot' - 1) : Then(i) = StateSpill(slot)
              \/ \E n \in 1..Len(active') :
                   active'[n].interval = intervals[i] /\ Then(i) = InReg(active'[n].reg)
              \/ Then(i).kind = "Reg" /\ intervals[i].end < intervals[k].start
  <2>1. CASE i = k
    <3>1. next_slot \in 0..(next_slot' - 1)
      BY <1>4, <1>5
    <3> QED
      BY <1>7, <2>1, <3>1
  <2>2. CASE i \in Placed
    <3>1. 0..(next_slot - 1) \subseteq 0..(next_slot' - 1)
      BY <1>4, <1>5
    <3> QED
      BY <1>2, <1>4, <1>7, <2>2, <3>1 DEF Settled
  <2> QED
    BY <2>1, <2>2
<1>11. \A i, j \in Placed : i < j /\ intervals[j].start <= intervals[i].end => Then(i) # Then(j)
  BY <1>7 DEF AllocInv
<1> HIDE DEF there
<1>12. next_slot' \in Nat /\ active' \in Seq(Entry) /\ free' \in Seq(HostGpr) /\ Shared(active', free')
  BY <1>2, <1>4, <1>5
<1> QED
  BY <1>4, <1>7, <1>8, <1>9, <1>10, <1>11, <1>12 DEF Continues

LEMMA PlaceEvictingContinues ==
  ASSUME AllocInv, PlaceEvicting
  PROVE  Continues
<1> DEFINE a == Left.active
           n == Farthest(a)
           e == a[n]
           v == intervals[k].vreg
           c == SwapRemove(a, n)
           entry == Active(intervals[k], e.reg)
           b == Append(c, entry)
           there == StateSpill(next_slot)
           r == Insert(Insert(map, e.interval.vreg, there), v, InReg(e.reg))
<1>1. Placing /\ Left.free = <<>>
  BY DEF PlaceEvicting
<1>2. /\ a \in Seq(Entry) /\ a # <<>> /\ Shared(a, <<>>) /\ ActiveAt(a)
      /\ \A i \in Placed : Settled(i, a, intervals[k].start)
  BY <1>1, LeftFacts
<1>3. /\ k \in Nat \ {0} /\ k \notin Placed
      /\ intervals[k] \in Interval
      /\ \A i \in Placed : /\ intervals[i].vreg # v
                           /\ intervals[i].vreg \in DOMAIN map
                           /\ intervals[i].end \in Nat
      /\ \A i, j \in Placed : intervals[i].vreg = intervals[j].vreg => i = j
      /\ intervals[k].start \in Nat
  BY <1>1, NextInterval
<1>4. /\ k' = k + 1 /\ src' = src /\ intervals' = intervals /\ next_slot' = next_slot + 1
      /\ map' = r
      /\ free' = <<>>
      /\ active' = ByEnd(b)
  BY DEF PlaceEvicting
<1>5. n \in 1..Len(a) /\ Len(a) \in Nat
  BY <1>2, FarthestFacts, LenProperties
<1> HIDE DEF a, n
<1>6. e \in Entry /\ e.reg \in HostGpr
  BY <1>2, <1>5, EntryTypes
<1>7. PICK old \in Placed : e.interval = intervals[old] /\ Where(old) = InReg(e.reg)
  BY <1>2, <1>5 DEF ActiveAt
<1>8. entry \in Entry /\ entry.interval = intervals[k] /\ entry.reg = e.reg
  BY <1>3, <1>6 DEF Active, Entry
<1>9. /\ c \in Seq(Entry)
      /\ Len(c) = Len(a) - 1
      /\ \A j \in 1..(Len(a) - 1) : c[j] = a[IF j = n THEN Len(a) ELSE j]
  BY <1>2, <1>5, SwapRemoveFacts
<1> HIDE DEF entry, c
<1>10. /\ b \in Seq(Entry)
       /\ Len(b) = Len(a)
       /\ \A j \in 1..(Len(a) - 1) : b[j] = c[j]
       /\ b[Len(a)] = entry
  <2>1. /\ b \in Seq(Entry)
        /\ Len(b) = Len(c) + 1
        /\ \A j \in 1..Len(c) : b[j] = c[j]
        /\ b[Len(c) + 1] = entry
    BY <1>8, <1>9, AppendProperties
  <2> QED
    BY <1>5, <1>9, <2>1
<1> HIDE DEF b
(* What b holds: the others of a, and the entry.                           *)
<1>11. ASSUME NEW m \in 1..Len(b)
       PROVE  \/ m = Len(a) /\ b[m] = entry
              \/ m \in 1..(Len(a) - 1) /\ \E j \in 1..Len(a) : j # n /\ b[m] = a[j]
  <2>1. m = Len(a) \/ m \in 1..(Len(a) - 1)
    BY <1>5, <1>10
  <2>2. CASE m \in 1..(Len(a) - 1)
    <3>1. (IF m = n THEN Len(a) ELSE m) \in 1..Len(a) /\ (IF m = n THEN Len(a) ELSE m) # n
      BY <1>5, <2>2
    <3> QED
      BY <1>9, <1>10, <2>2, <3>1
  <2> QED
    BY <1>10, <2>1, <2>2
<1>12. ASSUME NEW j \in 1..Len(a), j # n
       PROVE  \E m \in 1..Len(b) : b[m] = a[j]
  <2>1. CASE j = Len(a)
    <3>1. n \in 1..(Len(a) - 1) /\ n \in 1..Len(b)
      BY <1>5, <1>10, <1>12, <2>1
    <3>2. b[n] = a[j]
      BY <1>9, <1>10, <2>1, <3>1
    <3> QED
      BY <3>1, <3>2
  <2>2. CASE j # Len(a)
    <3>1. j \in 1..(Len(a) - 1) /\ j \in 1..Len(b)
      BY <1>5, <1>10, <2>2
    <3>2. b[j] = a[j]
      BY <1>9, <1>10, <1>12, <3>1
    <3> QED
      BY <3>1, <3>2
  <2> QED
    BY <2>1, <2>2
<1>13. Len(a) \in 1..Len(b) /\ b[Len(a)].interval = intervals[k] /\ b[Len(a)].reg = e.reg
  BY <1>5, <1>8, <1>10
<1>14. Shared(b, <<>>)
  <2>1. \A j, m \in 1..Len(a) : a[j].reg = a[m].reg => j = m
    BY <1>2 DEF Shared
  <2>2. ASSUME NEW m \in 1..Len(b), NEW j \in 1..Len(b), b[m].reg = b[j].reg
        PROVE  m = j
    <3> DEFINE at(l) == IF l = Len(a) THEN n ELSE IF l = n THEN Len(a) ELSE l
    <3>1. at(m) \in 1..Len(a) /\ at(j) \in 1..Len(a)
      BY <1>5, <1>10
    <3>2. ASSUME NEW l \in 1..Len(b)
          PROVE  b[l].reg = a[at(l)].reg
      <4>1. CASE l = Len(a)
        BY <1>13, <4>1
      <4>2. CASE l # Len(a)
        <5>1. l \in 1..(Len(a) - 1)
          BY <1>5, <1>10, <4>2
        <5> QED
          BY <1>9, <1>10, <4>2, <5>1
      <4> QED
        BY <4>1, <4>2
    <3>3. at(m) = at(j)
      BY <2>1, <2>2, <3>1, <3>2
    <3> QED
      BY <1>5, <1>10, <3>3
  <2>3. \A m \in 1..Len(b) : b[m].reg \in Pool
    BY <1>2, <1>5, <1>8, <1>11 DEF Shared
  <2>4. ASSUME NEW g \in Pool
        PROVE  \E m \in 1..Len(b) : b[m].reg = g
    <3>1. Len(<<>>) = 0
      BY EmptySeq
    <3>2. PICK j \in 1..Len(a) : a[j].reg = g
      BY <1>2, <3>1 DEF Shared
    <3>3. CASE j = n
      BY <1>13, <3>2, <3>3
    <3>4. CASE j # n
      BY <1>12, <3>2, <3>4
    <3> QED
      BY <3>3, <3>4
  <2> QED
    BY <2>2, <2>3, <2>4, EmptySeq DEF Shared
<1>15. /\ active' \in Seq(Entry) /\ Shared(active', <<>>)
       /\ \A m \in 1..Len(active') : \E j \in 1..Len(b) : active'[m] = b[j]
       /\ \A j \in 1..Len(b) : \E m \in 1..Len(active') : active'[m] = b[j]
  BY <1>4, <1>10, <1>14, ByEndFacts
<1>16. /\ DOMAIN map' = DOMAIN map \cup {v}
       /\ Then(k) = InReg(e.reg)
       /\ Then(old) = there
       /\ \A i \in Placed \ {old} : Then(i) = Where(i)
  <2>1. /\ DOMAIN r = DOMAIN map \cup {v, intervals[old].vreg}
        /\ r[v] = InReg(e.reg)
        /\ intervals[old].vreg # v => r[intervals[old].vreg] = there
        /\ \A u \in DOMAIN map : u # v /\ u # intervals[old].vreg => r[u] = map[u]
    BY <1>7 DEF Insert
  <2> HIDE DEF r, there
  <2>2. \A i \in Placed : intervals[i].vreg # v /\ intervals[i].vreg \in DOMAIN map
    BY <1>3
  <2>3. \A i \in Placed \ {old} : intervals[i].vreg # intervals[old].vreg
    BY <1>3, <1>7
  <2>4. /\ DOMAIN r = DOMAIN map \cup {v}
        /\ r[intervals[old].vreg] = there
        /\ \A i \in Placed \ {old} : r[intervals[i].vreg] = map[intervals[i].vreg]
    BY <1>7, <2>1, <2>2, <2>3
  <2> QED
    BY <1>4, <2>1, <2>4 DEF Then, Where
<1> HIDE DEF r
<1>17. \A i \in Placed : Where(i) # there
  BY <1>2, SlotIsFresh
<1>18. next_slot \in Nat /\ next_slot \in 0..(next_slot' - 1)
       /\ 0..(next_slot - 1) \subseteq 0..(next_slot' - 1)
  BY <1>4 DEF AllocInv
(* An active interval other than e is that of another.                     *)
<1>19. ASSUME NEW j \in 1..Len(a), NEW i \in Placed,
              a[j].interval = intervals[i], Where(i) = InReg(a[j].reg)
       PROVE  (j = n <=> i = old) /\ (j # n => a[j].reg # e.reg)
  <2>1. j = n => i = old
    BY <1>3, <1>7, <1>19
  <2>2. j # n => a[j].reg # e.reg
    BY <1>2, <1>5 DEF Shared
  <2>3. InReg(a[j].reg).gpr = a[j].reg /\ InReg(e.reg).gpr = e.reg
    BY DEF InReg
  <2>4. j # n => i # old
    BY <1>7, <1>19, <2>2, <2>3
  <2> QED
    BY <2>1, <2>2, <2>4
<1>20. ASSUME NEW m \in 1..Len(active')
       PROVE  \E i \in Placed \cup {k} :
                active'[m].interval = intervals[i] /\ Then(i) = InReg(active'[m].reg)
  <2>1. PICK j \in 1..Len(b) : active'[m] = b[j]
    BY <1>15
  <2>2. CASE b[j] = entry
    BY <1>8, <1>16, <2>1, <2>2
  <2>3. CASE \E l \in 1..Len(a) : l # n /\ b[j] = a[l]
    <3>1. PICK l \in 1..Len(a) : l # n /\ b[j] = a[l]
      BY <2>3
    <3>2. PICK i \in Placed : a[l].interval = intervals[i] /\ Where(i) = InReg(a[l].reg)
      BY <1>2 DEF ActiveAt
    <3>3. i # old
      BY <1>19, <3>1, <3>2
    <3> QED
      BY <1>16, <2>1, <3>1, <3>2, <3>3
  <2> QED
    BY <1>11, <2>2, <2>3
<1>21. ASSUME NEW i \in Placed \cup {k}
       PROVE  \/ \E slot \in 0..(next_slot' - 1) : Then(i) = StateSpill(slot)
              \/ \E m \in 1..Len(active') :
                   active'[m].interval = intervals[i] /\ Then(i) = InReg(active'[m].reg)
              \/ Then(i).kind = "Reg" /\ intervals[i].end < intervals[k].start
  <2>1. CASE i = k
    <3>1. PICK m \in 1..Len(active') : active'[m] = b[Len(a)]
      BY <1>13, <1>15
    <3> QED
      BY <1>13, <1>16, <2>1, <3>1
  <2>2. CASE i = old
    BY <1>16, <1>18, <2>2
  <2>3. CASE i \in Placed \ {old}
    <3>1. Settled(i, a, intervals[k].start) /\ Then(i) = Where(i)
      BY <1>2, <1>16, <2>3
    <3>2. CASE \E j \in 1..Len(a) : a[j].interval = intervals[i] /\ Where(i) = InReg(a[j].reg)
      <4>1. PICK j \in 1..Len(a) : a[j].interval = intervals[i] /\ Where(i) = InReg(a[j].reg)
        BY <3>2
      <4>2. j # n
        BY <1>19, <2>3, <4>1
      <4>3. PICK l \in 1..Len(b) : b[l] = a[j]
        BY <1>12, <4>2
      <4>4. PICK m \in 1..Len(active') : active'[m] = b[l]
        BY <1>15
      <4> QED
        BY <3>1, <4>1, <4>3, <4>4
    <3> QED
      BY <1>18, <3>1, <3>2 DEF Settled
  <2> QED
    BY <2>1, <2>2, <2>3
<1>22. ASSUME NEW i \in Placed, NEW j \in Placed,
              i < j, intervals[j].start <= intervals[i].end
       PROVE  Then(i) # Then(j)
  <2>1. Where(i) # Where(j) /\ i # j
    BY <1>3, <1>22 DEF AllocInv, Placed
  <2> QED
    BY <1>16, <1>17, <2>1
<1>23. ASSUME NEW i \in Placed, intervals[k].start <= intervals[i].end
       PROVE  Then(i) # Then(k)
  <2>1. \A x : StateSpill(x) # InReg(e.reg)
    <3>1. \A x : StateSpill(x).kind = "StateSpill" /\ InReg(e.reg).kind = "Reg"
      BY DEF InReg, StateSpill
    <3> QED
      BY <3>1
  <2>2. CASE i = old
    BY <1>16, <2>1, <2>2
  <2>3. CASE i # old
    <3>1. Settled(i, a, intervals[k].start) /\ Then(i) = Where(i)
      BY <1>2, <1>16, <2>3
    <3>2. CASE \E j \in 1..Len(a) : a[j].interval = intervals[i] /\ Where(i) = InReg(a[j].reg)
      <4>1. PICK j \in 1..Len(a) : a[j].interval = intervals[i] /\ Where(i) = InReg(a[j].reg)
        BY <3>2
      <4>2. a[j].reg # e.reg
        BY <1>19, <2>3, <4>1
      <4>3. InReg(a[j].reg).gpr = a[j].reg /\ InReg(e.reg).gpr = e.reg
        BY DEF InReg
      <4> QED
        BY <1>16, <3>1, <4>1, <4>2, <4>3
    <3>3. CASE \E slot \in 0..(next_slot - 1) : Where(i) = StateSpill(slot)
      BY <1>16, <2>1, <3>1, <3>3
    <3>4. ~(intervals[i].end < intervals[k].start)
      BY <1>3, <1>23
    <3> QED
      BY <3>1, <3>2, <3>3, <3>4 DEF Settled
  <2> QED
    BY <2>2, <2>3
<1>24. next_slot' \in Nat /\ active' \in Seq(Entry) /\ free' \in Seq(HostGpr) /\ Shared(active', free')
  BY <1>4, <1>15, <1>18, EmptySeq
<1> QED
  BY <1>4, <1>16, <1>20, <1>21, <1>22, <1>23, <1>24 DEF Continues

(* The passes leave a block whose intervals are in the order of their      *)
(* starts, and none is placed.                                             *)
LEMMA OptimiseKeeps ==
  ASSUME AllocInv, Optimise
  PROVE  AllocInv'
<1>1. /\ k = 0 /\ k' = 1 /\ intervals' = compute_intervals(ops') /\ ops' = run_all(src)
      /\ src' = src /\ active' = active /\ free' = free /\ map' = map
      /\ next_slot' = next_slot
  BY DEF Optimise
<1>2. IsSeq(src) /\ map = <<>>
  BY <1>1 DEF AllocInv
<1>3. ByStart(intervals')
  BY <1>1, <1>2, OptimisedIsSeq, IntervalsByStart
<1>4. Placed = {} /\ Placed' = {}
  BY <1>1 DEF Placed
<1>5. Len(intervals') \in Nat
  BY <1>3, LenProperties DEF ByStart
<1>6. ActiveAt(active)'
  BY <1>1, <1>4 DEF AllocInv, ActiveAt
<1>7. DOMAIN map' = {}
  BY <1>1, <1>4 DEF AllocInv
<1>8. /\ next_slot' \in Nat
      /\ active' \in Seq(Entry) /\ free' \in Seq(HostGpr) /\ Shared(active', free')
  BY <1>1 DEF AllocInv
<1> QED
  BY <1>1, <1>2, <1>3, <1>4, <1>5, <1>6, <1>7, <1>8 DEF AllocInv

LEMMA AllocStep == AllocInv /\ [Next]_vars => AllocInv'
<1> SUFFICES ASSUME AllocInv, [Next]_vars PROVE AllocInv'
  OBVIOUS
<1>1. CASE Push
  <2>1. PICK op : src' = Append(src, op)
    BY <1>1 DEF Push
  <2>2. /\ UNCHANGED <<intervals, k, active, free, map, next_slot>>
        /\ IsSeq(src')
    BY <1>1, <2>1, AppendIsSeq DEF Push, AllocInv
  <2> QED
    BY <2>2 DEF AllocInv, ActiveAt, Settled, Placed, Where
<1>2. CASE Optimise
  BY <1>2, OptimiseKeeps
<1>3. CASE PlaceFree
  BY <1>3, PlaceFreeContinues, ContinuesKeeps DEF PlaceFree
<1>4. CASE PlaceEvicting
  BY <1>4, PlaceEvictingContinues, ContinuesKeeps DEF PlaceEvicting
<1>5. CASE PlaceSpilled
  BY <1>5, PlaceSpilledContinues, ContinuesKeeps DEF PlaceSpilled
<1>6. CASE UNCHANGED vars
  BY <1>6 DEF vars, AllocInv, ActiveAt, Settled, Placed, Where
<1> QED
  BY <1>1, <1>2, <1>3, <1>4, <1>5, <1>6 DEF Next, Done

(* The invariant of linear_scan, with the frontend, the passes and the     *)
(* intervals that come before it.                                          *)
THEOREM DesignInvariant == Spec => []AllocInv
<1>1. Init => AllocInv
  BY AllocInit
<1>2. AllocInv /\ [Next]_vars => AllocInv'
  BY AllocStep
<1> QED
  BY <1>1, <1>2, PTL DEF Spec

(* Whatever the frontend pushes: two virtual registers that are live at    *)
(* the same op of the optimised block have locations of their own, and no  *)
(* register of the pool of linear_scan is lost or held twice.              *)
THEOREM DesignLiveApart == Spec => []LiveApart
<1>1. ASSUME AllocInv
      PROVE  LiveApart
  <2>1. \A i, j \in 1..(k - 1) :
          i < j /\ intervals[j].start <= intervals[i].end
            => map[intervals[i].vreg] # map[intervals[j].vreg]
    BY <1>1 DEF AllocInv, Placed, Where
  <2>2. LET held == [n \in DOMAIN active |-> active[n].reg] \o free
        IN  IsInjective(held) /\ ToSet(held) = ToSet(HostGprs)
    BY <1>1, SharedIsWhole DEF AllocInv
  <2> QED
    BY <2>1, <2>2 DEF LiveApart
<1> QED
  BY <1>1, DesignInvariant, PTL

-----------------------------------------------------------------------------
(* What is spilled.                                                        *)

(* An interval that is sought by its virtual register is found.            *)
LEMMA EndOfInterval ==
  ASSUME AllocInv, NEW i \in 1..Len(intervals)
  PROVE  EndOf(intervals[i].vreg) = intervals[i].end
<1>1. DOMAIN intervals = 1..Len(intervals)
  BY LenProperties DEF AllocInv, ByStart
<1>2. \A n \in 1..Len(intervals) : intervals[n].vreg = intervals[i].vreg => n = i
  BY DEF AllocInv, ByStart
<1>3. (CHOOSE n \in DOMAIN intervals : intervals[n].vreg = intervals[i].vreg) = i
  BY <1>1, <1>2
<1> QED
  BY <1>3 DEF EndOf

(* An eviction leaves active the new interval and some of the others.      *)
LEMMA EvictingActive ==
  ASSUME AllocInv, PlaceEvicting, NEW m \in 1..Len(active')
  PROVE  \/ active'[m].interval = intervals[k]
         \/ \E j \in 1..Len(Left.active) : active'[m] = Left.active[j]
<1> DEFINE a == Left.active
           n == Farthest(a)
           c == SwapRemove(a, n)
           entry == Active(intervals[k], a[n].reg)
           b == Append(c, entry)
<1>1. Placing /\ Left.free = <<>> /\ active' = ByEnd(b)
  BY DEF PlaceEvicting
<1>2. a \in Seq(Entry) /\ a # <<>> /\ Len(a) \in Nat
  BY <1>1, LeftFacts, LenProperties
<1> HIDE DEF a
<1>3. n \in 1..Len(a)
  BY <1>2, FarthestFacts
<1> HIDE DEF n
<1>4. entry \in Entry /\ entry.interval = intervals[k]
  <2>1. intervals[k] \in Interval
    BY <1>1, NextInterval
  <2> QED
    BY <1>2, <1>3, <2>1, EntryTypes DEF Active, Entry
<1>5. /\ c \in Seq(Entry)
      /\ Len(c) = Len(a) - 1
      /\ \A j \in 1..(Len(a) - 1) : c[j] = a[IF j = n THEN Len(a) ELSE j]
  BY <1>2, <1>3, SwapRemoveFacts
<1> HIDE DEF c, entry
<1>6. /\ b \in Seq(Entry)
      /\ Len(b) = Len(c) + 1
      /\ \A j \in 1..Len(c) : b[j] = c[j]
      /\ b[Len(c) + 1] = entry
  BY <1>4, <1>5, AppendProperties
<1> HIDE DEF b
<1>7. PICK j \in 1..Len(b) : active'[m] = b[j]
  BY <1>1, <1>6, ByEndFacts
<1>8. CASE j = Len(c) + 1
  BY <1>4, <1>6, <1>7, <1>8
<1>9. CASE j # Len(c) + 1
  <2>1. j \in 1..(Len(a) - 1) /\ (IF j = n THEN Len(a) ELSE j) \in 1..Len(a)
    BY <1>2, <1>3, <1>5, <1>6, <1>9
  <2>2. active'[m] = a[IF j = n THEN Len(a) ELSE j]
    BY <1>5, <1>6, <1>7, <2>1
  <2> QED
    BY <2>1, <2>2 DEF a
<1> QED
  BY <1>8, <1>9

(* A virtual register whose place is now in memory.                        *)
Spilled(v) == map'[v].kind = "StateSpill" /\ (v \in DOMAIN map => map[v].kind = "Reg")

LEMMA FarthestSpilled ==
  ASSUME AllocInv, [Next]_vars, NEW v \in DOMAIN map', Spilled(v),
         NEW m \in DOMAIN active'
  PROVE  EndOf(v) >= active'[m].interval.end
<1>1. AllocInv'
  BY AllocStep
<1>2. m \in 1..Len(active')
  BY <1>1, LenProperties DEF AllocInv
<1>3. ASSUME map' = map
      PROVE  FALSE
  BY <1>3 DEF Spilled
<1>4. \A g : InReg(g).kind # "StateSpill"
  BY DEF InReg
<1>5. CASE PlaceFree
  <2> DEFINE g == Last(Left.free)
  <2>1. map' = Insert(map, intervals[k].vreg, InReg(g))
    BY <1>5 DEF PlaceFree
  <2> HIDE DEF g
  <2>2. v = intervals[k].vreg => map'[v] = InReg(g)
    BY <2>1 DEF Insert
  <2>3. v # intervals[k].vreg => v \in DOMAIN map /\ map'[v] = map[v]
    BY <2>1 DEF Insert
  <2> QED
    BY <1>4, <2>2, <2>3 DEF Spilled
<1>6. CASE PlaceSpilled
  <2> DEFINE a == Left.active
             n == Farthest(a)
  <2>1. /\ Placing /\ Left.free = <<>> /\ active' = a /\ ~Evicts(n)
        /\ map' = Insert(map, intervals[k].vreg, StateSpill(next_slot))
    BY <1>6 DEF PlaceSpilled
  <2>2. v = intervals[k].vreg
    BY <2>1 DEF Insert, Spilled
  <2>3. a \in Seq(Entry) /\ a # <<>>
    BY <2>1, LeftFacts
  <2>4. k \in 1..Len(intervals) /\ intervals[k].end \in Nat
    BY <2>1, NextInterval
  <2>5. EndOf(v) = intervals[k].end
    BY <2>2, <2>4, EndOfInterval
  <2>6. ~(a[n].interval.end > intervals[k].end)
    BY <2>1 DEF Evicts
  <2> HIDE DEF a
  <2>7. n \in 1..Len(a) /\ a[m].interval.end <= a[n].interval.end
    BY <1>2, <2>1, <2>3, FarthestFacts
  <2> HIDE DEF n
  <2>8. a[m].interval.end \in Nat /\ a[n].interval.end \in Nat
    BY <1>2, <2>1, <2>3, <2>7, EntryTypes
  <2> QED
    BY <2>1, <2>4, <2>5, <2>6, <2>7, <2>8
<1>7. CASE PlaceEvicting
  <2> DEFINE a == Left.active
             n == Farthest(a)
  <2>1. /\ Placing /\ Left.free = <<>> /\ Evicts(n)
        /\ map' = Insert(Insert(map, a[n].interval.vreg, StateSpill(next_slot)),
                         intervals[k].vreg, InReg(a[n].reg))
    BY <1>7 DEF PlaceEvicting
  <2>2. a \in Seq(Entry) /\ a # <<>> /\ ActiveAt(a)
    BY <2>1, LeftFacts
  <2>3. k \in 1..Len(intervals) /\ intervals[k].end \in Nat /\ Placed \subseteq 1..Len(intervals)
    BY <2>1, NextInterval
  <2>4. a[n].interval.end > intervals[k].end
    BY <2>1 DEF Evicts
  <2>5. \/ active'[m].interval = intervals[k]
        \/ \E j \in 1..Len(a) : active'[m] = a[j]
    BY <1>2, <1>7, EvictingActive
  <2> HIDE DEF a
  <2>6. n \in 1..Len(a) /\ \A j \in 1..Len(a) : a[j].interval.end <= a[n].interval.end
    BY <2>2, FarthestFacts
  <2> HIDE DEF n
  <2>7. PICK old \in Placed : a[n].interval = intervals[old]
    BY <2>2, <2>6 DEF ActiveAt
  <2>8. v = intervals[old].vreg
    <3> DEFINE there == StateSpill(next_slot)
               here == InReg(a[n].reg)
               r == Insert(Insert(map, intervals[old].vreg, there), intervals[k].vreg, here)
    <3>1. map' = r
      BY <2>1, <2>7
    <3>2. here.kind # "StateSpill"
      BY <1>4
    <3> HIDE DEF there, here
    <3>3. v = intervals[k].vreg => map'[v] = here
      BY <3>1 DEF Insert
    <3>4. v # intervals[k].vreg /\ v # intervals[old].vreg => v \in DOMAIN map /\ map'[v] = map[v]
      BY <3>1 DEF Insert
    <3> QED
      BY <3>2, <3>3, <3>4 DEF Spilled
  <2>9. EndOf(v) = a[n].interval.end
    BY <2>3, <2>7, <2>8, EndOfInterval
  <2>10. a[n].interval.end \in Nat
    BY <2>2, <2>6, EntryTypes
  <2>11. CASE active'[m].interval = intervals[k]
    BY <2>3, <2>4, <2>9, <2>10, <2>11
  <2>12. CASE \E j \in 1..Len(a) : active'[m] = a[j]
    <3>1. PICK j \in 1..Len(a) : active'[m] = a[j]
      BY <2>12
    <3>2. a[j].interval.end \in Nat /\ a[j].interval.end <= a[n].interval.end
      BY <2>2, <2>6, EntryTypes
    <3> QED
      BY <2>9, <2>10, <3>1, <3>2
  <2> QED
    BY <2>5, <2>11, <2>12
<1> QED
  BY <1>3, <1>5, <1>6, <1>7 DEF Next, Push, Optimise, Done, vars

(* Whenever linear_scan sends a virtual register to memory, its interval   *)
(* ends no earlier than any of those that stay in registers.               *)
THEOREM DesignSpillsFarthest == Spec => FarthestEndIsSpilled
<1>1. AllocInv /\ [Next]_vars
        => [\A v \in DOMAIN map' :
              map'[v].kind = "StateSpill" /\ (v \in DOMAIN map => map[v].kind = "Reg") =>
                \A n \in DOMAIN active' : EndOf(v) >= active'[n].interval.end]_vars
  BY FarthestSpilled DEF Spilled
<1> QED
  BY <1>1, DesignInvariant, PTL DEF Spec, FarthestEndIsSpilled

-----------------------------------------------------------------------------
(* Words of the width of an op, and what constant_fold makes of them.      *)

LEMMA WidthFacts ==
  ASSUME NEW bits \in designWidth
  PROVE  /\ bits \in 1..WideBits
         /\ 2 ^ bits \in Nat \ {0}
         /\ \A y \in Int : (y % 2 ^ bits) % bits = y % bits
<1>1. bits \in 1..WideBits /\ 2 ^ bits % bits = 0
  BY DEF designWidth
<1>2. 2 ^ bits \in Nat \ {0}
  BY <1>1, Power, BitsAssumption
<1>3. ASSUME NEW y \in Int
      PROVE  (y % 2 ^ bits) % bits = y % bits
  <2> DEFINE p == 2 ^ bits
             q == y \div p
             r == y % p
             c == p \div bits
             d == r \div bits
             e == r % bits
  <2>1. p \in Nat \ {0} /\ p % bits = 0
    BY <1>1, <1>2
  <2> HIDE DEF p
  <2>2. y = q * p + r /\ r \in Int /\ q \in Int
    BY ONLY <2>1, <1>3, Divides DEF q, r
  <2>3. p = c * bits /\ c \in Int
    <3>1. p = c * bits + (p % bits) /\ c \in Int
      BY ONLY <2>1, <1>1, BitsAssumption, Divides DEF c
    <3> QED
      BY ONLY <1>1, BitsAssumption, <2>1, <3>1
  <2>4. r = d * bits + e /\ d \in Int /\ e \in 0..(bits - 1)
    <3>1. bits \in Nat \ {0}
      BY <1>1, BitsAssumption
    <3> HIDE DEF r
    <3> QED
      BY ONLY <2>2, <3>1, Divides DEF d, e
  <2> HIDE DEF q, c, d
  <2>5. y = (q * c + d) * bits + e /\ q * c + d \in Int
    <3>1. q * (c * bits) = (q * c) * bits
      BY ONLY <2>2, <2>3, <1>1, BitsAssumption
    <3> QED
      BY ONLY <2>2, <2>3, <2>4, <1>1, <3>1, BitsAssumption
  <2> DEFINE f == q * c + d
  <2>6. f \in Int /\ y = f * bits + e
    BY ONLY <2>5
  <2> HIDE DEF f
  <2>7. (f * bits + e) % bits = e
    <3>0. bits \in Nat \ {0}
      BY <1>1, BitsAssumption
    <3> HIDE DEF e
    <3> QED
      BY ONLY <3>0, <2>4, <2>6, Quotient
  <2> QED
    BY ONLY <2>6, <2>7 DEF e, r, p
<1> QED
  BY <1>1, <1>2, <1>3

(* A product modulo a power of two.                                        *)
LEMMA TruncOfProduct ==
  ASSUME NEW wide \in 0..WideBits, NEW x \in Int, NEW y \in Int
  PROVE  Trunc(Trunc(x, wide) * Trunc(y, wide), wide) = Trunc(x * y, wide)
<1> DEFINE p == 2 ^ wide
           t == Trunc(x, wide)
           u == Trunc(y, wide)
<1>0. wide \in Nat /\ wide \in 0..WideBits /\ p \in Int
  BY Power, BitsAssumption
<1>1. PICK c \in Int : t = x + c * 2 ^ wide
  BY TruncFacts
<1>2. PICK d \in Int : u = y + d * 2 ^ wide
  BY TruncFacts
<1>3. t = x + c * p /\ u = y + d * p
  BY <1>1, <1>2
<1> HIDE DEF p, t, u
<1>4. t * u = x * y + (x * d + c * y + (c * d) * p) * p
  <2>1. (x + c * p) * (y + d * p) = x * y + x * (d * p) + (c * p) * y + (c * p) * (d * p)
    BY <1>0
  <2>2. /\ x * (d * p) = (x * d) * p
        /\ (c * p) * y = (c * y) * p
        /\ (c * p) * (d * p) = ((c * d) * p) * p
    BY <1>0
  <2> QED
    BY <1>0, <1>3, <2>1, <2>2
<1> DEFINE e == x * d + c * y + (c * d) * p
           z == x * y
<1>5. e \in Int /\ z \in Int
  BY <1>0
<1>6. t * u = z + e * p
  BY <1>4
<1> HIDE DEF e, z
<1>7. Trunc(z + e * 2 ^ wide, wide) = Trunc(z, wide)
  BY <1>5, TruncFacts
<1> QED
  BY <1>6, <1>7 DEF p, t, u, z

(* The bits of a word of width wide, from its bits below wide.                   *)
LEMMA FoldLogic ==
  ASSUME NEW wide \in 1..WideBits, NEW x \in Word, NEW y \in Word,
         NEW name \in {"and", "or", "xor"}, NEW i, NEW j
  PROVE  Trunc(Alu(name, i, x, y), wide) = Alu(name, j, Trunc(x, wide), Trunc(y, wide))
<1> DEFINE t == Trunc(x, wide)
           u == Trunc(y, wide)
           a == Alu(name, i, x, y)
           c == Alu(name, j, t, u)
           w == WideBits
<1>0. /\ WideBits \in Nat /\ wide \in 0..WideBits /\ WideBits \in 0..WideBits
      /\ x \in Int /\ y \in Int /\ x \in 0..(2 ^ w - 1) /\ y \in 0..(2 ^ w - 1)
  BY Power, BitsAssumption DEF Word
<1>1. t \in 0..(2 ^ wide - 1) /\ u \in 0..(2 ^ wide - 1)
  BY <1>0, TruncFacts
<1>2. /\ a \in 0..(2 ^ w - 1)
      /\ \A n \in 0..(WideBits - 1) :
           /\ name = "and" => (BitOf(a, n) = 1 <=> BitOf(x, n) = 1 /\ BitOf(y, n) = 1)
           /\ name = "or"  => (BitOf(a, n) = 1 <=> BitOf(x, n) = 1 \/ BitOf(y, n) = 1)
           /\ name = "xor" => (BitOf(a, n) = 1 <=> BitOf(x, n) # BitOf(y, n))
  <2>1. w \in 0..WideBits
    BY <1>0
  <2> HIDE DEF w
  <2> QED
    BY <1>0, <2>1, LogicBits
<1>3. /\ c \in 0..(2 ^ wide - 1)
      /\ \A n \in 0..(WideBits - 1) :
           /\ name = "and" => (BitOf(c, n) = 1 <=> BitOf(t, n) = 1 /\ BitOf(u, n) = 1)
           /\ name = "or"  => (BitOf(c, n) = 1 <=> BitOf(t, n) = 1 \/ BitOf(u, n) = 1)
           /\ name = "xor" => (BitOf(c, n) = 1 <=> BitOf(t, n) # BitOf(u, n))
  <2> HIDE DEF t, u
  <2> QED
    BY <1>0, <1>1, LogicBits
<1>4. a \in Int /\ c \in Int
  <2>1. 2 ^ w \in Nat /\ 2 ^ wide \in Nat
    BY <1>0, Power
  <2> HIDE DEF a, c, w
  <2> QED
    BY <1>2, <1>3, <2>1
<1>5. ASSUME NEW n \in 0..(wide - 1)
      PROVE  BitOf(Trunc(a, wide), n) = BitOf(c, n)
  <2>1. n \in 0..(WideBits - 1) /\ n \in 0..WideBits /\ n < wide
    BY <1>0
  <2> HIDE DEF a, c
  <2>2. BitOf(Trunc(a, wide), n) = BitOf(a, n)
    BY <1>0, <1>4, <2>1, BitOfTrunc
  <2>3. BitOf(t, n) = BitOf(x, n) /\ BitOf(u, n) = BitOf(y, n)
    BY <1>0, <2>1, BitOfTrunc
  <2>4. BitOf(a, n) \in 0..1 /\ BitOf(c, n) \in 0..1
    BY <1>4, <2>1, BitRange
  <2> HIDE DEF t, u
  <2>5. BitOf(a, n) = 1 <=> BitOf(c, n) = 1
    BY <1>2, <1>3, <2>1, <2>3
  <2>6. BitOf(a, n) = BitOf(c, n)
    BY <2>4, <2>5
  <2> QED
    BY <2>2, <2>6
<1> HIDE DEF a, c
<1>6. Trunc(a, wide) \in 0..(2 ^ wide - 1)
  BY <1>0, <1>4, TruncFacts
<1>7. SameBelow(wide, Trunc(a, wide), c)
  BY <1>5 DEF SameBelow
<1> QED
  BY <1>0, <1>3, <1>6, <1>7, SameBits DEF a, c, t, u

(* The sign extension of x, read as a signed number.                       *)
LEMMA SignExtended ==
  ASSUME NEW wide \in 1..WideBits, NEW t \in 0..(2 ^ wide - 1)
  PROVE  /\ Trunc(Signed(t, wide), WideBits) \in Word
         /\ Signed(Trunc(Signed(t, wide), WideBits), WideBits) = Signed(t, wide)
<1> DEFINE p == 2 ^ wide
           h == 2 ^ (wide - 1)
           P == 2 ^ WideBits
           H == 2 ^ (WideBits - 1)
           z == Signed(t, wide)
<1>1. /\ WideBits \in Nat /\ wide \in Nat /\ WideBits \in 1..WideBits
      /\ wide - 1 \in 0..WideBits /\ WideBits - 1 \in 0..WideBits
      /\ wide - 1 \in 0..(WideBits - 1) /\ WideBits \in 0..WideBits /\ wide \in 0..WideBits
  BY BitsAssumption
<1>2. p = 2 * h /\ P = 2 * H
  <2>1. 2 ^ ((wide - 1) + 1) = 2 * 2 ^ (wide - 1) /\ 2 ^ ((WideBits - 1) + 1) = 2 * 2 ^ (WideBits - 1)
    BY <1>1, PowerAssumption
  <2>2. (wide - 1) + 1 = wide /\ (WideBits - 1) + 1 = WideBits
    BY <1>1
  <2> QED
    BY <2>1, <2>2
<1>3. h \in Nat \ {0} /\ H \in Nat \ {0} /\ h <= H
  BY <1>1, PowerGrows
<1>4. z = IF t >= h THEN t - p ELSE t
  BY DEF Signed
<1>5. t \in 0..(p - 1)
  OBVIOUS
<1>6. t \in Int /\ z \in Int /\ z >= -h /\ z < h
  <2> HIDE DEF z, h, p
  <2> QED
    BY <1>2, <1>3, <1>4, <1>5
<1>7. Trunc(z, WideBits) = IF z >= 0 THEN z ELSE z + P
  <2>1. Trunc(z, WideBits) = z % P
    BY DEF Trunc
  <2> HIDE DEF z, h, p, P, H
  <2>2. CASE z >= 0
    <3>1. (0 * P + z) % P = z
      <4>1. P \in Nat \ {0} /\ z \in 0..(P - 1) /\ 0 \in Int
        BY <1>2, <1>3, <1>6, <2>2
      <4> DEFINE o == 0
      <4>2. o \in Int /\ o * P + z = z
        BY <4>1
      <4> HIDE DEF o
      <4>3. (o * P + z) % P = z
        BY ONLY <4>1, <4>2, Quotient
      <4> QED
        BY <4>2, <4>3 DEF o
    <3>2. 0 * P + z = z
      BY <1>2, <1>3, <1>6
    <3> QED
      BY <2>1, <2>2, <3>1, <3>2
  <2>3. CASE ~(z >= 0)
    <3> DEFINE q == -1
               r == z + P
    <3>1. P \in Nat \ {0} /\ r \in 0..(P - 1) /\ q \in Int /\ q * P + r = z
      BY <1>2, <1>3, <1>6, <2>3
    <3> HIDE DEF q, r
    <3>2. (q * P + r) % P = r
      BY ONLY <3>1, Quotient
    <3> QED
      BY <2>1, <2>3, <3>1, <3>2 DEF r
  <2> QED
    BY <2>2, <2>3
<1>8. Signed(Trunc(z, WideBits), WideBits) =
        IF Trunc(z, WideBits) >= H THEN Trunc(z, WideBits) - P ELSE Trunc(z, WideBits)
  BY DEF Signed
<1>9. Trunc(z, WideBits) \in Word
  <2>1. z \in Int /\ WideBits \in 0..WideBits
    BY <1>1, <1>6
  <2> HIDE DEF z
  <2> QED
    BY <2>1, TruncFacts DEF Word
<1>10. Signed(Trunc(z, WideBits), WideBits) = z
  <2> HIDE DEF z, h, p, P, H
  <2>1. CASE z >= 0
    BY <1>2, <1>3, <1>6, <1>7, <1>8, <2>1
  <2>2. CASE ~(z >= 0)
    BY <1>2, <1>3, <1>6, <1>7, <1>8, <2>2
  <2> QED
    BY <2>1, <2>2
<1> QED
  BY <1>9, <1>10

(* constant_fold computes what the op does, on words of its width.         *)
LEMMA FoldCorrect ==
  ASSUME NEW bits \in designWidth, NEW name \in aluNames,
         NEW x \in Word, NEW y \in Word, name = "shr" => x < 2 ^ bits
  PROVE  /\ fold_binary(name, bits, x, y) = Alu(name, bits, Trunc(x, bits), Trunc(y, bits))
         /\ fold_binary(name, bits, x, y) \in 0..(2 ^ bits - 1)
         /\ fold_binary(name, bits, x, y) \in Word
<1> DEFINE f == fold_binary(name, bits, x, y)
           t == Trunc(x, bits)
           u == Trunc(y, bits)
           w == WideBits
           count == y % bits
<1>0. /\ w \in Nat /\ w \in 0..w /\ w \in 1..w /\ bits \in 1..w /\ bits \in 0..w /\ bits \in Nat \ {0}
      /\ bits \in 0..w
      /\ x \in Int /\ y \in Int /\ x \in Nat /\ y \in Nat
  BY WidthFacts, BitsAssumption, Power DEF Word
<1>1. t \in 0..(2 ^ bits - 1) /\ u \in 0..(2 ^ bits - 1)
  BY <1>0, TruncFacts
<1>2. /\ 2 ^ bits \in Nat \ {0} /\ 2 ^ bits <= 2 ^ w /\ 2 ^ w \in Nat \ {0}
  BY <1>0, PowerGrows
<1>3. t \in Int /\ u \in Int
  BY <1>1, <1>2
<1>4. count \in 0..(bits - 1) /\ count % w = count /\ u % bits = count
  <2>1. count \in 0..(bits - 1)
    BY ONLY <1>0, Divides DEF count
  <2>2. u % bits = count
    BY <1>0, WidthFacts DEF Trunc
  <2> HIDE DEF count
  <2>3. count % w = count
    BY ONLY <1>0, <2>1
  <2> QED
    BY <2>1, <2>2, <2>3
<1>5. f = Trunc(IF name = "sar" THEN Alu(name, w, Trunc(Signed(t, bits), w), count)
                ELSE Alu(name, w, x, IF name \in {"shl", "shr"} THEN count ELSE y), bits)
  BY DEF fold_binary, mask_to_width, sign_extend_width
<1>6. count \in 0..w /\ 2 ^ count \in Nat \ {0}
  <2>1. count \in 0..w
    BY <1>0, <1>4
  <2> QED
    BY <2>1, <1>0, PowerGrows
<1> SUFFICES /\ f = Alu(name, bits, t, u)
             /\ f \in 0..(2 ^ bits - 1)
  <2>1. f \in 0..(2 ^ bits - 1) => f \in Word
    <3> HIDE DEF f
    <3> QED
      BY <1>2 DEF Word
  <2> QED
    BY <2>1
<1> HIDE DEF f, count
<1>7. CASE name \in {"add", "sub", "mul"}
  <2>1. /\ name = "add" => f = Trunc(Trunc(x + y, w), bits)
        /\ name = "sub" => f = Trunc(Trunc(x - y, w), bits)
        /\ name = "mul" => f = Trunc(Trunc(x * y, w), bits)
    BY <1>5, <1>7, AluIs
  <2>2. x + y \in Int /\ x - y \in Int /\ x * y \in Int
    BY <1>0
  <2>3. /\ name = "add" => f = Trunc(x + y, bits)
        /\ name = "sub" => f = Trunc(x - y, bits)
        /\ name = "mul" => f = Trunc(x * y, bits)
    <3> DEFINE a == x + y
               s == x - y
               m == x * y
    <3>1. a \in Int /\ s \in Int /\ m \in Int
      BY <2>2
    <3>2. /\ name = "add" => f = Trunc(Trunc(a, w), bits)
          /\ name = "sub" => f = Trunc(Trunc(s, w), bits)
          /\ name = "mul" => f = Trunc(Trunc(m, w), bits)
      BY <2>1
    <3> HIDE DEF a, s, m
    <3>3. /\ Trunc(Trunc(a, w), bits) = Trunc(a, bits)
          /\ Trunc(Trunc(s, w), bits) = Trunc(s, bits)
          /\ Trunc(Trunc(m, w), bits) = Trunc(m, bits)
      BY <1>0, <3>1, TruncOfTrunc
    <3> QED
      BY <3>2, <3>3 DEF a, s, m
  <2>4. /\ Trunc(t + u, bits) = Trunc(x + y, bits)
        /\ Trunc(t - u, bits) = Trunc(x - y, bits)
        /\ Trunc(t * u, bits) = Trunc(x * y, bits)
    BY <1>0, TruncOfSum, TruncOfProduct
  <2>5. /\ Trunc(x + y, bits) \in 0..(2 ^ bits - 1)
        /\ Trunc(x - y, bits) \in 0..(2 ^ bits - 1)
        /\ Trunc(x * y, bits) \in 0..(2 ^ bits - 1)
    BY <1>0, <2>2, TruncFacts
  <2>6. /\ Alu("add", bits, t, u) = Trunc(t + u, bits)
        /\ Alu("sub", bits, t, u) = Trunc(t - u, bits)
        /\ Alu("mul", bits, t, u) = Trunc(t * u, bits)
    BY AluIs
  <2> QED
    BY <1>7, <2>3, <2>4, <2>5, <2>6
<1>8. CASE name \in {"and", "or", "xor"}
  <2>1. f = Trunc(Alu(name, w, x, y), bits)
    BY <1>5, <1>8
  <2>2. f = Alu(name, bits, t, u)
    BY <1>0, <1>8, <2>1, FoldLogic
  <2>3. Alu(name, bits, t, u) \in 0..(2 ^ bits - 1)
    <3> HIDE DEF t, u
    <3> QED
      BY <1>0, <1>1, <1>8, LogicBits
  <2> QED
    BY <2>2, <2>3
<1>9. CASE name = "shl"
  <2> DEFINE e == 2 ^ count
             z == x * e
  <2>1. f = Trunc(Trunc(x * 2 ^ (count % w), w), bits)
    BY <1>5, <1>9, AluIs
  <2>2. f = Trunc(Trunc(z, w), bits)
    BY <2>1, <1>4
  <2>3. z \in Int /\ e \in Int
    BY <1>0, <1>6
  <2> HIDE DEF z
  <2>4. f = Trunc(z, bits) /\ Trunc(z, bits) \in 0..(2 ^ bits - 1)
    BY <1>0, <2>2, <2>3, TruncOfTrunc, TruncFacts
  <2>5. Alu(name, bits, t, u) = Trunc(t * e, bits)
    <3>1. Alu("shl", bits, t, u) = Trunc(t * 2 ^ (u % bits), bits)
      BY AluIs
    <3> QED
      BY <1>4, <1>9, <3>1
  <2> HIDE DEF e
  <2>6. Trunc(t * e, bits) = Trunc(z, bits)
    <3>1. PICK c \in Int : t = x + c * 2 ^ bits
      BY <1>0, TruncFacts
    <3> DEFINE p == 2 ^ bits
               d == c * e
    <3>2. p \in Int /\ t = x + c * p
      BY <1>2, <3>1
    <3> HIDE DEF p, t
    <3>3. t * e = z + d * p /\ d \in Int
      <4>1. (x + c * p) * e = x * e + (c * p) * e /\ (c * p) * e = (c * e) * p
        BY <1>0, <2>3, <3>2
      <4> QED
        BY <2>3, <3>2, <4>1 DEF z
    <3> HIDE DEF d
    <3>4. Trunc(z + d * 2 ^ bits, bits) = Trunc(z, bits)
      BY <1>0, <2>3, <3>3, TruncFacts
    <3> QED
      BY <3>3, <3>4 DEF p
  <2> QED
    BY <2>4, <2>5, <2>6
<1>10. CASE name = "shr"
  <2> DEFINE e == 2 ^ count
             p == 2 ^ bits
             z == x \div e
  <2>1. f = Trunc(x \div 2 ^ (count % w), bits)
    BY <1>5, <1>10, AluIs
  <2>2. f = Trunc(z, bits)
    BY <2>1, <1>4
  <2>3. t = x
    <3>1. x \in 0..(2 ^ bits - 1)
      BY <1>0, <1>2, <1>10
    <3> QED
      BY <1>0, <3>1, TruncFacts
  <2>4. Alu(name, bits, t, u) = z
    <3>1. Alu("shr", bits, t, u) = t \div 2 ^ (u % bits)
      BY AluIs
    <3> QED
      BY <1>4, <1>10, <2>3, <3>1
  <2>5. z \in 0..(p - 1)
    <3>1. e \in Nat \ {0} /\ p \in Nat /\ x \in Nat /\ x < p
      BY <1>0, <1>2, <1>6, <1>10
    <3> HIDE DEF e, p
    <3>2. x = z * e + (x % e) /\ x % e \in 0..(e - 1) /\ z \in Int
      BY ONLY <3>1, Divides
    <3> HIDE DEF z
    <3>3. z >= 0
      <4> SUFFICES ASSUME z <= -1 PROVE FALSE
        BY <3>2
      <4>1. z * e <= (-1) * e
        BY ONLY <3>1, <3>2, z <= -1
      <4> QED
        BY <3>1, <3>2, <4>1
    <3>4. z <= z * e
      BY ONLY <3>1, <3>2, <3>3
    <3> QED
      BY ONLY <3>1, <3>2, <3>3, <3>4
  <2> HIDE DEF z
  <2>6. Trunc(z, bits) = z
    <3>1. z \in Int
      BY <1>2, <2>5
    <3> QED
      BY <1>0, <2>5, <3>1, TruncFacts
  <2> QED
    BY <2>2, <2>4, <2>5, <2>6
<1>11. CASE name = "sar"
  <2> DEFINE s == Signed(t, bits)
             e == 2 ^ count
             z == s \div e
             r == Trunc(s, w)
  <2>1. f = Trunc(Alu("sar", w, r, count), bits)
    BY <1>5, <1>11
  <2>2. Signed(r, w) = s
    BY <1>0, <1>1, SignExtended
  <2>3. f = Trunc(Trunc(z, w), bits)
    <3>1. Alu("sar", w, r, count) = Trunc(Signed(r, w) \div 2 ^ (count % w), w)
      BY AluIs
    <3> QED
      BY <1>4, <2>1, <2>2, <3>1
  <2>4. Alu(name, bits, t, u) = Trunc(z, bits)
    <3>1. Alu("sar", bits, t, u) = Trunc(Signed(t, bits) \div 2 ^ (u % bits), bits)
      BY AluIs
    <3> QED
      BY <1>4, <1>11, <3>1
  <2>5. z \in Int
    <3>1. s \in Int
      BY <1>0, <1>3, SignedFacts
    <3>2. e \in Nat \ {0}
      BY <1>6
    <3> HIDE DEF s, e
    <3> QED
      BY ONLY <3>1, <3>2, Divides DEF z
  <2> HIDE DEF z
  <2>6. Trunc(Trunc(z, w), bits) = Trunc(z, bits) /\ Trunc(z, bits) \in 0..(2 ^ bits - 1)
    <3>1. Trunc(Trunc(z, w), bits) = Trunc(z, bits)
      BY ONLY <1>0, <2>5, TruncOfTrunc
    <3>2. Trunc(z, bits) \in 0..(2 ^ bits - 1)
      BY ONLY <1>0, <2>5, TruncFacts
    <3> QED
      BY <3>1, <3>2
  <2> QED
    BY <2>3, <2>4, <2>6
<1> QED
  BY <1>7, <1>8, <1>9, <1>10, <1>11 DEF aluNames

-----------------------------------------------------------------------------
(* Memory.                                                                 *)

BytesOf(bits) == bits \div ByteBits

LEMMA BytesFacts ==
  ASSUME NEW bits \in designWidth, ByteBits \in 1..WideBits
  PROVE  /\ BytesOf(bits) \in Nat \ {0}
         /\ ByteBits * BytesOf(bits) = bits
<1> DEFINE q == BytesOf(bits)
<1>1. bits \in 1..WideBits /\ bits % ByteBits = 0 /\ WideBits \in Nat
  BY BitsAssumption DEF designWidth
<1>2. ByteBits \in Nat \ {0} /\ bits \in Int
  BY <1>1
<1>3. bits = q * ByteBits + (bits % ByteBits) /\ q \in Int
  BY ONLY <1>2, Divides DEF BytesOf
<1> HIDE DEF q
<1>4. bits = q * ByteBits
  BY ONLY <1>1, <1>2, <1>3
<1>5. q > 0
  <2> SUFFICES ASSUME q <= 0 PROVE FALSE
    BY <1>3
  <2>1. q * ByteBits <= 0 * ByteBits
    BY ONLY <1>2, <1>3, q <= 0
  <2> QED
    BY <1>1, <1>2, <1>4, <2>1
<1>6. ByteBits * q = q * ByteBits
  BY ONLY <1>2, <1>3
<1> QED
  BY ONLY <1>3, <1>4, <1>5, <1>6 DEF q

(* The place of a byte is one of the value's, and is its own opposite.     *)
LEMMA PlaceFacts ==
  ASSUME NEW bytes \in Nat, NEW j \in 0..(bytes - 1), NEW big
  PROVE  /\ Place(j, bytes, big) \in 0..(bytes - 1)
         /\ Place(Place(j, bytes, big), bytes, big) = j
BY DEF Place

(* Where bit n of a value is.                                              *)
LEMMA ByteOfBit ==
  ASSUME NEW bits \in designWidth, ByteBits \in 1..WideBits, NEW n \in 0..(bits - 1)
  PROVE  /\ n \div ByteBits \in 0..(BytesOf(bits) - 1)
         /\ n % ByteBits \in 0..(ByteBits - 1)
         /\ n = ByteBits * (n \div ByteBits) + (n % ByteBits)
<1> DEFINE q == n \div ByteBits
           r == n % ByteBits
           c == BytesOf(bits)
           d == ByteBits
<1>1. d \in Nat \ {0} /\ n \in Nat /\ n < d * c /\ c \in Nat
  <2>1. bits \in Nat /\ d * c = bits /\ c \in Nat
    BY BytesFacts, BitsAssumption, WidthFacts
  <2> QED
    BY <2>1, BitsAssumption
<1> HIDE DEF c, d
<1>2. n = q * d + r /\ r \in 0..(d - 1) /\ q \in Int
  BY ONLY <1>1, Divides DEF q, r, d
<1> HIDE DEF q, r
<1>3. q >= 0
  <2> SUFFICES ASSUME q <= -1 PROVE FALSE
    BY <1>2
  <2>1. q * d <= (-1) * d
    BY ONLY <1>1, <1>2, q <= -1
  <2> QED
    BY <1>1, <1>2, <2>1
<1>4. q < c
  <2> SUFFICES ASSUME q >= c PROVE FALSE
    BY <1>1, <1>2
  <2>1. q * d >= c * d
    BY ONLY <1>1, <1>2, q >= c
  <2> QED
    BY <1>1, <1>2, <2>1
<1>5. q * d = d * q
  BY ONLY <1>1, <1>2
<1>6. q \in 0..(c - 1) /\ r \in 0..(d - 1) /\ n = d * q + r
  BY ONLY <1>1, <1>2, <1>3, <1>4, <1>5
<1> QED
  BY ONLY <1>6 DEF q, r, c, d

(* A load reads the bytes of its range only.                               *)
LEMMA LoadReads ==
  ASSUME NEW bits \in designWidth, ByteBits \in 1..WideBits, NEW mem, NEW other, NEW a \in Nat, NEW big,
         \A c \in a..(a + BytesOf(bits) - 1) : mem[c] = other[c]
  PROVE  LoadBytes(mem, a, BytesOf(bits), big) = LoadBytes(other, a, BytesOf(bits), big)
<1> DEFINE bytes == BytesOf(bits)
           At(m, n) == BitOf(m[a + Place(n \div ByteBits, bytes, big)], n % ByteBits) = 1
           S(m) == {n \in 0..(WideBits - 1) : n < ByteBits * bytes /\ At(m, n)}
<1>1. /\ LoadBytes(mem, a, bytes, big) = Ones(S(mem))
      /\ LoadBytes(other, a, bytes, big) = Ones(S(other))
  BY DEF LoadBytes, WithBits
<1>2. ByteBits * bytes = bits /\ bytes \in Nat
  BY BytesFacts
<1>3. ASSUME NEW n \in 0..(WideBits - 1), n < ByteBits * bytes
      PROVE  At(mem, n) <=> At(other, n)
  <2> DEFINE p == Place(n \div ByteBits, bytes, big)
  <2>1. n \in 0..(bits - 1)
    BY <1>2, <1>3, WidthFacts, BitsAssumption
  <2>2. n \div ByteBits \in 0..(bytes - 1)
    BY <2>1, ByteOfBit
  <2> HIDE DEF bytes
  <2>3. p \in 0..(bytes - 1)
    BY <1>2, <2>2, PlaceFacts
  <2> HIDE DEF p
  <2>4. a + p \in a..(a + bytes - 1)
    BY <1>2, <2>3
  <2>5. mem[a + p] = other[a + p]
    BY <2>4 DEF bytes
  <2> QED
    BY <2>5 DEF p
<1> HIDE DEF At
<1>4. S(mem) = S(other)
  BY <1>3
<1> QED
  BY <1>1, <1>4

(* What a store leaves there, a load of the same bytes finds.              *)
LEMMA LoadOfStore ==
  ASSUME NEW bits \in designWidth, ByteBits \in 1..WideBits, NEW mem, NEW a \in Nat, NEW big,
         NEW x \in Word, a..(a + BytesOf(bits) - 1) \subseteq DOMAIN mem
  PROVE  LoadBytes(StoreBytes(mem, a, BytesOf(bits), big, x), a, BytesOf(bits), big)
           = Trunc(x, bits)
<1> DEFINE bytes == BytesOf(bits)
           after == StoreBytes(mem, a, bytes, big, x)
           S == {n \in 0..(WideBits - 1) :
                   /\ n < ByteBits * bytes
                   /\ BitOf(after[a + Place(n \div ByteBits, bytes, big)], n % ByteBits) = 1}
           t == Trunc(x, bits)
<1>1. LoadBytes(after, a, bytes, big) = Ones(S)
  BY DEF LoadBytes, WithBits
<1>2. /\ ByteBits * bytes = bits /\ bytes \in Nat /\ ByteBits \in Nat \ {0} /\ bits \in 1..WideBits
      /\ bits \in 0..WideBits /\ WideBits \in Nat /\ x \in Int
      /\ ByteBits \in 0..WideBits
  BY BytesFacts, BitsAssumption, WidthFacts, Power DEF Word
<1>3. t \in 0..(2 ^ bits - 1) /\ t \in Word /\ t \in Int
  <2>1. t \in 0..(2 ^ bits - 1)
    BY <1>2, TruncFacts
  <2>2. 2 ^ bits <= 2 ^ WideBits /\ 2 ^ bits \in Nat /\ 2 ^ WideBits \in Nat
    BY <1>2, PowerGrows
  <2> HIDE DEF t
  <2> QED
    BY <2>1, <2>2 DEF Word
<1>4. ASSUME NEW n \in 0..(WideBits - 1)
      PROVE  n \in S <=> BitOf(t, n) = 1
  <2>0. n \in 0..WideBits
    BY <1>2
  <2>1. BitOf(t, n) = IF n < bits THEN BitOf(x, n) ELSE 0
    BY <1>2, <2>0, BitOfTrunc
  <2>2. CASE n < bits
    <3> DEFINE q == n \div ByteBits
               r == n % ByteBits
               p == Place(q, bytes, big)
               c == a + p
    <3>1. q \in 0..(bytes - 1) /\ r \in 0..(ByteBits - 1) /\ n = ByteBits * q + r
      <4>1. n \in 0..(bits - 1)
        BY <2>2, <1>2
      <4> QED
        BY <4>1, ByteOfBit
    <3> HIDE DEF q, r, bytes
    <3>2. p \in 0..(bytes - 1) /\ Place(p, bytes, big) = q
      BY <1>2, <3>1, PlaceFacts
    <3>3. c \in a..(a + bytes - 1) /\ c - a = p /\ c \in DOMAIN mem
      <4> HIDE DEF p
      <4>1. c \in a..(a + bytes - 1) /\ c - a = p
        BY <1>2, <3>2
      <4> QED
        BY <4>1 DEF bytes
    <3>4. after[c] = Trunc(x \div 2 ^ (ByteBits * q), ByteBits)
      <4> HIDE DEF p, c
      <4>1. after[c] = Trunc(x \div 2 ^ (ByteBits * Place(c - a, bytes, big)), ByteBits)
        BY <3>3 DEF StoreBytes
      <4> QED
        BY <3>2, <3>3, <4>1
    <3>5. BitOf(after[c], r) = BitOf(x, n)
      <4> DEFINE wide == ByteBits * q
                 z == x \div 2 ^ wide
      <4>1. wide \in Nat /\ r \in Nat /\ r + wide = n /\ r + wide <= WideBits /\ r < ByteBits
             /\ r \in 0..WideBits /\ wide \in 0..WideBits
        <5>1. wide \in Nat
          BY <1>2, <3>1
        <5> HIDE DEF wide
        <5>2. n = wide + r
          BY <3>1 DEF wide
        <5> QED
          BY <1>2, <3>1, <5>1, <5>2
      <4>2. z \in Int
        <5>1. 2 ^ wide \in Nat \ {0}
          BY <1>2, <4>1, PowerGrows
        <5> HIDE DEF wide
        <5> QED
          BY <1>2, <5>1, Divides
      <4> HIDE DEF z, wide, after, c
      <4>3. after[c] = Trunc(z, ByteBits)
        BY <3>4 DEF z, wide
      <4>4. BitOf(Trunc(z, ByteBits), r) = BitOf(z, r)
        BY <1>2, <4>1, <4>2, BitOfTrunc
      <4>5. BitOf(z, r) = BitOf(x, wide + r)
        BY <1>2, <4>1, BitOfQuotient DEF z
      <4>6. wide + r = n
        BY <4>1
      <4> QED
        BY <4>3, <4>4, <4>5, <4>6
    <3>6. n \in S <=> BitOf(after[c], r) = 1
      BY <1>2, <2>2 DEF q, r
    <3> QED
      BY <2>1, <2>2, <3>5, <3>6
  <2>3. CASE ~(n < bits)
    <3>1. n \notin S
      BY <1>2, <2>3
    <3>2. BitOf(t, n) = 0
      BY <2>1, <2>3
    <3> HIDE DEF S
    <3> QED
      BY <3>1, <3>2
  <2> QED
    BY <2>2, <2>3
<1>5. S = {n \in 0..(WideBits - 1) : BitOf(t, n) = 1}
  <2>1. S \subseteq 0..(WideBits - 1)
    OBVIOUS
  <2> HIDE DEF S, t
  <2> QED
    BY <1>4, <2>1
<1>6. Ones(S) = t
  BY <1>3, <1>5, OnesOfBits
<1> QED
  BY <1>1, <1>6

-----------------------------------------------------------------------------
(* Runs.                                                                   *)

(* One op, unless the block has been left.                                 *)
Ran(m, op) == IF m.left THEN m ELSE DesignExec(op, m)

(* The states before and after each op.                                    *)
Running(b, m, g) ==
  /\ g[0] = m
  /\ \A j \in 1..Len(b) : g[j] = Ran(g[j - 1], b[j])

LEMMA RunOf ==
  ASSUME NEW b, Len(b) \in Nat, NEW m
  PROVE  \E g : Running(b, m, g) /\ DesignRun(b, m) = g[Len(b)]
<1> DEFINE c == CHOOSE g : g = [j \in 0..Len(b) |->
                                  IF j = 0 THEN m
                                  ELSE LET s == g[j - 1] IN IF s.left THEN s ELSE DesignExec(b[j], s)]
<1>1. DesignRun(b, m) = c[Len(b)]
  BY DEF DesignRun, Sweep
<1>2. PICK g : Turns("run", m, m, b, Len(b), g)
  BY LoopTurns
<1>3. Turns("run", m, m, b, Len(b), c)
  BY <1>2 DEF Turns, Turn
<1> HIDE DEF c
<1>4. /\ c[0] = m
      /\ \A j \in 1..Len(b) : c[j] = Turn("run", m, c[j - 1], b[j])
  BY <1>3, TurnsAt
<1>5. Running(b, m, c)
  BY <1>4 DEF Running, Turn, Ran
<1> QED
  BY <1>1, <1>5

LEMMA RunEmpty ==
  ASSUME NEW m
  PROVE  DesignRun(<<>>, m) = m
<1>1. Len(<<>>) = 0
  BY EmptySeq
<1>2. PICK g : Running(<<>>, m, g) /\ DesignRun(<<>>, m) = g[Len(<<>>)]
  BY <1>1, RunOf
<1> QED
  BY <1>1, <1>2 DEF Running

LEMMA RunAppend ==
  ASSUME NEW s, IsSeq(s), NEW op, NEW m
  PROVE  DesignRun(Append(s, op), m) = Ran(DesignRun(s, m), op)
<1> DEFINE t == Append(s, op)
           n == Len(s)
<1>1. /\ n \in Nat /\ Len(t) = n + 1 /\ t[n + 1] = op
      /\ \A j \in 1..n : t[j] = s[j]
  BY AppendIsSeq
<1> HIDE DEF t
<1>2. PICK g : Running(s, m, g) /\ DesignRun(s, m) = g[n]
  BY <1>1, RunOf
<1>3. PICK h : Running(t, m, h) /\ DesignRun(t, m) = h[n + 1]
  BY <1>1, RunOf
<1> DEFINE T == {j \in Nat : j <= n => g[j] = h[j]}
<1> HIDE DEF n
<1>4. 0 \in T
  BY <1>2, <1>3 DEF Running
<1>5. ASSUME NEW j \in Nat, j \in T
      PROVE  j + 1 \in T
  <2> SUFFICES ASSUME j + 1 <= n PROVE g[j + 1] = h[j + 1]
    OBVIOUS
  <2>1. j + 1 \in 1..n /\ j + 1 \in 1..(n + 1) /\ (j + 1) - 1 = j /\ g[j] = h[j]
    BY <1>1, <1>5
  <2>2. g[j + 1] = Ran(g[j], s[j + 1])
    BY <1>2, <2>1 DEF Running, n
  <2>3. h[j + 1] = Ran(h[j], t[j + 1])
    BY <1>1, <1>3, <2>1 DEF Running
  <2> QED
    BY <1>1, <2>1, <2>2, <2>3
<1>6. n \in T
  BY <1>1, <1>4, <1>5, SetInduction
<1>7. g[n] = h[n]
  BY <1>1, <1>6
<1>8. h[n + 1] = Ran(h[n], t[n + 1])
  <2>1. n + 1 \in 1..(n + 1) /\ (n + 1) - 1 = n
    BY <1>1
  <2> QED
    BY <1>1, <1>3, <2>1 DEF Running
<1> QED
  BY <1>1, <1>2, <1>3, <1>7, <1>8 DEF t

-----------------------------------------------------------------------------
(* One op in two states.                                                   *)

IsState(m) ==
  /\ DOMAIN m = {"mem", "zero", "negative", "env", "trace", "left"}
  /\ DOMAIN m.mem = Word
  /\ m.left \in BOOLEAN

SameFlags(m, o) == m.zero = o.zero /\ m.negative = o.negative

(* The memory behind an op.                                                *)
Touches(kind) ==
  \/ kind.name = "call"
  \/ kind.name = "intrinsic" /\ kind.effects \notin {"Pure", "ReadsMem"}

LEMMA EffectState ==
  ASSUME NEW kind, NEW xs, NEW m, IsState(m)
  PROVE  IsState(Effect(kind, xs, m)) /\ Effect(kind, xs, m).env = m.env
<1> DEFINE bytes == kind.bits \div ByteBits
<1>1. DOMAIN Touch(m.mem) = Word
  BY DEF Touch, IsState
<1>2. DOMAIN StoreBytes(m.mem, xs[1], bytes, kind.big, xs[2]) = Word
  BY DEF StoreBytes, IsState
<1> HIDE DEF bytes
<1> QED
  BY <1>1, <1>2 DEF Effect, IsState, bytes

(* What an op does depends on its operands, the memory and the trace.      *)
LEMMA EffectTogether ==
  ASSUME NEW kind, NEW xs, NEW m, NEW o, IsState(m), IsState(o), Outcome(m) = Outcome(o)
  PROVE  /\ Outcome(Effect(kind, xs, m)) = Outcome(Effect(kind, xs, o))
         /\ SameFlags(m, o) \/ kind.name = "setflags"
              => SameFlags(Effect(kind, xs, m), Effect(kind, xs, o))
<1> DEFINE bytes == kind.bits \div ByteBits
           stored == StoreBytes(m.mem, xs[1], bytes, kind.big, xs[2])
           touched == Touch(m.mem)
           flags == Alu("and", kind.bits, Trunc(xs[1], kind.bits), Trunc(xs[2], kind.bits))
<1>1. m.mem = o.mem /\ m.trace = o.trace /\ m.left = o.left
  BY DEF Outcome
<1>2. CASE kind.name = "setflags"
  BY <1>1, <1>2 DEF Effect, Outcome, SameFlags, IsState
<1>3. CASE kind.name \in {"load", "store"} /\ ~InMemory(xs[1], bytes)
  BY <1>1, <1>3 DEF Effect, Outcome, SameFlags, IsState
<1>4. CASE kind.name = "store" /\ InMemory(xs[1], bytes)
  BY <1>1, <1>4 DEF Effect, Outcome, SameFlags, IsState
<1>5. CASE Touches(kind)
  BY <1>1, <1>5 DEF Effect, Outcome, SameFlags, IsState, Touches
<1>6. CASE kind.name \in {"branch", "indirect", "return"}
  BY <1>1, <1>6 DEF Effect, Outcome, SameFlags, IsState
<1>7. CASE /\ kind.name \notin {"setflags", "branch", "indirect", "return"}
           /\ ~(kind.name \in {"load", "store"} /\ ~InMemory(xs[1], bytes))
           /\ ~(kind.name = "store" /\ InMemory(xs[1], bytes))
           /\ ~Touches(kind)
  BY <1>1, <1>7 DEF Effect, Outcome, SameFlags, IsState, Touches
<1> QED
  BY <1>2, <1>3, <1>4, <1>5, <1>6, <1>7

LEMMA ResultTogether ==
  ASSUME NEW kind, NEW xs, NEW m, NEW o, m.mem = o.mem,
         kind.name = "readflag" => kind.flag \in {"zero", "negative"} /\ SameFlags(m, o)
  PROVE  Result(kind, xs, m) = Result(kind, xs, o)
<1> DEFINE loaded(n) == Forwarded(LoadBytes(n.mem, xs[1], kind.bits \div ByteBits, kind.big), kind)
<1>1. loaded(m) = loaded(o)
  OBVIOUS
<1> QED
  BY <1>1 DEF Result, SameFlags

(* What an op makes of a state.                                            *)
LEMMA ExecFacts ==
  ASSUME NEW op, op.dst \in VReg \cup {NoReg}, NEW m, IsState(m)
  PROVE  /\ IsState(DesignExec(op, m))
         /\ Outcome(DesignExec(op, m)) = Outcome(Effect(op.kind, Values(op, m), m))
         /\ SameFlags(DesignExec(op, m), Effect(op.kind, Values(op, m), m))
         /\ \A v : v # op.dst => ValueOf(v, DesignExec(op, m).env) = ValueOf(v, m.env)
         /\ op.dst # NoReg /\ ~DesignExec(op, m).left
              => ValueOf(op.dst, DesignExec(op, m).env) = Result(op.kind, Values(op, m), m)
<1> DEFINE done == Effect(op.kind, Values(op, m), m)
           x == Result(op.kind, Values(op, m), m)
           env == Insert(m.env, op.dst, x)
           last == [done EXCEPT !.env = Insert(@, op.dst, x)]
<1>1. IsState(done) /\ done.env = m.env
  BY EffectState
<1>2. DesignExec(op, m) = IF op.dst = NoReg \/ done.left THEN done ELSE last
  BY DEF DesignExec
<1> HIDE DEF done, x
<1>3. CASE op.dst = NoReg \/ done.left
  <2>1. DesignExec(op, m) = done
    BY <1>2, <1>3
  <2>2. /\ IsState(done) /\ SameFlags(done, done) /\ done.env = m.env
        /\ ~(op.dst # NoReg /\ ~done.left)
    BY <1>1, <1>3 DEF SameFlags
  <2> QED
    BY <2>1, <2>2 DEF done
<1>4. CASE ~(op.dst = NoReg \/ done.left)
  <2>1. DesignExec(op, m) = last
    BY <1>2, <1>4
  <2>2. /\ IsState(last) /\ Outcome(last) = Outcome(done) /\ SameFlags(last, done)
        /\ last.env = env
    BY <1>1 DEF IsState, Outcome, SameFlags
  <2>3. op.dst \notin Imm
    BY <1>4, ImmAssumption
  <2>4. /\ DOMAIN env = DOMAIN m.env \cup {op.dst}
        /\ env[op.dst] = x
        /\ \A v \in DOMAIN m.env : v # op.dst => env[v] = m.env[v]
    BY DEF Insert
  <2> HIDE DEF env, last
  <2>5. \A v : v # op.dst => ValueOf(v, env) = ValueOf(v, m.env)
    BY <2>4 DEF ValueOf
  <2>6. ValueOf(op.dst, env) = x
    BY <2>3, <2>4 DEF ValueOf
  <2> QED
    BY <2>1, <2>2, <2>5, <2>6 DEF x, done
<1> QED
  BY <1>3, <1>4

(* An op on equal operands, in two states.                                 *)
LEMMA ExecTogether ==
  ASSUME NEW op, op.dst \in VReg \cup {NoReg}, op.kind \in designKind,
         NEW other, other.kind = op.kind, other.dst = op.dst,
         NEW m, NEW o, IsState(m), IsState(o), Outcome(m) = Outcome(o),
         Values(op, m) = Values(other, o),
         op.kind.name = "readflag" => SameFlags(m, o)
  PROVE  LET n == DesignExec(op, m)
             p == DesignExec(other, o)
         IN  /\ IsState(n) /\ IsState(p) /\ Outcome(n) = Outcome(p)
             /\ SameFlags(m, o) \/ op.kind.name = "setflags" => SameFlags(n, p)
             /\ ~n.left => \A v \in VReg :
                  v = op.dst \/ ValueOf(v, m.env) = ValueOf(v, o.env)
                    => ValueOf(v, n.env) = ValueOf(v, p.env)
<1> DEFINE n == DesignExec(op, m)
           p == DesignExec(other, o)
           xs == Values(op, m)
<1>1. /\ IsState(n) /\ Outcome(n) = Outcome(Effect(op.kind, xs, m))
      /\ SameFlags(n, Effect(op.kind, xs, m))
      /\ \A v : v # op.dst => ValueOf(v, n.env) = ValueOf(v, m.env)
      /\ op.dst # NoReg /\ ~n.left => ValueOf(op.dst, n.env) = Result(op.kind, xs, m)
  BY ExecFacts
<1>2. /\ IsState(p) /\ Outcome(p) = Outcome(Effect(op.kind, xs, o))
      /\ SameFlags(p, Effect(op.kind, xs, o))
      /\ \A v : v # op.dst => ValueOf(v, p.env) = ValueOf(v, o.env)
      /\ op.dst # NoReg /\ ~p.left => ValueOf(op.dst, p.env) = Result(op.kind, xs, o)
  <2>1. /\ IsState(p) /\ Outcome(p) = Outcome(Effect(other.kind, Values(other, o), o))
        /\ SameFlags(p, Effect(other.kind, Values(other, o), o))
        /\ \A v : v # other.dst => ValueOf(v, p.env) = ValueOf(v, o.env)
        /\ other.dst # NoReg /\ ~p.left
             => ValueOf(other.dst, p.env) = Result(other.kind, Values(other, o), o)
    <3>1. other.dst \in VReg \cup {NoReg}
      OBVIOUS
    <3> QED
      BY <3>1, ExecFacts
  <2>2. xs = Values(other, o)
    OBVIOUS
  <2> HIDE DEF p, xs
  <2> QED
    BY <2>1, <2>2
<1>3. /\ Outcome(Effect(op.kind, xs, m)) = Outcome(Effect(op.kind, xs, o))
      /\ SameFlags(m, o) \/ op.kind.name = "setflags"
           => SameFlags(Effect(op.kind, xs, m), Effect(op.kind, xs, o))
  <2> HIDE DEF xs
  <2> QED
    BY EffectTogether
<1>4. Result(op.kind, xs, m) = Result(op.kind, xs, o)
  <2>1. m.mem = o.mem
    BY DEF Outcome
  <2>2. op.kind.name = "readflag" => op.kind.flag \in {"zero", "negative"}
    BY DEF designKind, aluNames
  <2> HIDE DEF xs
  <2> QED
    BY <2>1, <2>2, ResultTogether
<1> HIDE DEF n, p, xs
<1>5. Outcome(n) = Outcome(p)
  BY <1>1, <1>2, <1>3
<1>6. n.left = p.left
  BY <1>5 DEF Outcome
<1>7. SameFlags(m, o) \/ op.kind.name = "setflags" => SameFlags(n, p)
  BY <1>1, <1>2, <1>3 DEF SameFlags
<1>8. ASSUME ~n.left, NEW v \in VReg, v = op.dst \/ ValueOf(v, m.env) = ValueOf(v, o.env)
      PROVE  ValueOf(v, n.env) = ValueOf(v, p.env)
  <2>1. CASE v = op.dst
    <3>1. op.dst # NoReg
      BY <2>1, NoRegAssumption
    <3> QED
      BY <1>1, <1>2, <1>4, <1>6, <1>8, <2>1, <3>1
  <2>2. CASE v # op.dst
    BY <1>1, <1>2, <1>8, <2>2
  <2> QED
    BY <2>1, <2>2
<1>9. /\ IsState(n) /\ IsState(p) /\ Outcome(n) = Outcome(p)
      /\ SameFlags(m, o) \/ op.kind.name = "setflags" => SameFlags(n, p)
      /\ ~n.left => \A v \in VReg :
           v = op.dst \/ ValueOf(v, m.env) = ValueOf(v, o.env)
             => ValueOf(v, n.env) = ValueOf(v, p.env)
  BY <1>1, <1>2, <1>5, <1>7, <1>8
<1> QED
  BY <1>9 DEF n, p

-----------------------------------------------------------------------------
LEMMA SameInterval ==
  ASSUME NEW x \in Nat, NEW y \in Nat, 1..x = 1..y
  PROVE  x = y
<1>1. x <= y
  <2>1. CASE x = 0
    BY <2>1
  <2>2. CASE x # 0
    <3>1. x \in 1..y
      BY <2>2
    <3> QED
      BY <3>1
  <2> QED
    BY <2>1, <2>2
<1>2. y <= x
  <2>1. CASE y = 0
    BY <2>1
  <2>2. CASE y # 0
    <3>1. y \in 1..x
      BY <2>2
    <3> QED
      BY <3>1
  <2> QED
    BY <2>1, <2>2
<1> QED
  BY <1>1, <1>2

(* What a list that a pass only appends to began with.                     *)
Begins(s, t) ==
  /\ Len(s) \in Nat /\ Len(t) \in Nat /\ Len(s) <= Len(t)
  /\ \A j \in 1..Len(s) : t[j] = s[j]

LEMMA AppendedBegins ==
  ASSUME NEW N \in Nat, NEW h,
         \A j \in 0..N : IsSeq(h[j]),
         \A j \in 1..N : h[j] = h[j - 1] \/ \E x : h[j] = Append(h[j - 1], x)
  PROVE  \A p \in 0..N : Begins(h[p], h[N])
<1> DEFINE T == {n \in Nat : n <= N => \A p \in 0..n : Begins(h[p], h[n])}
<1>1. \A j \in 0..N : Begins(h[j], h[j])
  BY AppendIsSeq DEF Begins
<1>2. 0 \in T
  BY <1>1
<1>3. ASSUME NEW n \in Nat, n \in T
      PROVE  n + 1 \in T
  <2> SUFFICES ASSUME n + 1 <= N, NEW p \in 0..(n + 1) PROVE Begins(h[p], h[n + 1])
    OBVIOUS
  <2>1. n \in 0..N /\ n + 1 \in 1..N /\ (n + 1) - 1 = n
    OBVIOUS
  <2>2. CASE p = n + 1
    BY <1>1, <2>2
  <2>3. CASE p # n + 1
    <3>1. Begins(h[p], h[n])
      BY <1>3, <2>3
    <3>2. h[n + 1] = h[n] \/ \E x : h[n + 1] = Append(h[n], x)
      BY <2>1
    <3>3. CASE h[n + 1] = h[n]
      BY <3>1, <3>3
    <3>4. ASSUME NEW x, h[n + 1] = Append(h[n], x)
          PROVE  Begins(h[p], h[n + 1])
      <4>1. /\ Len(Append(h[n], x)) = Len(h[n]) + 1
            /\ \A j \in 1..Len(h[n]) : Append(h[n], x)[j] = h[n][j]
        BY <2>1, AppendIsSeq
      <4> QED
        BY <3>1, <3>4, <4>1 DEF Begins
    <3> QED
      BY <3>2, <3>3, <3>4
  <2> QED
    BY <2>2, <2>3
<1>4. N \in T
  BY <1>2, <1>3, SetInduction
<1> QED
  BY <1>4

-----------------------------------------------------------------------------
(* dead_flag_elimination: the flags of two runs may differ where none is   *)
(* read before they are set again.                                         *)

LEMMA ObservedBefore ==
  ASSUME NEW b, Len(b) \in Nat, NEW n \in 1..Len(b)
  PROVE  /\ b[n].kind.name = "readflag" => Observed(b, n - 1)
         /\ b[n].kind.name # "setflags" /\ Observed(b, n) => Observed(b, n - 1)
<1>1. ASSUME b[n].kind.name = "readflag"
      PROVE  Observed(b, n - 1)
  BY <1>1 DEF Observed
<1>2. ASSUME b[n].kind.name # "setflags", Observed(b, n)
      PROVE  Observed(b, n - 1)
  <2>1. PICK r \in (n + 1)..Len(b) :
           /\ b[r].kind.name = "readflag"
           /\ \A between \in (n + 1)..(r - 1) : b[between].kind.name # "setflags"
    BY <1>2 DEF Observed
  <2>2. /\ r \in ((n - 1) + 1)..Len(b)
        /\ \A between \in ((n - 1) + 1)..(r - 1) : between = n \/ between \in (n + 1)..(r - 1)
    OBVIOUS
  <2> QED
    BY <1>2, <2>1, <2>2 DEF Observed
<1> QED
  BY <1>1, <1>2

(* Where both runs have come to, before the ops of b behind n: apart from  *)
(* flags that nothing reads, and the values of the registers in unknown.   *)
Alike(b, n, unknown, m, o) ==
  /\ IsState(m) /\ IsState(o)
  /\ Outcome(m) = Outcome(o)
  /\ ~m.left =>
       /\ Observed(b, n) => SameFlags(m, o)
       /\ \A v \in VReg \ unknown : ValueOf(v, m.env) = ValueOf(v, o.env)

(* A kept op, on operands that are known.                                  *)
LEMMA AlikeKept ==
  ASSUME NEW b, Len(b) \in Nat, NEW n \in 1..Len(b), NEW unknown,
         NEW m, NEW o, Alike(b, n - 1, unknown, m, o),
         NEW op, op.kind = b[n].kind, op.dst = b[n].dst,
         op.dst \in VReg \cup {NoReg}, op.kind \in designKind,
         Values(op, m) = Values(b[n], o)
  PROVE  Alike(b, n, unknown, Ran(m, op), Ran(o, b[n]))
<1>1. IsState(m) /\ IsState(o) /\ Outcome(m) = Outcome(o) /\ m.left = o.left
  BY DEF Alike, Outcome
<1>2. CASE m.left
  BY <1>1, <1>2 DEF Alike, Ran
<1>3. CASE ~m.left
  <2> DEFINE q == DesignExec(op, m)
             p == DesignExec(b[n], o)
  <2>1. Ran(m, op) = q /\ Ran(o, b[n]) = p
    BY <1>1, <1>3 DEF Ran
  <2>2. op.kind.name = "readflag" => SameFlags(m, o)
    BY <1>3, ObservedBefore DEF Alike
  <2>3. /\ IsState(q) /\ IsState(p) /\ Outcome(q) = Outcome(p)
        /\ SameFlags(m, o) \/ op.kind.name = "setflags" => SameFlags(q, p)
        /\ ~q.left => \A v \in VReg :
             v = op.dst \/ ValueOf(v, m.env) = ValueOf(v, o.env)
               => ValueOf(v, q.env) = ValueOf(v, p.env)
    <3> DEFINE other == b[n]
    <3>1. other.kind = op.kind /\ other.dst = op.dst /\ Values(op, m) = Values(other, o)
      OBVIOUS
    <3> HIDE DEF other
    <3>2. LET x == DesignExec(op, m)
              y == DesignExec(other, o)
          IN  /\ IsState(x) /\ IsState(y) /\ Outcome(x) = Outcome(y)
              /\ SameFlags(m, o) \/ op.kind.name = "setflags" => SameFlags(x, y)
              /\ ~x.left => \A v \in VReg :
                   v = op.dst \/ ValueOf(v, m.env) = ValueOf(v, o.env)
                     => ValueOf(v, x.env) = ValueOf(v, y.env)
      BY <1>1, <2>2, <3>1, ExecTogether
    <3> QED
      BY <3>2 DEF other
  <2>4. Observed(b, n) => SameFlags(q, p)
    BY <1>3, <2>3, ObservedBefore DEF Alike
  <2> HIDE DEF q, p
  <2> QED
    BY <1>3, <2>1, <2>3, <2>4 DEF Alike
<1> QED
  BY <1>2, <1>3

(* An op that only sets the flags.                                         *)
LEMMA OnlyFlags ==
  ASSUME NEW op, op.kind.name = "setflags", op.dst = NoReg, NEW m, IsState(m)
  PROVE  /\ IsState(Ran(m, op)) /\ Outcome(Ran(m, op)) = Outcome(m)
         /\ Ran(m, op).env = m.env
<1> DEFINE e == Effect(op.kind, Values(op, m), m)
<1>1. DesignExec(op, m) = e
  BY DEF DesignExec
<1>2. IsState(e) /\ e.env = m.env
  BY EffectState
<1>3. Outcome(e) = Outcome(m)
  <2> DEFINE flags == Alu("and", op.kind.bits, Trunc(Values(op, m)[1], op.kind.bits),
                          Trunc(Values(op, m)[2], op.kind.bits))
             z == IF flags = 0 THEN 1 ELSE 0
             g == BitOf(flags, op.kind.bits - 1)
  <2>1. e = [m EXCEPT !.zero = z, !.negative = g]
    BY DEF Effect
  <2> HIDE DEF e, z, g
  <2> QED
    BY <2>1 DEF Outcome, IsState
<1> HIDE DEF e
<1> QED
  BY <1>1, <1>2, <1>3 DEF Ran

LEMMA AlikeUnread ==
  ASSUME NEW b, NEW n, ~Observed(b, n), NEW c, NEW j, NEW unknown,
         NEW m, NEW o, Alike(c, j, unknown, m, o),
         NEW p, IsState(p), Outcome(p) = Outcome(m), p.env = m.env,
         NEW q, IsState(q), Outcome(q) = Outcome(o), q.env = o.env
  PROVE  Alike(b, n, unknown, p, q)
<1>1. p.left = m.left
  BY DEF Outcome
<1> QED
  BY <1>1 DEF Alike

(* What SingleAssignment says of one op.                                   *)
IsOp(op) == op \in Op /\ (op.kind.name = "setflags" => op.dst = NoReg)

LEMMA OpFacts ==
  ASSUME NEW op, IsOp(op), Kind = designKind
  PROVE  /\ op.dst \in VReg \cup {NoReg}
         /\ op.kind \in designKind
         /\ op.args \in Seq(VReg \cup Imm)
         /\ DOMAIN op.args = 1..Len(op.args)
         /\ \A j \in 1..Len(op.args) : op.args[j] \in VReg \cup Imm
         /\ op.kind.name = "setflags" => op.dst = NoReg
<1>1. op \in Op
  BY DEF IsOp
<1>2. op.args \in Seq(VReg \cup Imm)
  BY <1>1 DEF Op
<1>3. DOMAIN op.args = 1..Len(op.args)
  BY <1>2, LenProperties
<1>4. \A j \in 1..Len(op.args) : op.args[j] \in VReg \cup Imm
  BY <1>2, ElementOfSeq
<1> QED
  BY <1>1, <1>2, <1>3, <1>4 DEF Op, IsOp

LEMMA OpOf ==
  ASSUME NEW b, SingleAssignment(b), Kind = designKind, NEW n \in 1..Len(b)
  PROVE  /\ IsOp(b[n])
         /\ b[n].dst \in VReg \cup {NoReg}
         /\ b[n].kind \in designKind
         /\ b[n].args \in Seq(VReg \cup Imm)
         /\ DOMAIN b[n].args = 1..Len(b[n].args)
         /\ \A j \in 1..Len(b[n].args) : b[n].args[j] \in VReg \cup Imm
         /\ b[n].kind.name = "setflags" => b[n].dst = NoReg
<1> DEFINE op == b[n]
<1>1. IsOp(op)
  BY DEF SingleAssignment, IsOp, effectNames
<1> HIDE DEF op
<1>2. /\ op.dst \in VReg \cup {NoReg}
      /\ op.kind \in designKind
      /\ op.args \in Seq(VReg \cup Imm)
      /\ DOMAIN op.args = 1..Len(op.args)
      /\ \A j \in 1..Len(op.args) : op.args[j] \in VReg \cup Imm
      /\ op.kind.name = "setflags" => op.dst = NoReg
  BY <1>1, OpFacts
<1> QED
  BY <1>1, <1>2 DEF op

(* The states of the pass, one for each op of b.                           *)
Kept(b, out) ==
  /\ out[0] = <<>>
  /\ \A n \in 1..Len(b) :
       out[n] = IF Keeps(b, n) THEN Append(out[n - 1], b[n]) ELSE out[n - 1]

LEMMA DeadFlagsTurns ==
  ASSUME NEW b, IsSeq(b)
  PROVE  \E out : /\ Kept(b, out)
                  /\ dead_flag_elimination(b) = out[Len(b)]
                  /\ \A n \in 0..Len(b) : IsSeq(out[n])
<1> DEFINE positions == [n \in DOMAIN b |-> n]
           c == CHOOSE g : g = [j \in 0..Len(positions) |->
                                  IF j = 0 THEN <<>>
                                  ELSE LET s == g[j - 1]
                                       IN  IF Keeps(b, positions[j])
                                           THEN Append(s, b[positions[j]]) ELSE s]
<1>0. Len(b) \in Nat /\ DOMAIN b = 1..Len(b)
  BY LenProperties DEF IsSeq
<1>1. dead_flag_elimination(b) = c[Len(positions)]
  BY DEF dead_flag_elimination, Sweep
<1>2. Len(positions) = Len(b) /\ \A n \in 1..Len(b) : positions[n] = n
  <2>1. positions \in Seq(Nat) /\ DOMAIN positions = 1..Len(b)
    BY <1>0
  <2>2. DOMAIN positions = 1..Len(positions) /\ Len(positions) \in Nat
    BY <2>1, LenProperties
  <2>3. \A n \in 1..Len(b) : positions[n] = n
    BY <1>0
  <2> HIDE DEF positions
  <2>4. 1..Len(positions) = 1..Len(b)
    BY <2>1, <2>2
  <2>5. Len(positions) = Len(b)
    BY <1>0, <2>2, <2>4, SameInterval
  <2> QED
    BY <2>3, <2>5
<1> HIDE DEF positions
<1>3. PICK g : Turns("flags", b, <<>>, positions, Len(positions), g)
  BY <1>0, <1>2, LoopTurns
<1>4. Turns("flags", b, <<>>, positions, Len(positions), c)
  BY <1>3 DEF Turns, Turn
<1> HIDE DEF c
<1>5. /\ c[0] = <<>>
      /\ \A j \in 1..Len(positions) : c[j] = Turn("flags", b, c[j - 1], positions[j])
  BY <1>0, <1>2, <1>4, TurnsAt
<1>6. Kept(b, c)
  BY <1>2, <1>5 DEF Kept, Turn
<1> DEFINE T == {n \in Nat : n <= Len(b) => IsSeq(c[n])}
<1>7. 0 \in T
  <2>1. IsSeq(<<>>)
    BY EmptySeq, SeqIsSeq
  <2> QED
    BY <1>5, <2>1
<1>8. ASSUME NEW n \in Nat, n \in T
      PROVE  n + 1 \in T
  <2> SUFFICES ASSUME n + 1 <= Len(b) PROVE IsSeq(c[n + 1])
    OBVIOUS
  <2>1. IsSeq(c[n]) /\ n + 1 \in 1..Len(b) /\ (n + 1) - 1 = n
    BY <1>0, <1>8
  <2>2. c[n + 1] = IF Keeps(b, n + 1) THEN Append(c[n], b[n + 1]) ELSE c[n]
    BY <1>6, <2>1 DEF Kept
  <2>3. IsSeq(Append(c[n], b[n + 1]))
    BY <2>1, AppendIsSeq
  <2> QED
    BY <2>1, <2>2, <2>3
<1>9. \A n \in 0..Len(b) : IsSeq(c[n])
  <2>1. Nat \subseteq T
    <3> HIDE DEF T
    <3> QED
      BY <1>7, <1>8, SetInduction
  <2> QED
    BY <1>0, <2>1
<1> QED
  BY <1>1, <1>2, <1>6, <1>9

(* The flags that are left out are read by no op.                          *)
LEMMA DeadFlagsPreserve ==
  ASSUME NEW b, IsSeq(b), \A n \in 1..Len(b) : IsOp(b[n]), Kind = designKind, NEW m, IsState(m)
  PROVE  Outcome(DesignRun(dead_flag_elimination(b), m)) = Outcome(DesignRun(b, m))
<1>0. Len(b) \in Nat
  BY LenProperties DEF IsSeq
<1>1. PICK out : /\ Kept(b, out)
                 /\ dead_flag_elimination(b) = out[Len(b)]
                 /\ \A n \in 0..Len(b) : IsSeq(out[n])
  BY DeadFlagsTurns
<1>2. PICK g : Running(b, m, g) /\ DesignRun(b, m) = g[Len(b)]
  BY <1>0, RunOf
<1> DEFINE Met(n) == Alike(b, n, {}, g[n], DesignRun(out[n], m))
           T == {n \in Nat : n <= Len(b) => Met(n)}
<1>3. 0 \in T
  <2>1. g[0] = m /\ DesignRun(out[0], m) = m
    BY <1>1, <1>2, RunEmpty DEF Running, Kept
  <2>2. Alike(b, 0, {}, m, m)
    BY DEF Alike, SameFlags
  <2> QED
    BY <2>1, <2>2
<1>4. ASSUME NEW n \in Nat, n \in T
      PROVE  n + 1 \in T
  <2> SUFFICES ASSUME n + 1 <= Len(b) PROVE Met(n + 1)
    OBVIOUS
  <2> DEFINE i == n + 1
             x == g[n]
             y == DesignRun(out[n], m)
  <2>1. i \in 1..Len(b) /\ i - 1 = n /\ n \in 0..Len(b)
    BY <1>0
  <2>2. Alike(b, n, {}, x, y) /\ IsState(x) /\ IsState(y)
    BY <1>4, <2>1 DEF Alike
  <2>3. g[i] = Ran(x, b[i])
    BY <1>2, <2>1 DEF Running
  <2>4. /\ b[i].dst \in VReg \cup {NoReg}
        /\ b[i].kind \in designKind
        /\ DOMAIN b[i].args = 1..Len(b[i].args)
        /\ \A j \in 1..Len(b[i].args) : b[i].args[j] \in VReg \cup Imm
        /\ b[i].kind.name = "setflags" => b[i].dst = NoReg
    <3> DEFINE op == b[i]
    <3>1. IsOp(op)
      BY <2>1
    <3> HIDE DEF op
    <3>2. /\ op.dst \in VReg \cup {NoReg}
          /\ op.kind \in designKind
          /\ DOMAIN op.args = 1..Len(op.args)
          /\ \A j \in 1..Len(op.args) : op.args[j] \in VReg \cup Imm
          /\ op.kind.name = "setflags" => op.dst = NoReg
      BY <3>1, OpFacts
    <3> QED
      BY <3>2 DEF op
  <2> HIDE DEF i, x, y
  <2>5. CASE Keeps(b, i)
    <3>1. out[i] = Append(out[n], b[i])
      BY <1>1, <2>1, <2>5 DEF Kept
    <3>2. DesignRun(out[i], m) = Ran(y, b[i])
      BY <1>1, <2>1, <3>1, RunAppend DEF y
    <3>3. CASE x.left
      <4>1. y.left /\ Ran(x, b[i]) = x /\ Ran(y, b[i]) = y
        BY <2>2, <3>3 DEF Alike, Outcome, Ran
      <4>2. Alike(b, i, {}, x, y)
        BY <2>2, <3>3 DEF Alike
      <4> QED
        BY <2>3, <3>2, <4>1, <4>2 DEF i
    <3>4. CASE ~x.left
      <4>1. \A j \in 1..Len(b[i].args) :
              ValueOf(b[i].args[j], x.env) = ValueOf(b[i].args[j], y.env)
        BY <2>2, <2>4, <3>4 DEF Alike, ValueOf
      <4>2. Values(b[i], x) = Values(b[i], y)
        BY <2>4, <4>1 DEF Values
      <4> DEFINE op == b[i]
      <4>3. /\ op.kind = b[i].kind /\ op.dst = b[i].dst /\ op.dst \in VReg \cup {NoReg}
            /\ op.kind \in designKind /\ Values(op, x) = Values(b[i], y)
            /\ Alike(b, i - 1, {}, x, y)
        BY <2>1, <2>2, <2>4, <4>2
      <4> HIDE DEF op
      <4>4. Alike(b, i, {}, Ran(x, op), Ran(y, b[i]))
        BY <1>0, <2>1, <4>3, AlikeKept
      <4> QED
        BY <2>3, <3>2, <4>4 DEF op, i
    <3> QED
      BY <3>3, <3>4
  <2>6. CASE ~Keeps(b, i)
    <3>1. out[i] = out[n] /\ b[i].kind.name = "setflags" /\ ~Observed(b, i)
      BY <1>1, <2>1, <2>6 DEF Kept, Keeps
    <3>2. /\ IsState(Ran(x, b[i])) /\ Outcome(Ran(x, b[i])) = Outcome(x)
          /\ Ran(x, b[i]).env = x.env
      BY <2>2, <2>4, <3>1, OnlyFlags
    <3>3. Alike(b, i, {}, Ran(x, b[i]), y)
      BY <2>2, <3>1, <3>2, AlikeUnread
    <3> QED
      BY <2>3, <3>1, <3>3 DEF i, y
  <2> QED
    BY <2>5, <2>6
<1> HIDE DEF Met
<1>5. Met(Len(b))
  <2>1. Len(b) \in T
    BY <1>0, <1>3, <1>4, SetInduction
  <2> QED
    BY <1>0, <2>1
<1> QED
  BY <1>1, <1>2, <1>5 DEF Met, Alike

(* What the pass keeps reads registers that b defines before it, if what   *)
(* it leaves does.                                                         *)
UsesDefined(b) ==
  \A n \in DOMAIN b : \A v \in Operands(b[n]) : \E j \in 1..(n - 1) : b[j].dst = v

KeptUsesDefined(b) ==
  \A n \in 1..Len(b) : Keeps(b, n) =>
    \A v \in Operands(b[n]) : \E j \in 1..(n - 1) : b[j].dst = v

LEMMA KeptUses ==
  ASSUME NEW b, IsSeq(b), UsesDefined(dead_flag_elimination(b))
  PROVE  KeptUsesDefined(b)
<1>0. Len(b) \in Nat
  BY LenProperties DEF IsSeq
<1>1. PICK out : /\ Kept(b, out)
                 /\ dead_flag_elimination(b) = out[Len(b)]
                 /\ \A n \in 0..Len(b) : IsSeq(out[n])
  BY DeadFlagsTurns
<1> DEFINE last == out[Len(b)]
<1>2. \A p \in 0..Len(b) : Begins(out[p], last)
  <2> DEFINE N == Len(b)
  <2>1. N \in Nat /\ \A j \in 0..N : IsSeq(out[j])
    BY <1>0, <1>1
  <2>2. \A j \in 1..N : out[j] = out[j - 1] \/ \E x : out[j] = Append(out[j - 1], x)
    BY <1>1 DEF Kept
  <2> HIDE DEF N
  <2>3. \A p \in 0..N : Begins(out[p], out[N])
    BY <2>1, <2>2, AppendedBegins
  <2> QED
    BY <2>3 DEF N
<1> DEFINE From(n) == \A j \in 1..Len(out[n]) : \E i \in 1..n : out[n][j] = b[i]
           T == {n \in Nat : n <= Len(b) => From(n)}
<1>3. 0 \in T
  <2>1. Len(out[0]) = 0
    BY <1>1, EmptySeq DEF Kept
  <2> QED
    BY <2>1
<1>4. ASSUME NEW n \in Nat, n \in T
      PROVE  n + 1 \in T
  <2> SUFFICES ASSUME n + 1 <= Len(b), NEW j \in 1..Len(out[n + 1])
               PROVE  \E i \in 1..(n + 1) : out[n + 1][j] = b[i]
    OBVIOUS
  <2>1. /\ n + 1 \in 1..Len(b) /\ (n + 1) - 1 = n /\ From(n) /\ IsSeq(out[n])
        /\ n + 1 \in 1..(n + 1)
    BY <1>0, <1>1, <1>4
  <2>2. out[n + 1] = IF Keeps(b, n + 1) THEN Append(out[n], b[n + 1]) ELSE out[n]
    BY <1>1, <2>1 DEF Kept
  <2>3. /\ Len(out[n]) \in Nat
        /\ Len(Append(out[n], b[n + 1])) = Len(out[n]) + 1
        /\ \A i \in 1..Len(out[n]) : Append(out[n], b[n + 1])[i] = out[n][i]
        /\ Append(out[n], b[n + 1])[Len(out[n]) + 1] = b[n + 1]
    BY <2>1, AppendIsSeq
  <2>4. CASE j \in 1..Len(out[n])
    <3>1. out[n + 1][j] = out[n][j]
      BY <2>2, <2>3, <2>4
    <3>2. PICK i \in 1..n : out[n][j] = b[i]
      BY <2>1, <2>4
    <3>3. i \in 1..(n + 1)
      OBVIOUS
    <3> QED
      BY <3>1, <3>2, <3>3
  <2>5. CASE j \notin 1..Len(out[n])
    <3>1. out[n + 1] = Append(out[n], b[n + 1]) /\ j = Len(out[n]) + 1
      BY <2>2, <2>3, <2>5
    <3> QED
      BY <2>1, <2>3, <3>1
  <2> QED
    BY <2>4, <2>5
<1>5. \A n \in 0..Len(b) : From(n)
  <2>1. Nat \subseteq T
    <3> HIDE DEF T
    <3> QED
      BY <1>3, <1>4, SetInduction
  <2> HIDE DEF From
  <2> QED
    BY <1>0, <2>1
<1> SUFFICES ASSUME NEW n \in 1..Len(b), Keeps(b, n), NEW v \in Operands(b[n])
             PROVE  \E j \in 1..(n - 1) : b[j].dst = v
  BY DEF KeptUsesDefined
<1> DEFINE s == out[n - 1]
           p == Len(s) + 1
<1>6. /\ n \in 0..Len(b) /\ n - 1 \in 0..Len(b) /\ IsSeq(s) /\ out[n] = Append(s, b[n])
  <2>1. n \in 0..Len(b) /\ n - 1 \in 0..Len(b)
    BY <1>0
  <2>2. out[n] = Append(out[n - 1], b[n])
    BY <1>1 DEF Kept
  <2> QED
    BY <1>1, <2>1, <2>2
<1>7. /\ Len(s) \in Nat /\ Len(out[n]) = p /\ out[n][p] = b[n]
  BY <1>6, AppendIsSeq
<1>8. Begins(s, last) /\ Begins(out[n], last)
  BY <1>2, <1>6
<1>9. From(n - 1)
  BY <1>5, <1>6
<1> HIDE DEF s, From
<1>10. p \in DOMAIN last /\ last[p] = b[n]
  <2>1. IsSeq(last)
    BY <1>0, <1>1
  <2>2. DOMAIN last = 1..Len(last)
    BY <2>1, AppendIsSeq
  <2> HIDE DEF last
  <2> QED
    BY <1>7, <1>8, <2>2 DEF Begins
<1>11. PICK j \in 1..(p - 1) : last[j].dst = v
  <2>1. UsesDefined(last)
    BY <1>1
  <2>2. v \in Operands(last[p])
    BY <1>10
  <2> HIDE DEF last, p
  <2> QED
    BY <1>10, <2>1, <2>2 DEF UsesDefined
<1>12. j \in 1..Len(s) /\ last[j] = s[j]
  <2>1. j \in 1..Len(s)
    BY <1>7
  <2> HIDE DEF last
  <2> QED
    BY <1>8, <2>1 DEF Begins
<1>13. PICK i \in 1..(n - 1) : s[j] = b[i]
  BY <1>9, <1>12 DEF From, s
<1> QED
  BY <1>11, <1>12, <1>13

-----------------------------------------------------------------------------
(* constant_fold: what it knows of a register is the value the register    *)
(* has, and a folded op leaves a register that no op reads any more.       *)

(* The states of the pass, one for each op of b.                           *)
Folding(b, c) ==
  /\ c[0] = [ops |-> <<>>, constants |-> <<>>]
  /\ \A n \in 1..Len(b) : c[n] = FoldStep(c[n - 1], b[n])

LEMMA FoldTurns ==
  ASSUME NEW b, Len(b) \in Nat
  PROVE  \E c : Folding(b, c) /\ constant_fold(b) = c[Len(b)].ops
<1> DEFINE first == [ops |-> <<>>, constants |-> <<>>]
           c == CHOOSE g : g = [j \in 0..Len(b) |->
                                  IF j = 0 THEN first
                                  ELSE LET s == g[j - 1] IN FoldStep(s, b[j])]
<1>1. constant_fold(b) = c[Len(b)].ops
  BY DEF constant_fold, Sweep
<1>2. PICK g : Turns("fold", b, first, b, Len(b), g)
  BY LoopTurns
<1>3. Turns("fold", b, first, b, Len(b), c)
  BY <1>2 DEF Turns, Turn
<1> HIDE DEF c, first
<1>4. /\ c[0] = first
      /\ \A j \in 1..Len(b) : c[j] = Turn("fold", b, c[j - 1], b[j])
  BY <1>3, TurnsAt
<1>5. Folding(b, c)
  BY <1>4 DEF Folding, Turn, first
<1> QED
  BY <1>1, <1>5

(* The op on what is known of its operands.                                *)
Known(op, constants) == WithArgs(op, LAMBDA a : resolve_const(a, constants))

LEMMA KnownFacts ==
  ASSUME NEW op \in Op, NEW constants, \A v \in DOMAIN constants : constants[v] \in Imm
  PROVE  /\ Known(op, constants) \in Op
         /\ Known(op, constants).kind = op.kind
         /\ Known(op, constants).dst = op.dst
         /\ Len(Known(op, constants).args) = Len(op.args)
         /\ DOMAIN Known(op, constants).args = DOMAIN op.args
         /\ \A j \in DOMAIN op.args :
              Known(op, constants).args[j] = resolve_const(op.args[j], constants)
<1> DEFINE S == VReg \cup Imm
           args == [j \in DOMAIN op.args |-> resolve_const(op.args[j], constants)]
<1>1. op = [kind |-> op.kind, dst |-> op.dst, args |-> op.args] /\ op.args \in Seq(S)
      /\ op.kind \in Kind /\ op.dst \in VReg \cup {NoReg}
  BY DEF Op
<1>2. Known(op, constants) = [kind |-> op.kind, dst |-> op.dst, args |-> args]
  BY <1>1 DEF Known, WithArgs
<1>3. DOMAIN op.args = 1..Len(op.args) /\ Len(op.args) \in Nat
  BY <1>1, LenProperties
<1>4. ASSUME NEW j \in 1..Len(op.args)
      PROVE  args[j] \in S
  <2>1. op.args[j] \in S
    BY <1>1, ElementOfSeq
  <2>2. args[j] = resolve_const(op.args[j], constants)
    BY <1>3
  <2> HIDE DEF args
  <2> QED
    BY <2>1, <2>2 DEF resolve_const
<1>5. args \in Seq(S) /\ Len(args) = Len(op.args)
  <2>1. args = [j \in 1..Len(op.args) |-> args[j]]
    BY <1>3
  <2> HIDE DEF args, S
  <2>2. args \in [1..Len(op.args) -> S]
    BY <1>4, <2>1
  <2>3. args \in Seq(S)
    BY <1>3, <2>2, SeqDef
  <2>4. DOMAIN args = 1..Len(op.args)
    BY <2>2
  <2>5. DOMAIN args = 1..Len(args) /\ Len(args) \in Nat
    BY <2>3, LenProperties
  <2>6. 1..Len(args) = 1..Len(op.args)
    BY <2>4, <2>5
  <2>7. Len(args) = Len(op.args)
    BY <1>3, <2>5, <2>6, SameInterval
  <2> QED
    BY <2>3, <2>7 DEF S
<1>6. DOMAIN args = DOMAIN op.args /\ \A j \in DOMAIN op.args : args[j] = resolve_const(op.args[j], constants)
  OBVIOUS
<1> HIDE DEF args
<1> QED
  BY <1>1, <1>2, <1>5, <1>6 DEF Op

Folds(op, known) ==
  op.kind.name \in aluNames /\ known.args[1] \in Imm /\ known.args[2] \in Imm

FoldOf(op, known) == fold_binary(op.kind.name, op.kind.bits, known.args[1], known.args[2])

LEMMA FoldStepIs ==
  ASSUME NEW s, NEW op
  PROVE  LET known == Known(op, s.constants)
             x == FoldOf(op, known)
         IN  FoldStep(s, op) =
               IF Folds(op, known)
               THEN [ops |-> Append(s.ops, [known EXCEPT !.args = <<x, 0>>]),
                     constants |-> Insert(s.constants, op.dst, x)]
               ELSE [ops |-> Append(s.ops, known),
                     constants |-> Removed(s.constants, op.dst)]
BY DEF FoldStep, Known, FoldOf, Folds

(* An op of b as the pass leaves it.                                       *)
Same(op, p) ==
  op \in Op /\ op.kind = p.kind /\ op.dst = p.dst /\ Len(op.args) = Len(p.args)

FoldFacts(b, n, s) ==
  /\ DOMAIN s = {"ops", "constants"}
  /\ IsSeq(s.ops) /\ Len(s.ops) = n
  /\ \A j \in 1..n : Same(s.ops[j], b[j])
  /\ \A v \in DOMAIN s.constants :
       \E j \in 1..n : /\ b[j].dst = v /\ v \in VReg
                       /\ b[j].kind.name \in aluNames
                       /\ s.constants[v] \in 0..(2 ^ b[j].kind.bits - 1)

LEMMA AluKind ==
  ASSUME NEW kind \in designKind, kind.name \in aluNames
  PROVE  kind.bits \in designWidth
BY DEF designKind, aluNames

LEMMA NarrowIsWord ==
  ASSUME NEW bits \in designWidth, NEW x \in 0..(2 ^ bits - 1)
  PROVE  x \in Word
<1>1. bits \in 0..WideBits /\ WideBits \in 0..WideBits /\ bits \in 0..WideBits
  BY WidthFacts, BitsAssumption
<1>2. 2 ^ bits <= 2 ^ WideBits /\ 2 ^ bits \in Nat /\ 2 ^ WideBits \in Nat
  BY <1>1, PowerGrows
<1> QED
  BY <1>2 DEF Word

LEMMA ConstantsAreWords ==
  ASSUME NEW b, SingleAssignment(b), Kind = designKind, Len(b) \in Nat,
         NEW n \in 0..Len(b), NEW s, FoldFacts(b, n, s)
  PROVE  \A v \in DOMAIN s.constants : s.constants[v] \in Word
<1> SUFFICES ASSUME NEW v \in DOMAIN s.constants
             PROVE  s.constants[v] \in Word
  OBVIOUS
<1>1. PICK j \in 1..n : /\ b[j].kind.name \in aluNames
                        /\ s.constants[v] \in 0..(2 ^ b[j].kind.bits - 1)
  BY DEF FoldFacts
<1>2. b[j].kind \in designKind
  <2>1. j \in 1..Len(b)
    OBVIOUS
  <2> QED
    BY <2>1, OpOf
<1>3. b[j].kind.bits \in designWidth
  BY <1>1, <1>2, AluKind
<1> QED
  BY <1>1, <1>3, NarrowIsWord

(* ShiftsFit, of any block.                                                *)
Fitting(b) ==
  \A n \in 1..Len(b) : b[n].kind.name = "shr" =>
    IF b[n].args[1] \in Imm THEN b[n].args[1] < 2 ^ b[n].kind.bits
    ELSE \A j \in 1..Len(b) :
           b[j].dst = b[n].args[1] /\ b[j].kind.name \in aluNames
             => b[j].kind.bits <= b[n].kind.bits

(* A right shift is folded of a literal that fits.                         *)
LEMMA FoldedFits ==
  ASSUME NEW b, SingleAssignment(b), Fitting(b), Kind = designKind, Imm = Word, Len(b) \in Nat,
         NEW n \in 1..Len(b), NEW s, FoldFacts(b, n - 1, s),
         Folds(b[n], Known(b[n], s.constants)), b[n].kind.name = "shr"
  PROVE  Known(b[n], s.constants).args[1] < 2 ^ b[n].kind.bits
<1> DEFINE op == b[n]
           a == op.args[1]
           known == Known(op, s.constants)
<1>0. \A v \in DOMAIN s.constants : s.constants[v] \in Imm
  <2>1. n - 1 \in 0..Len(b)
    OBVIOUS
  <2> QED
    BY <2>1, ConstantsAreWords
<1>1. op \in Op /\ Len(op.args) = 2 /\ op.kind \in designKind /\ op.kind.bits \in designWidth
  BY OpOf, AluKind DEF SingleAssignment, Folds
<1>2. 1 \in DOMAIN op.args /\ a \in VReg \cup Imm
  <2>1. op.args \in Seq(VReg \cup Imm)
    BY <1>1 DEF Op
  <2>2. DOMAIN op.args = 1..Len(op.args)
    BY <2>1, LenProperties
  <2> QED
    BY <1>1, <2>1, <2>2, ElementOfSeq
<1>3. known.args[1] = resolve_const(a, s.constants) /\ known.args[1] \in Imm
  <2>1. known.args[1] \in Imm
    BY DEF Folds
  <2> HIDE DEF known, op
  <2>2. known.args[1] = resolve_const(a, s.constants)
    BY <1>0, <1>1, <1>2, KnownFacts DEF known
  <2> QED
    BY <2>1, <2>2
<1> HIDE DEF known
<1>4. CASE a \in DOMAIN s.constants
  <2>1. PICK j \in 1..(n - 1) : /\ b[j].dst = a /\ a \in VReg
                                /\ b[j].kind.name \in aluNames
                                /\ s.constants[a] \in 0..(2 ^ b[j].kind.bits - 1)
    BY <1>4 DEF FoldFacts
  <2>2. j \in 1..Len(b)
    OBVIOUS
  <2>3. a \notin Imm
    BY <2>1, ImmAssumption
  <2>4. b[j].kind.bits <= op.kind.bits
    BY <2>1, <2>2, <2>3 DEF Fitting
  <2>5. b[j].kind.bits \in designWidth
    BY <2>1, <2>2, OpOf, AluKind
  <2> DEFINE i == b[j].kind.bits
             w == op.kind.bits
  <2>6. i \in 0..w /\ w \in 0..WideBits
    <3>1. i \in 1..WideBits /\ w \in 1..WideBits /\ i <= w
      BY <1>1, <2>4, <2>5, WidthFacts
    <3> HIDE DEF i, w
    <3> QED
      BY <3>1, BitsAssumption
  <2> HIDE DEF i, w
  <2>7. 2 ^ i <= 2 ^ w /\ 2 ^ i \in Nat /\ 2 ^ w \in Nat
    BY <2>6, PowerGrows
  <2>8. known.args[1] \in 0..(2 ^ i - 1)
    BY <1>3, <1>4, <2>1 DEF resolve_const, i
  <2>9. known.args[1] < 2 ^ w
    BY <2>7, <2>8
  <2> QED
    BY <2>9 DEF w, known
<1>5. CASE a \notin DOMAIN s.constants
  <2>1. known.args[1] = a
    BY <1>3, <1>5 DEF resolve_const
  <2> QED
    BY <1>3, <2>1 DEF Fitting, known
<1> QED
  BY <1>4, <1>5

(* The operands of an op that is folded.                                   *)
LEMMA FoldedOperands ==
  ASSUME NEW b, SingleAssignment(b), Kind = designKind, Imm = Word, Len(b) \in Nat,
         NEW n \in 1..Len(b), NEW s, FoldFacts(b, n - 1, s),
         Fitting(b), Folds(b[n], Known(b[n], s.constants))
  PROVE  LET known == Known(b[n], s.constants)
             kind == b[n].kind
             x == FoldOf(b[n], known)
         IN  /\ x = Alu(kind.name, kind.bits, Trunc(known.args[1], kind.bits),
                        Trunc(known.args[2], kind.bits))
             /\ x \in 0..(2 ^ kind.bits - 1)
             /\ x \in Word
<1> DEFINE kind == b[n].kind
           known == Known(b[n], s.constants)
           y == known.args[1]
           z == known.args[2]
           x == fold_binary(kind.name, kind.bits, y, z)
<1>1. kind.name \in aluNames /\ y \in Word /\ z \in Word
  BY DEF Folds
<1>2. kind.bits \in designWidth
  BY <1>1, OpOf, AluKind
<1>3. kind.name = "shr" => y < 2 ^ kind.bits
  BY FoldedFits
<1> HIDE DEF y, z, kind
<1>4. /\ x = Alu(kind.name, kind.bits, Trunc(y, kind.bits), Trunc(z, kind.bits))
      /\ x \in 0..(2 ^ kind.bits - 1)
      /\ x \in Word
  BY <1>1, <1>2, <1>3, FoldCorrect
<1> QED
  BY <1>4 DEF y, z, kind, FoldOf

(* There is nothing to remove: the register has not been defined before.   *)
LEMMA NothingRemoved ==
  ASSUME NEW b, SingleAssignment(b), Len(b) \in Nat,
         NEW n \in 1..Len(b), NEW s, FoldFacts(b, n - 1, s)
  PROVE  LET rest == Removed(s.constants, b[n].dst)
         IN  /\ DOMAIN rest = DOMAIN s.constants
             /\ \A v \in DOMAIN s.constants : v # b[n].dst /\ rest[v] = s.constants[v]
<1>1. ASSUME NEW v \in DOMAIN s.constants
      PROVE  v # b[n].dst
  <2>1. PICK j \in 1..(n - 1) : b[j].dst = v /\ v \in VReg
    BY DEF FoldFacts
  <2> QED
    BY <2>1, NoRegAssumption DEF SingleAssignment
<1> QED
  BY <1>1 DEF Removed

LEMMA FoldStepKeeps ==
  ASSUME NEW b, SingleAssignment(b), Fitting(b), Kind = designKind, Imm = Word, Len(b) \in Nat,
         NEW n \in 1..Len(b), NEW s, FoldFacts(b, n - 1, s)
  PROVE  FoldFacts(b, n, FoldStep(s, b[n]))
<1> DEFINE op == b[n]
           known == Known(op, s.constants)
           x == FoldOf(op, known)
           last == [known EXCEPT !.args = <<x, 0>>]
<1>0. \A v \in DOMAIN s.constants : s.constants[v] \in Imm
  <2>1. n - 1 \in 0..Len(b)
    OBVIOUS
  <2> QED
    BY <2>1, ConstantsAreWords
<1>1. op \in Op /\ n - 1 \in Nat /\ n = (n - 1) + 1
  BY DEF SingleAssignment
<1>2. Same(known, op)
  BY <1>0, <1>1, KnownFacts DEF Same
<1>3. ASSUME NEW t, DOMAIN t = {"ops", "constants"}, NEW p, Same(p, op),
             t.ops = Append(s.ops, p), DOMAIN t.constants = DOMAIN s.constants,
             \A v \in DOMAIN s.constants : t.constants[v] = s.constants[v]
      PROVE  FoldFacts(b, n, t)
  <2>1. /\ IsSeq(Append(s.ops, p)) /\ Len(Append(s.ops, p)) = n
        /\ \A j \in 1..(n - 1) : Append(s.ops, p)[j] = s.ops[j]
        /\ Append(s.ops, p)[n] = p
    BY AppendIsSeq DEF FoldFacts
  <2> HIDE DEF op
  <2>2. \A j \in 1..n : Same(t.ops[j], b[j])
    <3> SUFFICES ASSUME NEW j \in 1..n PROVE Same(t.ops[j], b[j])
      OBVIOUS
    <3>1. CASE j = n
      BY <1>3, <2>1, <3>1 DEF op
    <3>2. CASE j # n
      <4>1. j \in 1..(n - 1)
        BY <3>2
      <4> QED
        BY <1>3, <2>1, <4>1 DEF FoldFacts
    <3> QED
      BY <3>1, <3>2
  <2>3. ASSUME NEW v \in DOMAIN t.constants
        PROVE  \E j \in 1..n : /\ b[j].dst = v /\ v \in VReg
                               /\ b[j].kind.name \in aluNames
                               /\ t.constants[v] \in 0..(2 ^ b[j].kind.bits - 1)
    <3>1. PICK j \in 1..(n - 1) : /\ b[j].dst = v /\ v \in VReg
                                  /\ b[j].kind.name \in aluNames
                                  /\ s.constants[v] \in 0..(2 ^ b[j].kind.bits - 1)
      BY <1>3, <2>3 DEF FoldFacts
    <3>2. j \in 1..n
      OBVIOUS
    <3> QED
      BY <1>3, <3>1, <3>2
  <2> QED
    BY <1>3, <2>1, <2>2, <2>3 DEF FoldFacts
<1>4. CASE ~Folds(op, known)
  <2> DEFINE rest == Removed(s.constants, op.dst)
             t == [ops |-> Append(s.ops, known), constants |-> rest]
  <2>1. FoldStep(s, op) = t
    BY <1>4, FoldStepIs
  <2>2. /\ DOMAIN rest = DOMAIN s.constants
        /\ \A v \in DOMAIN s.constants : rest[v] = s.constants[v]
    BY NothingRemoved
  <2> HIDE DEF known, op, rest
  <2>3. /\ DOMAIN t = {"ops", "constants"} /\ t.ops = Append(s.ops, known)
        /\ DOMAIN t.constants = DOMAIN s.constants
        /\ \A v \in DOMAIN s.constants : t.constants[v] = s.constants[v]
    BY <2>2
  <2> HIDE DEF t
  <2>4. FoldFacts(b, n, t)
    BY <1>2, <1>3, <2>3
  <2> QED
    BY <2>1, <2>4 DEF op
<1>5. CASE Folds(op, known)
  <2> DEFINE t == [ops |-> Append(s.ops, last), constants |-> Insert(s.constants, op.dst, x)]
             u == [ops |-> Append(s.ops, last), constants |-> s.constants]
  <2>1. FoldStep(s, op) = t
    BY <1>5, FoldStepIs
  <2>2. op.kind.name \in aluNames
    BY <1>5 DEF Folds
  <2>3. op.dst \in VReg /\ Len(op.args) = 2
    BY <1>1, <2>2 DEF SingleAssignment, Op
  <2>4. x \in 0..(2 ^ op.kind.bits - 1) /\ x \in Imm
    BY <1>5, FoldedOperands
  <2>5. 0 \in Imm
    <3>1. 2 ^ WideBits \in Nat \ {0}
      BY Power, BitsAssumption
    <3> QED
      BY <3>1 DEF Word
  <2> HIDE DEF known, op, x
  <2>6. Same(last, op)
    <3>1. known = [kind |-> known.kind, dst |-> known.dst, args |-> known.args]
          /\ known.kind \in Kind /\ known.dst \in VReg \cup {NoReg}
      BY <1>2 DEF Same, Op
    <3>2. last = [kind |-> known.kind, dst |-> known.dst, args |-> <<x, 0>>]
      BY <3>1
    <3>3. <<x, 0>> \in Seq(VReg \cup Imm) /\ Len(<<x, 0>>) = 2
      BY <2>4, <2>5
    <3> HIDE DEF last
    <3> QED
      BY <1>2, <2>3, <3>1, <3>2, <3>3 DEF Same, Op
  <2> HIDE DEF last
  <2>7. FoldFacts(b, n, u)
    BY <1>3, <2>6
  <2>8. /\ DOMAIN t.constants = DOMAIN s.constants \cup {op.dst}
        /\ t.constants[op.dst] = x
        /\ \A v \in DOMAIN s.constants : v # op.dst => t.constants[v] = s.constants[v]
    BY DEF Insert
  <2>9. ASSUME NEW v \in DOMAIN t.constants
        PROVE  \E j \in 1..n : /\ b[j].dst = v /\ v \in VReg
                               /\ b[j].kind.name \in aluNames
                               /\ t.constants[v] \in 0..(2 ^ b[j].kind.bits - 1)
    <3>1. CASE v = op.dst
      <4>1. n \in 1..n
        OBVIOUS
      <4> QED
        BY <2>2, <2>3, <2>4, <2>8, <3>1, <4>1 DEF op
    <3>2. CASE v # op.dst
      <4>1. v \in DOMAIN s.constants /\ t.constants[v] = s.constants[v]
        BY <2>8, <2>9, <3>2
      <4>2. u.constants = s.constants
        OBVIOUS
      <4> HIDE DEF t, u
      <4> QED
        BY <2>7, <4>1, <4>2 DEF FoldFacts
    <3> QED
      BY <3>1, <3>2
  <2>10. DOMAIN t = {"ops", "constants"} /\ t.ops = u.ops
    OBVIOUS
  <2> HIDE DEF t, u
  <2>11. FoldFacts(b, n, t)
    BY <2>7, <2>9, <2>10 DEF FoldFacts
  <2> QED
    BY <2>1, <2>11 DEF op
<1> QED
  BY <1>4, <1>5

(* An op that only has a result.                                           *)
LEMMA OnlyResult ==
  ASSUME NEW op, op.kind.name \in aluNames, op.dst \in VReg, NEW m, IsState(m), ~m.left
  PROVE  /\ IsState(Ran(m, op)) /\ Outcome(Ran(m, op)) = Outcome(m) /\ SameFlags(Ran(m, op), m)
         /\ \A v : v # op.dst => ValueOf(v, Ran(m, op).env) = ValueOf(v, m.env)
         /\ ValueOf(op.dst, Ran(m, op).env) = Result(op.kind, Values(op, m), m)
<1> DEFINE p == DesignExec(op, m)
           e == Effect(op.kind, Values(op, m), m)
<1>1. e = m
  BY DEF Effect, aluNames
<1>2. op.dst # NoReg
  BY NoRegAssumption
<1>3. /\ IsState(p) /\ Outcome(p) = Outcome(e) /\ SameFlags(p, e)
      /\ \A v : v # op.dst => ValueOf(v, p.env) = ValueOf(v, m.env)
      /\ op.dst # NoReg /\ ~p.left => ValueOf(op.dst, p.env) = Result(op.kind, Values(op, m), m)
  BY ExecFacts
<1>4. Ran(m, op) = p
  BY DEF Ran
<1> HIDE DEF p, e
<1>5. ~p.left
  BY <1>1, <1>3 DEF Outcome
<1> QED
  BY <1>1, <1>2, <1>3, <1>4, <1>5

(* The optimised block in o, the block itself in m.                        *)
FoldMet(b, n, s, o, m) ==
  /\ Alike(b, n, DOMAIN s.constants, o, m)
  /\ ~m.left => \A v \in DOMAIN s.constants : ValueOf(v, m.env) = s.constants[v]

LEMMA FoldStepMeets ==
  ASSUME NEW b, SingleAssignment(b), Fitting(b), Kind = designKind, Imm = Word, Len(b) \in Nat,
         NEW n \in 1..Len(b), NEW s, FoldFacts(b, n - 1, s),
         NEW m, NEW o, FoldMet(b, n - 1, s, o, m)
  PROVE  \E p : /\ FoldStep(s, b[n]).ops = Append(s.ops, p)
                /\ FoldMet(b, n, FoldStep(s, b[n]), Ran(o, p), Ran(m, b[n]))
<1> DEFINE op == b[n]
           known == Known(op, s.constants)
           x == FoldOf(op, known)
           last == [known EXCEPT !.args = <<x, 0>>]
<1>0. \A v \in DOMAIN s.constants : s.constants[v] \in Imm
  <2>1. n - 1 \in 0..Len(b)
    OBVIOUS
  <2> QED
    BY <2>1, ConstantsAreWords
<1>1. /\ op \in Op /\ op.kind \in designKind /\ op.dst \in VReg \cup {NoReg}
      /\ DOMAIN op.args = 1..Len(op.args)
      /\ \A j \in 1..Len(op.args) : op.args[j] \in VReg \cup Imm
  BY OpOf DEF SingleAssignment
<1>2. /\ known \in Op /\ known.kind = op.kind /\ known.dst = op.dst
      /\ DOMAIN known.args = DOMAIN op.args
      /\ \A j \in DOMAIN op.args : known.args[j] = resolve_const(op.args[j], s.constants)
  BY <1>0, <1>1, KnownFacts
<1>3. IsState(m) /\ IsState(o) /\ Outcome(o) = Outcome(m) /\ m.left = o.left
  BY DEF FoldMet, Alike, Outcome
(* The operands are what they are known to be.                             *)
<1>4. ASSUME ~m.left
      PROVE  /\ Values(known, o) = Values(op, m)
             /\ \A j \in DOMAIN op.args : known.args[j] \in Imm =>
                  Values(op, m)[j] = known.args[j]
  <2> HIDE DEF op, known
  <2>1. \A j \in DOMAIN op.args : ValueOf(known.args[j], o.env) = ValueOf(op.args[j], m.env)
    <3> SUFFICES ASSUME NEW j \in DOMAIN op.args
                 PROVE  ValueOf(known.args[j], o.env) = ValueOf(op.args[j], m.env)
      OBVIOUS
    <3> DEFINE a == op.args[j]
    <3>1. a \in VReg \cup Imm /\ known.args[j] = resolve_const(a, s.constants)
      BY <1>1, <1>2
    <3> HIDE DEF a
    <3>2. CASE a \in DOMAIN s.constants
      <4>1. ValueOf(a, m.env) = s.constants[a]
        BY <1>4, <3>2 DEF FoldMet
      <4>2. known.args[j] = s.constants[a] /\ s.constants[a] \in Imm
        BY <1>0, <3>1, <3>2 DEF resolve_const
      <4>3. ValueOf(known.args[j], o.env) = s.constants[a]
        BY <4>2 DEF ValueOf
      <4> QED
        BY <4>1, <4>3 DEF a
    <3>3. CASE a \notin DOMAIN s.constants
      <4>1. known.args[j] = a
        BY <3>1, <3>3 DEF resolve_const
      <4>2. ValueOf(a, o.env) = ValueOf(a, m.env)
        <5>1. CASE a \in Imm
          BY <5>1 DEF ValueOf
        <5>2. CASE a \notin Imm
          BY <1>3, <1>4, <3>1, <3>3, <5>2 DEF FoldMet, Alike
        <5> QED
          BY <5>1, <5>2
      <4> QED
        BY <4>1, <4>2 DEF a
    <3> QED
      BY <3>2, <3>3
  <2>2. Values(known, o) = Values(op, m)
    BY <1>2, <2>1 DEF Values
  <2>3. ASSUME NEW j \in DOMAIN op.args, known.args[j] \in Imm
        PROVE  Values(op, m)[j] = known.args[j]
    <3>1. Values(op, m)[j] = ValueOf(known.args[j], o.env)
      BY <2>1, <2>3 DEF Values
    <3> QED
      BY <2>3, <3>1 DEF ValueOf
  <2> QED
    BY <2>2, <2>3
<1>5. CASE ~Folds(op, known)
  <2> DEFINE rest == Removed(s.constants, op.dst)
             t == [ops |-> Append(s.ops, known), constants |-> rest]
  <2>1. FoldStep(s, op) = t
    BY <1>5, FoldStepIs
  <2>2. /\ t.ops = Append(s.ops, known) /\ DOMAIN t.constants = DOMAIN s.constants
        /\ \A v \in DOMAIN s.constants : t.constants[v] = s.constants[v]
    <3>1. /\ DOMAIN rest = DOMAIN s.constants
          /\ \A v \in DOMAIN s.constants : rest[v] = s.constants[v]
      BY NothingRemoved
    <3> HIDE DEF known, rest
    <3> QED
      BY <3>1
  <2> HIDE DEF t
  <2>3. CASE m.left
    <3>1. Ran(m, op) = m /\ Ran(o, known) = o
      BY <1>3, <2>3 DEF Ran
    <3>2. FoldMet(b, n, t, o, m)
      BY <1>3, <2>2, <2>3 DEF FoldMet, Alike
    <3> QED
      BY <2>1, <2>2, <3>1, <3>2
  <2>4. CASE ~m.left
    <3>1. Alike(b, n, DOMAIN s.constants, Ran(o, known), Ran(m, op))
      <4>1. Alike(b, n - 1, DOMAIN s.constants, o, m) /\ Values(known, o) = Values(op, m)
        BY <1>4, <2>4 DEF FoldMet
      <4>2. known.dst \in VReg \cup {NoReg} /\ known.kind \in designKind
        BY <1>1, <1>2
      <4> HIDE DEF known
      <4> QED
        BY <1>2, <4>1, <4>2, AlikeKept
    <3>2. ASSUME NEW v \in DOMAIN s.constants
          PROVE  ValueOf(v, Ran(m, op).env) = s.constants[v]
      <4>1. v # op.dst
        <5>1. PICK j \in 1..(n - 1) : b[j].dst = v /\ v \in VReg
          BY DEF FoldFacts
        <5> QED
          BY <5>1, NoRegAssumption DEF SingleAssignment
      <4>2. Ran(m, op) = DesignExec(op, m)
        BY <2>4 DEF Ran
      <4>3. ValueOf(v, Ran(m, op).env) = ValueOf(v, m.env)
        <5>1. op.dst \in VReg \cup {NoReg} /\ IsState(m)
          BY <1>1, <1>3
        <5> HIDE DEF op
        <5>2. \A u : u # op.dst => ValueOf(u, DesignExec(op, m).env) = ValueOf(u, m.env)
          BY ONLY <5>1, ExecFacts
        <5> QED
          BY <4>1, <4>2, <5>2
      <4> QED
        BY <2>4, <4>3 DEF FoldMet
    <3> HIDE DEF known
    <3>3. FoldMet(b, n, t, Ran(o, known), Ran(m, op))
      BY <2>2, <3>1, <3>2 DEF FoldMet
    <3> QED
      BY <2>1, <2>2, <3>3
  <2> QED
    BY <2>3, <2>4
<1>6. CASE Folds(op, known)
  <2> DEFINE t == [ops |-> Append(s.ops, last), constants |-> Insert(s.constants, op.dst, x)]
             kind == op.kind
             y == known.args[1]
             z == known.args[2]
  <2>1. FoldStep(s, op) = t /\ t.ops = Append(s.ops, last)
    BY <1>6, FoldStepIs
  <2>2. kind.name \in aluNames /\ y \in Imm /\ z \in Imm
    BY <1>6 DEF Folds
  <2>3. op.dst \in VReg /\ Len(op.args) = 2
    BY <1>1, <2>2 DEF SingleAssignment
  <2>4. x = Alu(kind.name, kind.bits, Trunc(y, kind.bits), Trunc(z, kind.bits))
    BY <1>6, FoldedOperands
  <2>5. last.kind = kind /\ last.dst = op.dst
    <3>1. known = [kind |-> known.kind, dst |-> known.dst, args |-> known.args]
      BY <1>2 DEF Op
    <3>2. last = [kind |-> known.kind, dst |-> known.dst, args |-> <<x, 0>>]
      BY <3>1
    <3> HIDE DEF last, known, x
    <3> QED
      BY <1>2, <3>2
  <2>6. /\ DOMAIN t.constants = DOMAIN s.constants \cup {op.dst}
        /\ t.constants[op.dst] = x
        /\ \A v \in DOMAIN s.constants : v # op.dst => t.constants[v] = s.constants[v]
    <3> HIDE DEF x, last, op
    <3> QED
      BY DEF Insert
  <2> HIDE DEF last, x, y, z, known, t
  <2>7. CASE m.left
    <3>1. Ran(m, op) = m /\ Ran(o, last) = o
      BY <1>3, <2>7 DEF Ran
    <3>2. FoldMet(b, n, t, o, m)
      BY <1>3, <2>7 DEF FoldMet, Alike
    <3> QED
      BY <2>1, <3>1, <3>2
  <2>8. CASE ~m.left
    <3>1. /\ IsState(Ran(m, op)) /\ Outcome(Ran(m, op)) = Outcome(m) /\ SameFlags(Ran(m, op), m)
          /\ \A v : v # op.dst => ValueOf(v, Ran(m, op).env) = ValueOf(v, m.env)
          /\ ValueOf(op.dst, Ran(m, op).env) = Result(kind, Values(op, m), m)
      <4> HIDE DEF op
      <4> QED
        BY <1>3, <2>2, <2>3, <2>8, OnlyResult
    <3>2. /\ IsState(Ran(o, last)) /\ Outcome(Ran(o, last)) = Outcome(o) /\ SameFlags(Ran(o, last), o)
          /\ \A v : v # op.dst => ValueOf(v, Ran(o, last).env) = ValueOf(v, o.env)
      <4>1. last.kind.name \in aluNames /\ last.dst \in VReg /\ ~o.left
        BY <1>3, <2>2, <2>3, <2>5, <2>8
      <4>2. /\ IsState(Ran(o, last)) /\ Outcome(Ran(o, last)) = Outcome(o)
            /\ SameFlags(Ran(o, last), o)
            /\ \A v : v # last.dst => ValueOf(v, Ran(o, last).env) = ValueOf(v, o.env)
        BY <1>3, <4>1, OnlyResult
      <4> QED
        BY <2>5, <4>2
    <3>3. Result(kind, Values(op, m), m) = x
      <4>1. 1 \in DOMAIN op.args /\ 2 \in DOMAIN op.args
        BY <1>1, <2>3
      <4>2. Values(op, m)[1] = y /\ Values(op, m)[2] = z
        BY <1>4, <2>2, <2>8, <4>1 DEF y, z
      <4> QED
        BY <2>2, <2>4, <4>2 DEF Result, aluNames
    <3>4. ASSUME NEW v \in DOMAIN t.constants
          PROVE  ValueOf(v, Ran(m, op).env) = t.constants[v]
      <4>1. CASE v = op.dst
        BY <2>6, <3>1, <3>3, <4>1
      <4>2. CASE v # op.dst
        BY <2>6, <2>8, <3>1, <3>4, <4>2 DEF FoldMet
      <4> QED
        BY <4>1, <4>2
    <3>5. Observed(b, n) => SameFlags(o, m)
      <4>1. op.kind.name # "setflags"
        BY <2>2 DEF aluNames
      <4> QED
        BY <1>3, <2>8, <4>1, ObservedBefore DEF FoldMet, Alike
    <3>6. \A v \in VReg \ DOMAIN t.constants :
            ValueOf(v, Ran(o, last).env) = ValueOf(v, Ran(m, op).env)
      BY <1>3, <2>6, <2>8, <3>1, <3>2 DEF FoldMet, Alike
    <3> DEFINE u == Ran(o, last)
               w == Ran(m, op)
    <3> HIDE DEF u, w
    <3>7. /\ IsState(u) /\ IsState(w) /\ Outcome(u) = Outcome(w)
          /\ Observed(b, n) => SameFlags(u, w)
          /\ \A v \in VReg \ DOMAIN t.constants : ValueOf(v, u.env) = ValueOf(v, w.env)
          /\ \A v \in DOMAIN t.constants : ValueOf(v, w.env) = t.constants[v]
      BY <1>3, <3>1, <3>2, <3>4, <3>5, <3>6 DEF SameFlags, u, w
    <3>8. FoldMet(b, n, t, u, w)
      BY <3>7 DEF FoldMet, Alike
    <3> QED
      BY <2>1, <3>8 DEF u, w
  <2> QED
    BY <2>7, <2>8
<1> QED
  BY <1>5, <1>6

(* constant_fold leaves an equal block in single assignment.               *)
LEMMA FoldPreserves ==
  ASSUME NEW b, IsSeq(b), SingleAssignment(b), Fitting(b), Kind = designKind, Imm = Word
  PROVE  /\ IsSeq(constant_fold(b))
         /\ SingleAssignment(constant_fold(b))
         /\ \A m : IsState(m) =>
              Outcome(DesignRun(constant_fold(b), m)) = Outcome(DesignRun(b, m))
<1>0. Len(b) \in Nat
  BY LenProperties DEF IsSeq
<1>1. PICK c : Folding(b, c) /\ constant_fold(b) = c[Len(b)].ops
  BY <1>0, FoldTurns
<1> DEFINE T == {n \in Nat : n <= Len(b) => FoldFacts(b, n, c[n])}
<1>2. 0 \in T
  <2>1. c[0] = [ops |-> <<>>, constants |-> <<>>]
    BY <1>1 DEF Folding
  <2>2. IsSeq(<<>>) /\ Len(<<>>) = 0
    BY EmptySeq, SeqIsSeq
  <2>3. DOMAIN c[0].constants = {}
    BY <2>1
  <2> QED
    BY <2>1, <2>2, <2>3 DEF FoldFacts
<1>3. ASSUME NEW n \in Nat, n \in T
      PROVE  n + 1 \in T
  <2> SUFFICES ASSUME n + 1 <= Len(b) PROVE FoldFacts(b, n + 1, c[n + 1])
    OBVIOUS
  <2> DEFINE i == n + 1
             s == c[n]
  <2>1. i \in 1..Len(b) /\ i - 1 = n /\ c[i] = FoldStep(s, b[i]) /\ FoldFacts(b, i - 1, s)
    BY <1>0, <1>1, <1>3 DEF Folding
  <2> HIDE DEF i, s
  <2>2. FoldFacts(b, i, FoldStep(s, b[i]))
    BY <1>0, <2>1, FoldStepKeeps
  <2> QED
    BY <2>1, <2>2 DEF i
<1>4. \A n \in 0..Len(b) : FoldFacts(b, n, c[n])
  <2>1. Nat \subseteq T
    <3> HIDE DEF T
    <3> QED
      BY <1>2, <1>3, SetInduction
  <2> QED
    BY <1>0, <2>1
<1> DEFINE d == constant_fold(b)
<1>5. IsSeq(d) /\ Len(d) = Len(b) /\ \A j \in 1..Len(b) : Same(d[j], b[j])
  <2>1. Len(b) \in 0..Len(b)
    BY <1>0
  <2>2. FoldFacts(b, Len(b), c[Len(b)])
    BY <1>4, <2>1
  <2> HIDE DEF d
  <2>3. d = c[Len(b)].ops
    BY <1>1 DEF d
  <2> QED
    BY <2>2, <2>3 DEF FoldFacts
<1> HIDE DEF d
<1>6. SingleAssignment(d)
  <2> SUFFICES ASSUME NEW n \in 1..Len(d)
               PROVE  /\ d[n] \in Op
                      /\ d[n].kind.name \in effectNames => d[n].dst = NoReg
                      /\ d[n].kind.name \in aluNames \cup {"load", "readflag"} => d[n].dst # NoReg
                      /\ d[n].kind.name \in aluNames \cup {"setflags", "store"} => Len(d[n].args) = 2
                      /\ d[n].kind.name = "load" => Len(d[n].args) = 1
                      /\ d[n].dst # NoReg => \A j \in 1..(n - 1) : d[j].dst # d[n].dst
    BY DEF SingleAssignment
  <2>1. n \in 1..Len(b) /\ Same(d[n], b[n])
    BY <1>5
  <2>2. \A j \in 1..(n - 1) : d[j].dst = b[j].dst
    <3> SUFFICES ASSUME NEW j \in 1..(n - 1) PROVE d[j].dst = b[j].dst
      OBVIOUS
    <3>1. j \in 1..Len(b)
      BY <1>0, <2>1
    <3> QED
      BY <1>5, <3>1 DEF Same
  <2> QED
    BY <2>1, <2>2 DEF SingleAssignment, Same
<1>7. ASSUME NEW m, IsState(m)
      PROVE  Outcome(DesignRun(d, m)) = Outcome(DesignRun(b, m))
  <2>1. PICK g : Running(b, m, g) /\ DesignRun(b, m) = g[Len(b)]
    BY <1>0, RunOf
  <2> DEFINE Met(n) == FoldMet(b, n, c[n], DesignRun(c[n].ops, m), g[n])
             U == {n \in Nat : n <= Len(b) => Met(n)}
  <2>2. 0 \in U
    <3>1. c[0] = [ops |-> <<>>, constants |-> <<>>] /\ g[0] = m
      BY <1>1, <2>1 DEF Folding, Running
    <3>2. DesignRun(c[0].ops, m) = m /\ DOMAIN c[0].constants = {}
      BY <3>1, RunEmpty
    <3>3. FoldMet(b, 0, c[0], m, m)
      BY <1>7, <3>2 DEF FoldMet, Alike, SameFlags
    <3> QED
      BY <3>1, <3>2, <3>3
  <2>3. ASSUME NEW n \in Nat, n \in U
        PROVE  n + 1 \in U
    <3> SUFFICES ASSUME n + 1 <= Len(b) PROVE Met(n + 1)
      OBVIOUS
    <3> DEFINE i == n + 1
               s == c[n]
               x == g[n]
               y == DesignRun(s.ops, m)
    <3>1. i \in 1..Len(b) /\ i - 1 = n /\ n \in 0..Len(b)
      BY <1>0
    <3>2. c[i] = FoldStep(s, b[i]) /\ FoldFacts(b, i - 1, s)
      BY <1>1, <1>4, <3>1 DEF Folding
    <3>3. FoldMet(b, i - 1, s, y, x) /\ g[i] = Ran(x, b[i])
      BY <2>1, <2>3, <3>1 DEF Running
    <3> HIDE DEF i, s, x, y
    <3>4. PICK p : /\ FoldStep(s, b[i]).ops = Append(s.ops, p)
                   /\ FoldMet(b, i, FoldStep(s, b[i]), Ran(y, p), Ran(x, b[i]))
      BY <1>0, <3>1, <3>2, <3>3, FoldStepMeets
    <3>5. IsSeq(s.ops)
      BY <3>2 DEF FoldFacts
    <3>6. DesignRun(c[i].ops, m) = Ran(y, p)
      BY <3>2, <3>4, <3>5, RunAppend DEF y
    <3>7. FoldMet(b, i, c[i], DesignRun(c[i].ops, m), g[i])
      BY <3>2, <3>3, <3>4, <3>6
    <3> QED
      BY <3>7 DEF i
  <2> HIDE DEF Met
  <2>4. Met(Len(b))
    <3>1. Len(b) \in U
      BY <1>0, <2>2, <2>3, SetInduction
    <3> QED
      BY <1>0, <3>1
  <2> QED
    BY <1>1, <2>1, <2>4 DEF Met, FoldMet, Alike, d
<1> QED
  BY <1>5, <1>6, <1>7 DEF d

-----------------------------------------------------------------------------
(* redundant_load_elimination.                                             *)

(* The states of the pass, one for each op of b.                           *)
Eliminating(b, c) ==
  /\ c[0] = [ops |-> <<>>, loads |-> {}, stores |-> {}, subst |-> <<>>]
  /\ \A n \in 1..Len(b) : c[n] = EliminateStep(c[n - 1], b[n])

LEMMA EliminateTurns ==
  ASSUME NEW b, Len(b) \in Nat
  PROVE  \E c : Eliminating(b, c) /\ redundant_load_elimination(b) = c[Len(b)].ops
<1> DEFINE first == [ops |-> <<>>, loads |-> {}, stores |-> {}, subst |-> <<>>]
           c == CHOOSE g : g = [j \in 0..Len(b) |->
                                  IF j = 0 THEN first
                                  ELSE LET s == g[j - 1] IN EliminateStep(s, b[j])]
<1>1. redundant_load_elimination(b) = c[Len(b)].ops
  BY DEF redundant_load_elimination, Sweep
<1>2. PICK g : Turns("eliminate", b, first, b, Len(b), g)
  BY LoopTurns
<1>3. Turns("eliminate", b, first, b, Len(b), c)
  BY <1>2 DEF Turns, Turn
<1> HIDE DEF c, first
<1>4. /\ c[0] = first
      /\ \A j \in 1..Len(b) : c[j] = Turn("eliminate", b, c[j - 1], b[j])
  BY <1>3, TurnsAt
<1>5. Eliminating(b, c)
  BY <1>4 DEF Eliminating, Turn, first
<1> QED
  BY <1>1, <1>5

(* A register that was replaced has the value of what replaced it.         *)
SubstHolds(subst, m) ==
  \A v \in DOMAIN subst : ValueOf(v, m.env) = ValueOf(subst[v], m.env)

(* An operand becomes a literal of its value, or stays.                    *)
LEMMA ResolvedFacts ==
  ASSUME NEW a, NEW subst
  PROVE  /\ resolve_substitution(a, subst) = a \/ resolve_substitution(a, subst) \in Imm
         /\ \A m : SubstHolds(subst, m) =>
              ValueOf(resolve_substitution(a, subst), m.env) = ValueOf(a, m.env)
<1> DEFINE hop == CHOOSE g : g = [n \in 0..8 |->
                                    IF n = 0 THEN a
                                    ELSE LET v == g[n - 1] IN
                                         IF v \in DOMAIN subst THEN subst[v] ELSE v]
           x == hop[8]
           e == 8
           none == <<>>
<1>1. resolve_substitution(a, subst) = IF x \in Imm THEN x ELSE a
  BY DEF resolve_substitution
<1>2. PICK g : Turns("hop", subst, a, none, e, g)
  BY LoopTurns
<1>3. Turns("hop", subst, a, none, e, hop)
  BY <1>2 DEF Turns, Turn
<1>4. e \in Nat
  OBVIOUS
<1> HIDE DEF hop, e, none
<1>5. /\ hop[0] = a
      /\ \A j \in 1..e : hop[j] = Turn("hop", subst, hop[j - 1], none[j])
  BY <1>3, <1>4, TurnsAt
<1>6. ASSUME NEW m, SubstHolds(subst, m)
      PROVE  ValueOf(hop[e], m.env) = ValueOf(a, m.env)
  <2> DEFINE T == {n \in Nat : n <= e => ValueOf(hop[n], m.env) = ValueOf(a, m.env)}
  <2>1. 0 \in T
    BY <1>5
  <2>2. ASSUME NEW n \in Nat, n \in T
        PROVE  n + 1 \in T
    <3> SUFFICES ASSUME n + 1 <= e PROVE ValueOf(hop[n + 1], m.env) = ValueOf(a, m.env)
      OBVIOUS
    <3>1. n + 1 \in 1..e /\ (n + 1) - 1 = n /\ ValueOf(hop[n], m.env) = ValueOf(a, m.env)
      BY <1>4, <2>2
    <3>2. hop[n + 1] = Turn("hop", subst, hop[n], none[n + 1])
      BY <1>5, <3>1
    <3>3. hop[n + 1] = IF hop[n] \in DOMAIN subst THEN subst[hop[n]] ELSE hop[n]
      BY <3>2 DEF Turn
    <3> QED
      BY <1>6, <3>1, <3>3 DEF SubstHolds
  <2>3. e \in T
    BY <1>4, <2>1, <2>2, SetInduction
  <2> QED
    BY <1>4, <2>3
<1> QED
  BY <1>1, <1>6 DEF e

(* The op on what is known of its operands.                                *)
Replaced(op, subst) == WithArgs(op, LAMBDA a : resolve_substitution(a, subst))

LEMMA ReplacedFacts ==
  ASSUME NEW op, IsOp(op), Kind = designKind, NEW subst
  PROVE  /\ IsOp(Replaced(op, subst))
         /\ Replaced(op, subst).kind = op.kind
         /\ Replaced(op, subst).dst = op.dst
         /\ DOMAIN Replaced(op, subst).args = DOMAIN op.args
         /\ \A j \in DOMAIN op.args :
              Replaced(op, subst).args[j] = resolve_substitution(op.args[j], subst)
<1> DEFINE S == VReg \cup Imm
           args == [j \in DOMAIN op.args |-> resolve_substitution(op.args[j], subst)]
<1>1. op = [kind |-> op.kind, dst |-> op.dst, args |-> op.args] /\ op.args \in Seq(S)
      /\ op.kind \in Kind /\ op.dst \in VReg \cup {NoReg}
  BY DEF Op, IsOp
<1>2. Replaced(op, subst) = [kind |-> op.kind, dst |-> op.dst, args |-> args]
  BY <1>1 DEF Replaced, WithArgs
<1>3. DOMAIN op.args = 1..Len(op.args) /\ Len(op.args) \in Nat
  BY <1>1, LenProperties
<1>4. ASSUME NEW j \in 1..Len(op.args)
      PROVE  args[j] \in S
  <2>1. op.args[j] \in S
    BY <1>1, ElementOfSeq
  <2>2. args[j] = resolve_substitution(op.args[j], subst)
    BY <1>3
  <2> HIDE DEF args
  <2> QED
    BY <2>1, <2>2, ResolvedFacts
<1>5. args \in Seq(S)
  <2>1. args = [j \in 1..Len(op.args) |-> args[j]]
    BY <1>3
  <2> HIDE DEF args, S
  <2>2. args \in [1..Len(op.args) -> S]
    BY <1>4, <2>1
  <2> QED
    BY <1>3, <2>2, SeqDef
<1>6. DOMAIN args = DOMAIN op.args
      /\ \A j \in DOMAIN op.args : args[j] = resolve_substitution(op.args[j], subst)
  OBVIOUS
<1> HIDE DEF args
<1> QED
  BY <1>1, <1>2, <1>5, <1>6 DEF Op, IsOp

(* The bytes of an access, and its address.                                *)
LEMMA RangeFacts ==
  ASSUME NEW a \in Word, NEW bits \in designWidth, ByteBits \in 1..WideBits,
         MemRange(a, bits) # {}
  PROVE  /\ MemRange(a, bits) = a..(a + BytesOf(bits) - 1)
         /\ MemRange(a, bits) \subseteq Word
         /\ InMemory(a, BytesOf(bits))
         /\ \A c \in Word : MemRange(c, bits) = MemRange(a, bits) => c = a
<1> DEFINE p == 2 ^ WideBits
           bytes == BytesOf(bits)
<1>1. p \in Nat /\ Word = 0..(p - 1) /\ bytes \in Nat \ {0}
  BY Power, BitsAssumption, BytesFacts DEF Word
<1>2. \A c : MemRange(c, bits) = IF c + bytes < p THEN c..(c + bytes - 1) ELSE {}
  BY DEF MemRange, BytesOf
<1>3. InMemory(a, bytes) <=> a + bytes <= p
  BY DEF InMemory
<1> HIDE DEF p, bytes
<1>4. a \in Nat
  BY <1>1
<1>5. MemRange(a, bits) = a..(a + bytes - 1) /\ a + bytes < p
  BY <1>2
<1>6. MemRange(a, bits) \subseteq Word /\ InMemory(a, bytes)
  BY <1>1, <1>3, <1>4, <1>5
<1>7. ASSUME NEW c \in Word, MemRange(c, bits) = MemRange(a, bits)
      PROVE  c = a
  <2>1. c \in Nat /\ MemRange(c, bits) = c..(c + bytes - 1)
    BY <1>1, <1>2, <1>7
  <2>2. a \in c..(c + bytes - 1) /\ c \in a..(a + bytes - 1)
    BY <1>1, <1>4, <1>5, <1>7, <2>1
  <2> QED
    BY <1>4, <2>1, <2>2
<1> QED
  BY <1>5, <1>6, <1>7 DEF bytes

-----------------------------------------------------------------------------
(* What the pass knows of memory.                                          *)

LoadHolds(f, m) ==
  \A a \in Word : f.range # {} /\ f.range = MemRange(a, f.kind.bits) =>
    ValueOf(f.value, m.env)
      = Forwarded(LoadBytes(m.mem, a, BytesOf(f.kind.bits), f.kind.big), f.kind)

StoreHolds(f, m) ==
  \A a \in Word : f.value \in Imm /\ f.range # {} /\ f.range = MemRange(a, f.kind.bits) =>
    LoadBytes(m.mem, a, BytesOf(f.kind.bits), f.kind.big) = Trunc(f.value, f.kind.bits)

(* It holds until the bytes of the access, or the value, change.           *)
LEMMA LoadStillHolds ==
  ASSUME NEW f, f.kind.bits \in designWidth, ByteBits \in 1..WideBits, NEW m, NEW q, LoadHolds(f, m),
         ValueOf(f.value, q.env) = ValueOf(f.value, m.env),
         \A c \in f.range \cap Word : q.mem[c] = m.mem[c]
  PROVE  LoadHolds(f, q)
<1> SUFFICES ASSUME NEW a \in Word, f.range # {}, f.range = MemRange(a, f.kind.bits)
             PROVE  ValueOf(f.value, q.env)
                      = Forwarded(LoadBytes(q.mem, a, BytesOf(f.kind.bits), f.kind.big), f.kind)
  BY DEF LoadHolds
<1> DEFINE bits == f.kind.bits
           mem == m.mem
           other == q.mem
           big == f.kind.big
<1>1. f.range = a..(a + BytesOf(bits) - 1) /\ f.range \subseteq Word
  BY RangeFacts
<1>2. a \in Nat
  BY Power, BitsAssumption DEF Word
<1>3. bits \in designWidth /\ \A c \in a..(a + BytesOf(bits) - 1) : mem[c] = other[c]
  BY <1>1
<1> HIDE DEF bits, mem, other, big
<1>4. LoadBytes(mem, a, BytesOf(bits), big) = LoadBytes(other, a, BytesOf(bits), big)
  BY <1>2, <1>3, LoadReads
<1> QED
  BY <1>4 DEF LoadHolds, bits, mem, other, big

LEMMA StoreStillHolds ==
  ASSUME NEW f, f.kind.bits \in designWidth, ByteBits \in 1..WideBits, NEW m, NEW q, StoreHolds(f, m),
         \A c \in f.range \cap Word : q.mem[c] = m.mem[c]
  PROVE  StoreHolds(f, q)
<1> SUFFICES ASSUME NEW a \in Word, f.value \in Imm, f.range # {}, f.range = MemRange(a, f.kind.bits)
             PROVE  LoadBytes(q.mem, a, BytesOf(f.kind.bits), f.kind.big) = Trunc(f.value, f.kind.bits)
  BY DEF StoreHolds
<1> DEFINE bits == f.kind.bits
           mem == m.mem
           other == q.mem
           big == f.kind.big
<1>1. f.range = a..(a + BytesOf(bits) - 1) /\ f.range \subseteq Word
  BY RangeFacts
<1>2. a \in Nat
  BY Power, BitsAssumption DEF Word
<1>3. bits \in designWidth /\ \A c \in a..(a + BytesOf(bits) - 1) : mem[c] = other[c]
  BY <1>1
<1> HIDE DEF bits, mem, other, big
<1>4. LoadBytes(mem, a, BytesOf(bits), big) = LoadBytes(other, a, BytesOf(bits), big)
  BY <1>2, <1>3, LoadReads
<1> QED
  BY <1>4 DEF StoreHolds, bits, mem, other, big

-----------------------------------------------------------------------------
(* A step of the pass: the op is kept, or a load is replaced by x.         *)

IsElim(s) == DOMAIN s = {"ops", "loads", "stores", "subst"}

KeptAs(s, t, p) == IsElim(t) /\ t.ops = Append(s.ops, p) /\ t.subst = s.subst

Keeping(s, t, op, p) ==
  \/ t.loads = {} /\ t.stores = {}
  \/ /\ op.kind.name = "load" /\ RangeOf(p) # {}
     /\ t.loads = Apart(s.loads, RangeOf(p)) \cup {Fact(p, p.dst)} /\ t.stores = s.stores
  \/ /\ op.kind.name = "store" /\ RangeOf(p) # {}
     /\ t.loads = Apart(s.loads, RangeOf(p))
     /\ t.stores = Apart(s.stores, RangeOf(p)) \cup {Fact(p, p.args[2])}
  \/ /\ op.kind.name # "store" /\ ~ForgetsMemory(op)
     /\ t.loads = s.loads /\ t.stores = s.stores

Replacing(s, t, op, p, x) ==
  /\ IsElim(t) /\ t.ops = s.ops /\ t.subst = Insert(s.subst, p.dst, x) /\ t.stores = s.stores
  /\ op.kind.name = "load" /\ RangeOf(p) # {}
  /\ \/ /\ t.loads = s.loads
        /\ \E f \in s.loads : f.kind = op.kind /\ f.range = RangeOf(p) /\ f.value = x
     \/ /\ t.loads = s.loads \cup {Fact(p, x)}
        /\ \E f \in s.stores : /\ f.range = RangeOf(p) /\ f.kind.bits = op.kind.bits
                               /\ f.kind.big = op.kind.big
                               /\ f.value \in Imm /\ x = Forwarded(f.value, op.kind)

LEMMA EliminateCases ==
  ASSUME NEW s, IsElim(s), NEW op, IsOp(op), Kind = designKind
  PROVE  LET p == Replaced(op, s.subst)
             t == EliminateStep(s, op)
         IN  \/ KeptAs(s, t, p) /\ Keeping(s, t, op, p)
             \/ \E x : Replacing(s, t, op, p, x)
<1> DEFINE p == Replaced(op, s.subst)
           t == EliminateStep(s, op)
           range == RangeOf(p)
<1>1. p.kind = op.kind
  BY ReplacedFacts
<1>2. t = CASE op.kind.name = "load"  -> LoadStep(s, p)
            [] op.kind.name = "store" -> StoreStep(s, p)
            [] ForgetsMemory(op)      -> Forget(s, p)
            [] OTHER                  -> [s EXCEPT !.ops = Append(@, p)]
  BY DEF EliminateStep, Replaced
<1> HIDE DEF p, t
<1>3. CASE op.kind.name = "store"
  <2>1. t = StoreStep(s, p)
    BY <1>2, <1>3 DEF ForgetsMemory
  <2>2. CASE range = {}
    <3>1. t = Forget(s, p)
      BY <2>1, <2>2 DEF StoreStep
    <3> QED
      BY <3>1 DEF Forget, IsElim, KeptAs, Keeping, p, t
  <2>3. CASE range # {}
    <3>1. t = [s EXCEPT !.loads = Apart(@, range),
                        !.stores = Apart(@, range) \cup {Fact(p, p.args[2])},
                        !.ops = Append(@, p)]
      BY <2>1, <2>3 DEF StoreStep
    <3>2. /\ IsElim(t) /\ t.ops = Append(s.ops, p) /\ t.subst = s.subst
          /\ t.loads = Apart(s.loads, range)
          /\ t.stores = Apart(s.stores, range) \cup {Fact(p, p.args[2])}
      BY <3>1 DEF IsElim
    <3>3. KeptAs(s, t, p) /\ Keeping(s, t, op, p)
      BY <1>3, <2>3, <3>2 DEF KeptAs, Keeping
    <3> QED
      BY <3>3 DEF p, t
  <2> QED
    BY <2>2, <2>3
<1>4. CASE op.kind.name = "load"
  <2> DEFINE loaded == {f \in s.loads : f.kind = p.kind /\ f.range = range}
             stored == {f \in s.stores : /\ f.range = range
                                         /\ f.kind.bits = p.kind.bits
                                         /\ f.kind.big = p.kind.big
                                         /\ f.value \in Imm}
  <2>1. t = LoadStep(s, p)
    BY <1>2, <1>4 DEF ForgetsMemory
  <2>2. ~ForgetsMemory(op)
    BY <1>4 DEF ForgetsMemory
  <2>3. CASE range = {}
    <3>1. t = [s EXCEPT !.ops = Append(@, p)]
      BY <2>1, <2>3 DEF LoadStep
    <3>2. KeptAs(s, t, p) /\ Keeping(s, t, op, p)
      BY <1>4, <2>2, <3>1 DEF KeptAs, Keeping, IsElim
    <3> QED
      BY <3>2 DEF p, t
  <2>4. CASE range # {} /\ loaded # {}
    <3> DEFINE f == CHOOSE g \in loaded : TRUE
    <3>1. f \in loaded
      BY <2>4
    <3>2. t = [s EXCEPT !.subst = Insert(@, p.dst, f.value)]
      BY <2>1, <2>4 DEF LoadStep
    <3>3. f \in s.loads /\ f.kind = op.kind /\ f.range = range
      BY <1>1, <3>1
    <3> HIDE DEF f
    <3>4. Replacing(s, t, op, p, f.value)
      BY <1>4, <2>4, <3>2, <3>3 DEF Replacing, IsElim
    <3> QED
      BY <3>4 DEF p, t
  <2>5. CASE range # {} /\ loaded = {} /\ stored # {}
    <3> DEFINE f == CHOOSE g \in stored : TRUE
               x == Forwarded(f.value, p.kind)
    <3>1. f \in stored
      BY <2>5
    <3>2. t = [[s EXCEPT !.subst = Insert(@, p.dst, x)] EXCEPT !.loads = @ \cup {Fact(p, x)}]
      BY <2>1, <2>5 DEF LoadStep
    <3>3. /\ f \in s.stores /\ f.range = range /\ f.kind.bits = op.kind.bits
          /\ f.kind.big = op.kind.big /\ f.value \in Imm /\ x = Forwarded(f.value, op.kind)
      BY <1>1, <3>1
    <3> HIDE DEF f, x
    <3>4. /\ IsElim(t) /\ t.ops = s.ops /\ t.subst = Insert(s.subst, p.dst, x)
          /\ t.stores = s.stores /\ t.loads = s.loads \cup {Fact(p, x)}
      BY <3>2 DEF IsElim
    <3>5. Replacing(s, t, op, p, x)
      BY <1>4, <2>5, <3>3, <3>4 DEF Replacing
    <3> QED
      BY <3>5 DEF p, t
  <2>6. CASE range # {} /\ loaded = {} /\ stored = {}
    <3>1. t = [s EXCEPT !.loads = Apart(@, range) \cup {Fact(p, p.dst)},
                        !.ops = Append(@, p)]
      BY <2>1, <2>6 DEF LoadStep
    <3>2. /\ IsElim(t) /\ t.ops = Append(s.ops, p) /\ t.subst = s.subst
          /\ t.loads = Apart(s.loads, range) \cup {Fact(p, p.dst)} /\ t.stores = s.stores
      BY <3>1 DEF IsElim
    <3>3. KeptAs(s, t, p) /\ Keeping(s, t, op, p)
      BY <1>4, <2>6, <3>2 DEF KeptAs, Keeping
    <3> QED
      BY <3>3 DEF p, t
  <2> QED
    BY <2>3, <2>4, <2>5, <2>6
<1>5. CASE op.kind.name \notin {"load", "store"}
  <2>1. CASE ForgetsMemory(op)
    <3>1. t = Forget(s, p)
      BY <1>2, <1>5, <2>1
    <3>2. KeptAs(s, t, p) /\ Keeping(s, t, op, p)
      BY <3>1 DEF Forget, IsElim, KeptAs, Keeping
    <3> QED
      BY <3>2 DEF p, t
  <2>2. CASE ~ForgetsMemory(op)
    <3>1. t = [s EXCEPT !.ops = Append(@, p)]
      BY <1>2, <1>5, <2>2
    <3>2. KeptAs(s, t, p) /\ Keeping(s, t, op, p)
      BY <1>5, <2>2, <3>1 DEF IsElim, KeptAs, Keeping
    <3> QED
      BY <3>2 DEF p, t
  <2> QED
    BY <2>1, <2>2
<1> QED
  BY <1>3, <1>4, <1>5

-----------------------------------------------------------------------------
(* What the pass has at hand behind n ops of b.                            *)

(* A literal, or a register that one of them defines.                      *)
Ready(b, n, x) == x \in Imm \/ (x \in VReg /\ \E j \in 1..n : b[j].dst = x)

ElimFacts(b, n, s) ==
  /\ IsElim(s)
  /\ IsSeq(s.ops)
  /\ \A j \in 1..Len(s.ops) :
       /\ IsOp(s.ops[j]) /\ s.ops[j].dst \notin DOMAIN s.subst
       /\ s.ops[j].dst # NoReg => Ready(b, n, s.ops[j].dst)
  /\ \A v \in DOMAIN s.subst : v \in VReg /\ Ready(b, n, v) /\ Ready(b, n, s.subst[v])
  /\ \A f \in s.loads : f.kind \in designKind /\ f.kind.name = "load" /\ Ready(b, n, f.value)
  /\ \A f \in s.stores : f.kind \in designKind /\ f.kind.name = "store"

LEMMA AccessKind ==
  ASSUME NEW kind \in designKind, kind.name \in {"load", "store"}
  PROVE  kind.bits \in designWidth
BY DEF designKind, aluNames

LEMMA ForwardedIsWord ==
  ASSUME NEW kind \in designKind, kind.name = "load", NEW x \in Word
  PROVE  Forwarded(x, kind) \in Word
<1> DEFINE bits == kind.bits
           t == Trunc(x, bits)
<1>1. bits \in designWidth /\ bits \in 1..WideBits /\ bits \in 0..WideBits /\ x \in Int
  BY AccessKind, WidthFacts, BitsAssumption, Power DEF Word
<1> HIDE DEF bits
<1>2. t \in 0..(2 ^ bits - 1)
  BY <1>1, TruncFacts
<1> HIDE DEF t
<1>3. t \in Word
  BY <1>1, <1>2, NarrowIsWord
<1>4. Trunc(Signed(t, bits), WideBits) \in Word
  BY <1>1, <1>2, SignExtended
<1> QED
  BY <1>3, <1>4 DEF Forwarded, sign_extend_width, mask_to_width, t, bits

(* A register that is ready is not defined again.                          *)
LEMMA ReadyApart ==
  ASSUME NEW b, SingleAssignment(b), Len(b) \in Nat, NEW n \in 1..Len(b), NEW x, Ready(b, n - 1, x)
  PROVE  Ready(b, n, x) /\ (x \in Imm \/ x # b[n].dst) /\ (b[n].dst \in VReg => x # b[n].dst)
<1>1. CASE x \in Imm
  BY <1>1, ImmAssumption DEF Ready
<1>2. CASE x \notin Imm
  <2>1. PICK j \in 1..(n - 1) : b[j].dst = x /\ x \in VReg
    BY <1>2 DEF Ready
  <2>2. j \in 1..n
    OBVIOUS
  <2>3. b[n].dst # x
    BY <2>1, NoRegAssumption DEF SingleAssignment
  <2> QED
    BY <2>1, <2>2, <2>3 DEF Ready
<1> QED
  BY <1>1, <1>2

LEMMA ReadyKeeps ==
  ASSUME NEW b, SingleAssignment(b), Kind = designKind, Len(b) \in Nat, NEW n \in 1..Len(b),
         NEW x, Ready(b, n - 1, x), NEW m, IsState(m)
  PROVE  ValueOf(x, Ran(m, b[n]).env) = ValueOf(x, m.env)
<1> DEFINE op == b[n]
<1>1. op.dst \in VReg \cup {NoReg}
  BY OpOf
<1>2. x \in Imm \/ x # op.dst
  BY ReadyApart
<1> HIDE DEF op
<1>3. CASE x \in Imm
  BY <1>3 DEF ValueOf
<1>4. CASE x # op.dst
  <2>1. \A v : v # op.dst => ValueOf(v, DesignExec(op, m).env) = ValueOf(v, m.env)
    BY ONLY <1>1, IsState(m), ExecFacts
  <2> QED
    BY <1>4, <2>1 DEF Ran, op
<1> QED
  BY <1>2, <1>3, <1>4

LEMMA ElimStepKeeps ==
  ASSUME NEW b, SingleAssignment(b), Kind = designKind, Imm = Word, Len(b) \in Nat,
         NEW n \in 1..Len(b), NEW s, ElimFacts(b, n - 1, s)
  PROVE  ElimFacts(b, n, EliminateStep(s, b[n]))
<1> DEFINE op == b[n]
           p == Replaced(op, s.subst)
           t == EliminateStep(s, op)
<1>1. /\ IsOp(op) /\ op.dst \in VReg \cup {NoReg} /\ op.kind \in designKind
      /\ op.kind.name = "load" => op.dst # NoReg
  BY OpOf DEF SingleAssignment
<1>2. IsOp(p) /\ p.kind = op.kind /\ p.dst = op.dst
  BY <1>1, ReplacedFacts
<1>3. op.dst # NoReg => Ready(b, n, op.dst)
  <2>1. n \in 1..n
    OBVIOUS
  <2> QED
    BY <1>1, <2>1 DEF Ready
<1>4. \A x : Ready(b, n - 1, x) => Ready(b, n, x) /\ (op.dst \in VReg => x # op.dst)
  BY ReadyApart
<1>5. \/ KeptAs(s, t, p) /\ Keeping(s, t, op, p)
      \/ \E x : Replacing(s, t, op, p, x)
  <2>1. IsElim(s)
    BY DEF ElimFacts
  <2> HIDE DEF op
  <2> QED
    BY <1>1, <2>1, EliminateCases
<1> HIDE DEF op, p, t
<1>6. /\ \A f \in s.loads : f.kind \in designKind /\ f.kind.name = "load" /\ Ready(b, n, f.value)
      /\ \A f \in s.stores : f.kind \in designKind /\ f.kind.name = "store"
  BY <1>4 DEF ElimFacts
<1>7. \A x : /\ Fact(p, x).kind = op.kind /\ Fact(p, x).value = x
             /\ Fact(p, x).range = RangeOf(p)
  BY <1>2 DEF Fact
<1>8. CASE KeptAs(s, t, p) /\ Keeping(s, t, op, p)
  <2>1. /\ IsSeq(s.ops) /\ IsSeq(t.ops) /\ Len(s.ops) \in Nat /\ Len(t.ops) = Len(s.ops) + 1
        /\ \A j \in 1..Len(s.ops) : t.ops[j] = s.ops[j]
        /\ t.ops[Len(s.ops) + 1] = p
    BY <1>8, AppendIsSeq DEF KeptAs, ElimFacts
  <2>2. p.dst \notin DOMAIN s.subst
    <3> SUFFICES ASSUME p.dst \in DOMAIN s.subst PROVE FALSE
      OBVIOUS
    <3>1. p.dst \in VReg /\ Ready(b, n - 1, p.dst)
      BY DEF ElimFacts
    <3> QED
      BY <1>2, <1>4, <3>1
  <2>3. ASSUME NEW j \in 1..Len(t.ops)
        PROVE  /\ IsOp(t.ops[j]) /\ t.ops[j].dst \notin DOMAIN t.subst
               /\ t.ops[j].dst # NoReg => Ready(b, n, t.ops[j].dst)
    <3>0. t.subst = s.subst
      BY <1>8 DEF KeptAs
    <3>1. CASE j = Len(s.ops) + 1
      <4>1. t.ops[j] = p
        BY <2>1, <3>1
      <4> QED
        BY <1>2, <1>3, <2>2, <3>0, <4>1
    <3>2. CASE j # Len(s.ops) + 1
      <4>1. j \in 1..Len(s.ops)
        BY <2>1, <3>2
      <4>2. t.ops[j] = s.ops[j]
        BY <2>1, <4>1
      <4> QED
        BY <1>4, <3>0, <4>1, <4>2 DEF ElimFacts
    <3> QED
      BY <3>1, <3>2
  <2>4. \A v \in DOMAIN t.subst : v \in VReg /\ Ready(b, n, v) /\ Ready(b, n, t.subst[v])
    BY <1>4, <1>8 DEF KeptAs, ElimFacts
  <2>5. \A f \in t.loads : f.kind \in designKind /\ f.kind.name = "load" /\ Ready(b, n, f.value)
    BY <1>1, <1>2, <1>3, <1>6, <1>7, <1>8 DEF Keeping, Apart
  <2>6. \A f \in t.stores : f.kind \in designKind /\ f.kind.name = "store"
    BY <1>1, <1>6, <1>7, <1>8 DEF Keeping, Apart
  <2>7. IsElim(t)
    BY <1>8 DEF KeptAs
  <2>8. ElimFacts(b, n, t)
    BY <2>1, <2>3, <2>4, <2>5, <2>6, <2>7 DEF ElimFacts
  <2> QED
    BY <2>8 DEF op, t
<1>9. ASSUME NEW x, Replacing(s, t, op, p, x)
      PROVE  ElimFacts(b, n, t)
  <2>1. /\ IsElim(t) /\ t.ops = s.ops /\ t.subst = Insert(s.subst, op.dst, x)
        /\ t.stores = s.stores /\ op.kind.name = "load"
    BY <1>2, <1>9 DEF Replacing
  <2>2. op.dst \in VReg /\ Ready(b, n, op.dst)
    BY <1>1, <1>3, <2>1
  <2>3. Ready(b, n, x) /\ (t.loads = s.loads \/ t.loads = s.loads \cup {Fact(p, x)})
    <3>1. CASE t.loads = s.loads /\ \E f \in s.loads : f.value = x
      BY <1>6, <3>1
    <3>2. CASE /\ t.loads = s.loads \cup {Fact(p, x)}
               /\ \E f \in s.stores : f.value \in Imm /\ x = Forwarded(f.value, op.kind)
      <4>1. x \in Word
        BY <1>1, <2>1, <3>2, ForwardedIsWord
      <4> QED
        BY <3>2, <4>1 DEF Ready
    <3> QED
      BY <1>9, <3>1, <3>2 DEF Replacing
  <2>4. /\ DOMAIN t.subst = DOMAIN s.subst \cup {op.dst}
        /\ t.subst[op.dst] = x
        /\ \A v \in DOMAIN s.subst : v # op.dst => t.subst[v] = s.subst[v]
    BY <2>1 DEF Insert
  <2>5. \A v \in DOMAIN t.subst : v \in VReg /\ Ready(b, n, v) /\ Ready(b, n, t.subst[v])
    <3> SUFFICES ASSUME NEW v \in DOMAIN t.subst
                 PROVE  v \in VReg /\ Ready(b, n, v) /\ Ready(b, n, t.subst[v])
      OBVIOUS
    <3>1. CASE v = op.dst
      BY <2>2, <2>3, <2>4, <3>1
    <3>2. CASE v # op.dst
      <4>1. v \in DOMAIN s.subst /\ t.subst[v] = s.subst[v]
        BY <2>4, <3>2
      <4> QED
        BY <1>4, <4>1 DEF ElimFacts
    <3> QED
      BY <3>1, <3>2
  <2>6. ASSUME NEW j \in 1..Len(s.ops)
        PROVE  /\ IsOp(s.ops[j]) /\ s.ops[j].dst \notin DOMAIN t.subst
               /\ s.ops[j].dst # NoReg => Ready(b, n, s.ops[j].dst)
    <3>1. /\ IsOp(s.ops[j]) /\ s.ops[j].dst \notin DOMAIN s.subst
          /\ s.ops[j].dst # NoReg => Ready(b, n - 1, s.ops[j].dst)
      BY DEF ElimFacts
    <3>2. s.ops[j].dst # op.dst
      BY <1>4, <2>2, <3>1, NoRegAssumption
    <3> QED
      BY <1>4, <2>4, <3>1, <3>2
  <2>7. \A f \in t.loads : f.kind \in designKind /\ f.kind.name = "load" /\ Ready(b, n, f.value)
    BY <1>1, <1>6, <1>7, <2>1, <2>3
  <2> QED
    BY <1>6, <2>1, <2>5, <2>6, <2>7 DEF ElimFacts
<1> QED
  BY <1>5, <1>8, <1>9 DEF op, t

-----------------------------------------------------------------------------
(* The block itself in m, and in o the ops of the pass so far; f is what   *)
(* it leaves in the end.                                                   *)
ElimMet(f, s, m, o) ==
  /\ Alike(f, Len(s.ops), DOMAIN s.subst, m, o)
  /\ ~m.left =>
       /\ SubstHolds(s.subst, m)
       /\ \A l \in s.loads : LoadHolds(l, m)
       /\ \A w \in s.stores : StoreHolds(w, m)

(* A load that stays inside the memory.                                    *)
LEMMA OnlyLoad ==
  ASSUME NEW op, op.kind.name = "load", op.dst \in VReg, NEW m, IsState(m), ~m.left,
         InMemory(Values(op, m)[1], BytesOf(op.kind.bits))
  PROVE  /\ IsState(Ran(m, op)) /\ Outcome(Ran(m, op)) = Outcome(m) /\ SameFlags(Ran(m, op), m)
         /\ \A v : v # op.dst => ValueOf(v, Ran(m, op).env) = ValueOf(v, m.env)
         /\ ValueOf(op.dst, Ran(m, op).env)
              = Forwarded(LoadBytes(m.mem, Values(op, m)[1], BytesOf(op.kind.bits), op.kind.big),
                          op.kind)
<1> DEFINE q == DesignExec(op, m)
           xs == Values(op, m)
           e == Effect(op.kind, xs, m)
           r == Result(op.kind, xs, m)
<1>1. e = m
  <2> HIDE DEF xs
  <2> QED
    BY DEF Effect, BytesOf, xs
<1>2. op.dst # NoReg
  BY NoRegAssumption
<1>3. /\ IsState(q) /\ Outcome(q) = Outcome(e) /\ SameFlags(q, e)
      /\ \A v : v # op.dst => ValueOf(v, q.env) = ValueOf(v, m.env)
      /\ op.dst # NoReg /\ ~q.left => ValueOf(op.dst, q.env) = r
  BY ExecFacts
<1>4. Ran(m, op) = q
  BY DEF Ran
<1>5. r = Forwarded(LoadBytes(m.mem, xs[1], BytesOf(op.kind.bits), op.kind.big), op.kind)
  <2> HIDE DEF xs
  <2> QED
    BY DEF Result, BytesOf, aluNames
<1> HIDE DEF q, e, r
<1>6. ~q.left
  BY <1>1, <1>3 DEF Outcome
<1> QED
  BY <1>1, <1>2, <1>3, <1>4, <1>5, <1>6

(* Operands have the value that the pass knows of them.                    *)
LEMMA ReplacedValues ==
  ASSUME NEW op, IsOp(op), Kind = designKind, NEW subst, NEW m, SubstHolds(subst, m)
  PROVE  \A j \in DOMAIN op.args :
           /\ ValueOf(Replaced(op, subst).args[j], m.env) = ValueOf(op.args[j], m.env)
           /\ Replaced(op, subst).args[j] \in Imm =>
                Values(op, m)[j] = Replaced(op, subst).args[j]
<1> SUFFICES ASSUME NEW j \in DOMAIN op.args
             PROVE  /\ ValueOf(Replaced(op, subst).args[j], m.env) = ValueOf(op.args[j], m.env)
                    /\ Replaced(op, subst).args[j] \in Imm =>
                         Values(op, m)[j] = Replaced(op, subst).args[j]
  OBVIOUS
<1> DEFINE x == Replaced(op, subst).args[j]
<1>1. x = resolve_substitution(op.args[j], subst)
  BY ReplacedFacts
<1>2. ValueOf(x, m.env) = ValueOf(op.args[j], m.env)
  BY <1>1, ResolvedFacts
<1> HIDE DEF x
<1>3. x \in Imm => Values(op, m)[j] = x
  BY <1>2 DEF Values, ValueOf
<1> QED
  BY <1>2, <1>3 DEF x

(* The address of an access to known bytes.                                *)
LEMMA KnownAddress ==
  ASSUME NEW op, IsOp(op), Kind = designKind, Imm = Word, ByteBits \in 1..WideBits,
         op.kind.name \in {"load", "store"}, 1 \in DOMAIN op.args,
         NEW subst, NEW m, SubstHolds(subst, m), RangeOf(Replaced(op, subst)) # {}
  PROVE  LET a == Replaced(op, subst).args[1]
             bytes == BytesOf(op.kind.bits)
         IN  /\ a \in Word /\ Values(op, m)[1] = a
             /\ InMemory(a, bytes)
             /\ RangeOf(Replaced(op, subst)) = MemRange(a, op.kind.bits)
             /\ RangeOf(Replaced(op, subst)) = a..(a + bytes - 1)
             /\ RangeOf(Replaced(op, subst)) \subseteq Word
             /\ \A c \in Word : MemRange(c, op.kind.bits) = RangeOf(Replaced(op, subst)) => c = a
<1> DEFINE p == Replaced(op, subst)
           a == p.args[1]
           bits == op.kind.bits
<1>1. p.kind = op.kind
  BY ReplacedFacts
<1>2. a \in Imm /\ RangeOf(p) = MemRange(a, bits)
  <2> HIDE DEF p
  <2> QED
    BY <1>1 DEF RangeOf, p
<1>3. Values(op, m)[1] = a
  BY <1>2, ReplacedValues
<1>4. bits \in designWidth
  BY OpFacts, AccessKind
<1>5. a \in Word /\ MemRange(a, bits) # {}
  BY <1>2
<1> HIDE DEF p, a, bits
<1>6. /\ MemRange(a, bits) = a..(a + BytesOf(bits) - 1)
      /\ MemRange(a, bits) \subseteq Word
      /\ InMemory(a, BytesOf(bits))
      /\ \A c \in Word : MemRange(c, bits) = MemRange(a, bits) => c = a
  BY <1>4, <1>5, RangeFacts
<1> QED
  BY <1>2, <1>3, <1>5, <1>6 DEF p, a, bits

(* A load that is replaced loads what replaces it.                         *)
LEMMA ReplaceMeets ==
  ASSUME NEW b, SingleAssignment(b), Kind = designKind, Imm = Word, ByteBits \in 1..WideBits,
         Len(b) \in Nat, NEW n \in 1..Len(b), NEW s, ElimFacts(b, n - 1, s),
         NEW x, NEW t, Replacing(s, t, b[n], Replaced(b[n], s.subst), x),
         NEW f, NEW m, NEW o, ElimMet(f, s, m, o)
  PROVE  ElimMet(f, t, Ran(m, b[n]), o)
<1> DEFINE op == b[n]
           p == Replaced(op, s.subst)
           q == Ran(m, op)
           kind == op.kind
           bytes == BytesOf(kind.bits)
           a == p.args[1]
           range == RangeOf(p)
<1>1. /\ t.ops = s.ops /\ t.subst = Insert(s.subst, p.dst, x) /\ t.stores = s.stores
      /\ kind.name = "load" /\ range # {}
      /\ \/ /\ t.loads = s.loads
            /\ \E l \in s.loads : l.kind = kind /\ l.range = range /\ l.value = x
         \/ /\ t.loads = s.loads \cup {Fact(p, x)}
            /\ \E w \in s.stores : /\ w.range = range /\ w.kind.bits = kind.bits
                                   /\ w.kind.big = kind.big
                                   /\ w.value \in Imm /\ x = Forwarded(w.value, kind)
  BY DEF Replacing
<1>2. /\ IsOp(op) /\ kind \in designKind /\ kind.bits \in designWidth
      /\ op.dst \in VReg /\ 1 \in DOMAIN op.args
  <2>1. /\ IsOp(op) /\ kind \in designKind /\ op.dst \in VReg \cup {NoReg}
        /\ DOMAIN op.args = 1..Len(op.args)
    BY OpOf
  <2>2. op.dst # NoReg /\ Len(op.args) = 1
    BY <1>1 DEF SingleAssignment
  <2> QED
    BY <1>1, <2>1, <2>2, AccessKind
<1>3. p.kind = kind /\ p.dst = op.dst
  BY <1>2, ReplacedFacts
<1>4. IsState(m) /\ IsState(o) /\ Outcome(m) = Outcome(o) /\ m.left = o.left
  BY DEF ElimMet, Alike, Outcome
<1>5. /\ DOMAIN t.subst = DOMAIN s.subst \cup {op.dst}
      /\ t.subst[op.dst] = x
      /\ \A v \in DOMAIN s.subst : v # op.dst => t.subst[v] = s.subst[v]
  <2> HIDE DEF p, op, range
  <2> QED
    BY <1>1, <1>3 DEF Insert
<1>6. CASE m.left
  <2>1. q = m
    BY <1>6 DEF Ran
  <2>2. ElimMet(f, t, m, o)
    BY <1>1, <1>4, <1>6 DEF ElimMet, Alike
  <2> QED
    BY <2>1, <2>2
<1>7. CASE ~m.left
  <2>1. /\ SubstHolds(s.subst, m) /\ Alike(f, Len(s.ops), DOMAIN s.subst, m, o)
        /\ \A l \in s.loads : LoadHolds(l, m)
        /\ \A w \in s.stores : StoreHolds(w, m)
    BY <1>7 DEF ElimMet
  <2>2. /\ a \in Word /\ Values(op, m)[1] = a /\ InMemory(a, bytes)
        /\ range = MemRange(a, kind.bits)
        /\ \A c \in Word : MemRange(c, kind.bits) = range => c = a
    <3> DEFINE u == s.subst
    <3>1. SubstHolds(u, m) /\ RangeOf(Replaced(op, u)) # {}
      BY <1>1, <2>1
    <3> HIDE DEF u, op
    <3>2. LET c == Replaced(op, u).args[1]
          IN  /\ c \in Word /\ Values(op, m)[1] = c
              /\ InMemory(c, BytesOf(op.kind.bits))
              /\ RangeOf(Replaced(op, u)) = MemRange(c, op.kind.bits)
              /\ \A d \in Word : MemRange(d, op.kind.bits) = RangeOf(Replaced(op, u)) => d = c
      BY <1>1, <1>2, <3>1, KnownAddress
    <3> QED
      BY <3>2 DEF u, op
  <2> DEFINE got == LoadBytes(m.mem, a, bytes, kind.big)
  <2>3. /\ IsState(q) /\ Outcome(q) = Outcome(m) /\ SameFlags(q, m)
        /\ \A v : v # op.dst => ValueOf(v, q.env) = ValueOf(v, m.env)
        /\ ValueOf(op.dst, q.env) = Forwarded(got, kind)
    <3>1. op.dst \in VReg /\ op.kind.name = "load" /\ Values(op, m)[1] = a
          /\ InMemory(Values(op, m)[1], BytesOf(op.kind.bits))
      BY <1>1, <1>2, <2>2
    <3> HIDE DEF op, a
    <3>2. /\ IsState(Ran(m, op)) /\ Outcome(Ran(m, op)) = Outcome(m) /\ SameFlags(Ran(m, op), m)
          /\ \A v : v # op.dst => ValueOf(v, Ran(m, op).env) = ValueOf(v, m.env)
          /\ ValueOf(op.dst, Ran(m, op).env)
               = Forwarded(LoadBytes(m.mem, Values(op, m)[1], BytesOf(op.kind.bits), op.kind.big),
                           op.kind)
      BY <1>4, <1>7, <3>1, OnlyLoad
    <3> QED
      BY <3>1, <3>2
  <2> HIDE DEF q, op, p, kind, bytes, a, range, got
  <2>4. q.mem = m.mem /\ q.left = m.left
    BY <2>3 DEF Outcome
  <2>5. ValueOf(x, m.env) = Forwarded(got, kind) /\ Ready(b, n - 1, x)
    <3>1. ASSUME NEW l \in s.loads, l.kind = kind, l.range = range, l.value = x
          PROVE  ValueOf(x, m.env) = Forwarded(got, kind) /\ Ready(b, n - 1, x)
      <4>1. LoadHolds(l, m) /\ Ready(b, n - 1, x)
        BY <2>1, <3>1 DEF ElimFacts
      <4>2. ValueOf(l.value, m.env)
              = Forwarded(LoadBytes(m.mem, a, BytesOf(l.kind.bits), l.kind.big), l.kind)
        BY <1>1, <2>2, <3>1, <4>1 DEF LoadHolds
      <4> QED
        BY <3>1, <4>1, <4>2 DEF got, bytes
    <3>2. ASSUME NEW w \in s.stores, w.range = range, w.kind.bits = kind.bits,
                 w.kind.big = kind.big, w.value \in Imm, x = Forwarded(w.value, kind)
          PROVE  ValueOf(x, m.env) = Forwarded(got, kind) /\ Ready(b, n - 1, x)
      <4>1. StoreHolds(w, m)
        BY <2>1
      <4>2. LoadBytes(m.mem, a, BytesOf(w.kind.bits), w.kind.big) = Trunc(w.value, w.kind.bits)
        BY <1>1, <2>2, <3>2, <4>1 DEF StoreHolds
      <4>3. got = Trunc(w.value, kind.bits)
        BY <3>2, <4>2 DEF got, bytes
      <4>4. Trunc(Trunc(w.value, kind.bits), kind.bits) = Trunc(w.value, kind.bits)
        <5>1. kind.bits \in 0..WideBits /\ w.value \in Int
          <6>1. kind.bits \in 1..WideBits
            BY <1>2, WidthFacts
          <6>2. w.value \in Word
            BY <3>2
          <6> QED
            BY <6>1, <6>2, Power, BitsAssumption DEF Word
        <5>2. Trunc(w.value, kind.bits) \in 0..(2 ^ kind.bits - 1)
          BY <5>1, TruncFacts
        <5>3. Trunc(w.value, kind.bits) \in Int
          BY <5>1, <5>2, Power
        <5> QED
          BY <5>1, <5>2, <5>3, TruncFacts
      <4>5. x = Forwarded(got, kind)
        BY <3>2, <4>3, <4>4 DEF Forwarded, sign_extend_width, mask_to_width
      <4>6. x \in Imm
        BY <1>1, <1>2, <3>2, ForwardedIsWord
      <4> QED
        BY <4>5, <4>6 DEF ValueOf, Ready
    <3> QED
      BY <1>1, <3>1, <3>2
  <2>6. \A y : Ready(b, n - 1, y) => ValueOf(y, q.env) = ValueOf(y, m.env)
    <3> SUFFICES ASSUME NEW y, Ready(b, n - 1, y) PROVE ValueOf(y, q.env) = ValueOf(y, m.env)
      OBVIOUS
    <3>1. y # op.dst
      BY <1>2, ReadyApart DEF op
    <3> QED
      BY <2>3, <3>1
  <2>7. SubstHolds(t.subst, q)
    <3> SUFFICES ASSUME NEW v \in DOMAIN t.subst
                 PROVE  ValueOf(v, q.env) = ValueOf(t.subst[v], q.env)
      BY DEF SubstHolds
    <3>1. CASE v = op.dst
      BY <1>5, <2>3, <2>5, <2>6, <3>1
    <3>2. CASE v # op.dst
      <4>1. v \in DOMAIN s.subst /\ t.subst[v] = s.subst[v]
        BY <1>5, <3>2
      <4>2. Ready(b, n - 1, v) /\ Ready(b, n - 1, s.subst[v])
        BY <4>1 DEF ElimFacts
      <4> QED
        BY <2>1, <2>6, <4>1, <4>2 DEF SubstHolds
    <3> QED
      BY <3>1, <3>2
  <2>8. \A l \in s.loads : LoadHolds(l, q)
    <3> SUFFICES ASSUME NEW l \in s.loads PROVE LoadHolds(l, q)
      OBVIOUS
    <3>1. l.kind \in designKind /\ l.kind.name = "load" /\ Ready(b, n - 1, l.value)
      BY DEF ElimFacts
    <3>2. l.kind.bits \in designWidth
      BY <3>1, AccessKind
    <3>3. ValueOf(l.value, q.env) = ValueOf(l.value, m.env) /\ \A c \in l.range : q.mem[c] = m.mem[c]
      BY <2>4, <2>6, <3>1
    <3> QED
      BY <2>1, <3>2, <3>3, LoadStillHolds
  <2>9. \A w \in s.stores : StoreHolds(w, q)
    BY <2>1, <2>4 DEF StoreHolds
  <2>10. \A l \in t.loads : LoadHolds(l, q)
    <3>1. LoadHolds(Fact(p, x), q)
      <4> DEFINE l == Fact(p, x)
      <4>1. l.kind = kind /\ l.range = range /\ l.value = x
        BY <1>3 DEF Fact, range
      <4> HIDE DEF l
      <4> SUFFICES ASSUME NEW c \in Word, l.range # {}, l.range = MemRange(c, l.kind.bits)
                   PROVE  ValueOf(l.value, q.env)
                            = Forwarded(LoadBytes(q.mem, c, BytesOf(l.kind.bits), l.kind.big), l.kind)
        BY DEF LoadHolds, l
      <4>2. c = a
        BY <2>2, <4>1
      <4> QED
        BY <2>4, <2>5, <2>6, <4>1, <4>2 DEF got, bytes
    <3> QED
      BY <1>1, <2>8, <3>1
  <2>11. Alike(f, Len(t.ops), DOMAIN t.subst, q, o)
    BY <1>1, <1>4, <1>5, <2>1, <2>3, <2>4 DEF Alike, SameFlags
  <2>12. ElimMet(f, t, q, o)
    BY <1>1, <2>7, <2>9, <2>10, <2>11 DEF ElimMet
  <2> QED
    BY <2>12 DEF q, op
<1> QED
  BY <1>6, <1>7

(* The memory behind an op that is not a load.                             *)
LEMMA MemoryKept ==
  ASSUME NEW op, op.dst \in VReg \cup {NoReg}, NEW m, IsState(m),
         op.kind.name # "store", ~ForgetsMemory(op)
  PROVE  Ran(m, op).mem = m.mem
<1> DEFINE e == Effect(op.kind, Values(op, m), m)
           xs == Values(op, m)
<1>1. Outcome(DesignExec(op, m)) = Outcome(e)
  BY ExecFacts
<1>2. e.mem = m.mem
  <2>1. CASE op.kind.name = "setflags"
    BY <2>1 DEF Effect, IsState
  <2>2. CASE op.kind.name \in {"load", "store"} /\ ~InMemory(xs[1], op.kind.bits \div ByteBits)
    BY <2>2 DEF Effect, IsState
  <2>3. op.kind.name # "call"
    BY DEF ForgetsMemory
  <2>4. CASE /\ op.kind.name # "setflags"
             /\ ~(op.kind.name \in {"load", "store"}
                    /\ ~InMemory(xs[1], op.kind.bits \div ByteBits))
    BY <2>3, <2>4 DEF Effect, ForgetsMemory, IsState
  <2> QED
    BY <2>1, <2>2, <2>4
<1> QED
  BY <1>1, <1>2 DEF Ran, Outcome

LEMMA MemoryStored ==
  ASSUME NEW op, op.dst \in VReg \cup {NoReg}, NEW m, IsState(m), ~m.left,
         op.kind.name = "store", InMemory(Values(op, m)[1], BytesOf(op.kind.bits))
  PROVE  Ran(m, op).mem
           = StoreBytes(m.mem, Values(op, m)[1], BytesOf(op.kind.bits), op.kind.big,
                        Values(op, m)[2])
<1> DEFINE xs == Values(op, m)
           e == Effect(op.kind, xs, m)
           stored == StoreBytes(m.mem, xs[1], BytesOf(op.kind.bits), op.kind.big, xs[2])
<1>1. Outcome(DesignExec(op, m)) = Outcome(e)
  BY ExecFacts
<1>2. e = [m EXCEPT !.mem = stored]
  <2> HIDE DEF xs
  <2> QED
    BY DEF Effect, BytesOf, xs
<1>3. e.mem = stored
  <2> HIDE DEF stored
  <2> QED
    BY <1>2 DEF IsState
<1> QED
  BY <1>1, <1>3 DEF Ran, Outcome

-----------------------------------------------------------------------------
(* A kept op, in the block and in what the pass leaves.                    *)
LEMMA KeepAlike ==
  ASSUME NEW b, SingleAssignment(b), Kind = designKind, Len(b) \in Nat, NEW n \in 1..Len(b),
         NEW s, ElimFacts(b, n - 1, s),
         NEW f, Len(f) \in Nat, KeptUsesDefined(f), Begins(s.ops, f),
         Len(s.ops) + 1 \in 1..Len(f), f[Len(s.ops) + 1] = Replaced(b[n], s.subst),
         NEW m, NEW o, ElimMet(f, s, m, o)
  PROVE  Alike(f, Len(s.ops) + 1, DOMAIN s.subst, Ran(m, b[n]), Ran(o, f[Len(s.ops) + 1]))
<1> DEFINE op == b[n]
           i == Len(s.ops) + 1
           p == f[i]
           unknown == DOMAIN s.subst
           subst == s.subst
<1>1. /\ IsOp(op) /\ op.dst \in VReg \cup {NoReg} /\ op.kind \in designKind
      /\ DOMAIN op.args = 1..Len(op.args)
      /\ op.kind.name = "setflags" => op.dst = NoReg
  BY OpOf
<1>2. p = Replaced(op, subst)
  OBVIOUS
<1>3. Len(s.ops) \in Nat /\ i \in 1..Len(f) /\ i - 1 = Len(s.ops)
      /\ \A j \in 1..(i - 1) : f[j] = s.ops[j] /\ j \in 1..Len(s.ops)
  BY DEF Begins
<1>4. Alike(f, i - 1, unknown, m, o) /\ (~m.left => SubstHolds(subst, m))
  BY <1>3 DEF ElimMet
<1>5. /\ IsState(m) /\ IsState(o) /\ m.left = o.left /\ Outcome(m) = Outcome(o)
  BY <1>4 DEF Alike, Outcome
<1>6. \A j \in 1..(i - 1) : f[j].dst \notin unknown
  BY <1>3 DEF ElimFacts
<1>7. Keeps(f, i) => \A v \in Operands(p) : \E j \in 1..(i - 1) : f[j].dst = v
  BY <1>3 DEF KeptUsesDefined
<1> HIDE DEF op, i, p, unknown, subst
<1>8. /\ IsOp(p) /\ p.kind = op.kind /\ p.dst = op.dst /\ DOMAIN p.args = DOMAIN op.args
  BY <1>1, <1>2, ReplacedFacts
<1>9. \A j \in DOMAIN p.args : p.args[j] \in VReg \cup Imm
  BY <1>8, OpFacts
<1>10. CASE m.left
  <2>1. Ran(m, op) = m /\ Ran(o, p) = o
    BY <1>5, <1>10 DEF Ran
  <2>2. Alike(f, i, unknown, m, o)
    BY <1>4, <1>10 DEF Alike
  <2> QED
    BY <2>1, <2>2 DEF op, i, p, unknown
<1>11. CASE ~m.left /\ Keeps(f, i)
  <2>1. \A j \in DOMAIN op.args : ValueOf(p.args[j], m.env) = ValueOf(op.args[j], m.env)
    BY <1>1, <1>2, <1>4, <1>11, ReplacedValues
  <2>2. ASSUME NEW j \in DOMAIN op.args
        PROVE  ValueOf(op.args[j], m.env) = ValueOf(p.args[j], o.env)
    <3>1. CASE p.args[j] \in Imm
      BY <2>1, <3>1 DEF ValueOf
    <3>2. CASE p.args[j] \notin Imm
      <4>1. p.args[j] \in VReg /\ p.args[j] \in Operands(p)
        BY <1>8, <1>9, <3>2 DEF Operands
      <4>2. p.args[j] \notin unknown
        BY <1>6, <1>7, <1>11, <4>1
      <4> QED
        BY <1>4, <1>11, <2>1, <4>1, <4>2 DEF Alike
    <3> QED
      BY <3>1, <3>2
  <2>3. Values(op, m) = Values(p, o)
    BY <1>8, <2>2 DEF Values
  <2>4. Alike(f, i, unknown, Ran(m, op), Ran(o, f[i]))
    <3>1. op.kind = f[i].kind /\ op.dst = f[i].dst /\ Values(op, m) = Values(f[i], o)
      BY <1>8, <2>3 DEF p
    <3> QED
      BY <1>1, <1>3, <1>4, <3>1, AlikeKept
  <2> QED
    BY <2>4 DEF op, i, p, unknown
<1>12. CASE ~Keeps(f, i)
  <2>1. op.kind.name = "setflags" /\ ~Observed(f, i) /\ op.dst = NoReg
    BY <1>1, <1>8, <1>12 DEF Keeps, p
  <2>2. /\ IsState(Ran(m, op)) /\ Outcome(Ran(m, op)) = Outcome(m) /\ Ran(m, op).env = m.env
    BY <1>5, <2>1, OnlyFlags
  <2>3. /\ IsState(Ran(o, p)) /\ Outcome(Ran(o, p)) = Outcome(o) /\ Ran(o, p).env = o.env
    BY <1>5, <1>8, <2>1, OnlyFlags
  <2>4. Alike(f, i, unknown, Ran(m, op), Ran(o, p))
    BY <1>4, <2>1, <2>2, <2>3, AlikeUnread
  <2> QED
    BY <2>4 DEF op, i, p, unknown
<1> QED
  BY <1>10, <1>11, <1>12

(* What is known of memory behind a kept op.                               *)
LEMMA KeepKnown ==
  ASSUME NEW b, SingleAssignment(b), Kind = designKind, Imm = Word, ByteBits \in 1..WideBits,
         Len(b) \in Nat, NEW n \in 1..Len(b), NEW s, ElimFacts(b, n - 1, s),
         NEW t, KeptAs(s, t, Replaced(b[n], s.subst)),
         Keeping(s, t, b[n], Replaced(b[n], s.subst)),
         NEW m, IsState(m), ~m.left, ~Ran(m, b[n]).left,
         SubstHolds(s.subst, m), \A l \in s.loads : LoadHolds(l, m),
         \A w \in s.stores : StoreHolds(w, m)
  PROVE  /\ SubstHolds(t.subst, Ran(m, b[n]))
         /\ \A l \in t.loads : LoadHolds(l, Ran(m, b[n]))
         /\ \A w \in t.stores : StoreHolds(w, Ran(m, b[n]))
<1> DEFINE op == b[n]
           subst == s.subst
           p == Replaced(op, subst)
           q == Ran(m, op)
           kind == op.kind
           bytes == BytesOf(kind.bits)
           a == p.args[1]
           range == RangeOf(p)
<1>1. /\ IsOp(op) /\ op.dst \in VReg \cup {NoReg} /\ kind \in designKind
      /\ DOMAIN op.args = 1..Len(op.args)
      /\ kind.name = "load" => op.dst \in VReg /\ 1 \in DOMAIN op.args
      /\ kind.name = "store" => 1 \in DOMAIN op.args /\ 2 \in DOMAIN op.args
  <2>1. /\ IsOp(op) /\ op.dst \in VReg \cup {NoReg} /\ kind \in designKind
        /\ DOMAIN op.args = 1..Len(op.args)
    BY OpOf
  <2>2. /\ kind.name = "load" => op.dst # NoReg /\ Len(op.args) = 1
        /\ kind.name = "store" => Len(op.args) = 2
    BY DEF SingleAssignment
  <2> HIDE DEF op, kind
  <2>3. kind.name = "load" => op.dst \in VReg /\ 1 \in DOMAIN op.args
    <3> SUFFICES ASSUME kind.name = "load" PROVE op.dst \in VReg /\ 1 \in DOMAIN op.args
      OBVIOUS
    <3>1. DOMAIN op.args = 1..1
      BY <2>1, <2>2
    <3>2. 1 \in DOMAIN op.args
      BY ONLY <3>1
    <3>3. op.dst \in VReg
      BY <2>1, <2>2
    <3> QED
      BY <3>2, <3>3
  <2>4. kind.name = "store" => 1 \in DOMAIN op.args /\ 2 \in DOMAIN op.args
    <3> SUFFICES ASSUME kind.name = "store" PROVE 1 \in DOMAIN op.args /\ 2 \in DOMAIN op.args
      OBVIOUS
    <3>1. DOMAIN op.args = 1..2
      BY <2>1, <2>2
    <3> QED
      BY <3>1
  <2> QED
    BY <2>1, <2>3, <2>4
<1>2. p.kind = kind /\ p.dst = op.dst
  BY <1>1, ReplacedFacts
<1>3. KeptAs(s, t, p) /\ Keeping(s, t, op, p)
  OBVIOUS
<1>4. \A x : Ready(b, n - 1, x) => ValueOf(x, q.env) = ValueOf(x, m.env)
  BY ReadyKeeps
<1>5. kind.name \in {"load", "store"} => kind.bits \in designWidth
  BY <1>1, AccessKind
<1>6. kind.name \in {"load", "store"} /\ range # {} =>
        /\ a \in Word /\ Values(op, m)[1] = a /\ InMemory(a, bytes)
        /\ range = MemRange(a, kind.bits) /\ range = a..(a + bytes - 1) /\ range \subseteq Word
        /\ \A c \in Word : MemRange(c, kind.bits) = range => c = a
  <2> SUFFICES ASSUME kind.name \in {"load", "store"}, range # {}
               PROVE  /\ a \in Word /\ Values(op, m)[1] = a /\ InMemory(a, bytes)
                      /\ range = MemRange(a, kind.bits) /\ range = a..(a + bytes - 1)
                      /\ range \subseteq Word
                      /\ \A c \in Word : MemRange(c, kind.bits) = range => c = a
    OBVIOUS
  <2>1. SubstHolds(subst, m) /\ RangeOf(Replaced(op, subst)) # {} /\ 1 \in DOMAIN op.args
        /\ op.kind.name \in {"load", "store"}
    BY <1>1
  <2> HIDE DEF op, subst
  <2>2. LET c == Replaced(op, subst).args[1]
        IN  /\ c \in Word /\ Values(op, m)[1] = c
            /\ InMemory(c, BytesOf(op.kind.bits))
            /\ RangeOf(Replaced(op, subst)) = MemRange(c, op.kind.bits)
            /\ RangeOf(Replaced(op, subst)) = c..(c + BytesOf(op.kind.bits) - 1)
            /\ RangeOf(Replaced(op, subst)) \subseteq Word
            /\ \A d \in Word : MemRange(d, op.kind.bits) = RangeOf(Replaced(op, subst)) => d = c
    BY <1>1, <2>1, KnownAddress
  <2> QED
    BY <2>2
<1>7. kind.name = "store" => \A j \in {2} : p.args[j] \in Imm => Values(op, m)[j] = p.args[j]
  BY <1>1, ReplacedValues
<1>8. SubstHolds(t.subst, q)
  <2> SUFFICES ASSUME NEW v \in DOMAIN s.subst
               PROVE  ValueOf(v, q.env) = ValueOf(s.subst[v], q.env)
    BY <1>3 DEF SubstHolds, KeptAs
  <2>1. Ready(b, n - 1, v) /\ Ready(b, n - 1, s.subst[v])
    BY DEF ElimFacts
  <2> HIDE DEF q
  <2> QED
    BY <1>4, <2>1 DEF SubstHolds
<1>9. \A l \in s.loads : /\ l.kind.bits \in designWidth
                         /\ ValueOf(l.value, q.env) = ValueOf(l.value, m.env)
  <2> SUFFICES ASSUME NEW l \in s.loads
               PROVE  l.kind.bits \in designWidth
                      /\ ValueOf(l.value, q.env) = ValueOf(l.value, m.env)
    OBVIOUS
  <2>1. l.kind \in designKind /\ l.kind.name = "load" /\ Ready(b, n - 1, l.value)
    BY DEF ElimFacts
  <2> HIDE DEF q
  <2> QED
    BY <1>4, <2>1, AccessKind
<1>10. \A w \in s.stores : w.kind.bits \in designWidth
  BY AccessKind DEF ElimFacts
<1>11. ~q.left
  OBVIOUS
<1>12. \A x : /\ Fact(p, x).kind = kind /\ Fact(p, x).value = x /\ Fact(p, x).range = range
  BY <1>2 DEF Fact
<1>13. kind.name = "load" /\ range # {} =>
         /\ Outcome(q) = Outcome(m)
         /\ ValueOf(op.dst, q.env) = Forwarded(LoadBytes(m.mem, a, bytes, kind.big), kind)
  <2> SUFFICES ASSUME kind.name = "load", range # {}
               PROVE  /\ Outcome(q) = Outcome(m)
                      /\ ValueOf(op.dst, q.env)
                           = Forwarded(LoadBytes(m.mem, a, bytes, kind.big), kind)
    OBVIOUS
  <2>1. op.dst \in VReg /\ op.kind.name = "load" /\ Values(op, m)[1] = a
        /\ InMemory(Values(op, m)[1], BytesOf(op.kind.bits))
    BY <1>1, <1>6
  <2> HIDE DEF op, a
  <2>2. /\ Outcome(Ran(m, op)) = Outcome(m)
        /\ ValueOf(op.dst, Ran(m, op).env)
             = Forwarded(LoadBytes(m.mem, Values(op, m)[1], BytesOf(op.kind.bits), op.kind.big),
                         op.kind)
    BY <2>1, OnlyLoad
  <2> QED
    BY <2>1, <2>2
<1>14. kind.name = "store" /\ range # {} =>
         q.mem = StoreBytes(m.mem, a, bytes, kind.big, Values(op, m)[2])
  <2> SUFFICES ASSUME kind.name = "store", range # {}
               PROVE  q.mem = StoreBytes(m.mem, a, bytes, kind.big, Values(op, m)[2])
    OBVIOUS
  <2>1. op.kind.name = "store" /\ Values(op, m)[1] = a
        /\ InMemory(Values(op, m)[1], BytesOf(op.kind.bits))
    BY <1>6
  <2> HIDE DEF op, a
  <2>2. Ran(m, op).mem
          = StoreBytes(m.mem, Values(op, m)[1], BytesOf(op.kind.bits), op.kind.big,
                       Values(op, m)[2])
    BY <1>1, <2>1, MemoryStored
  <2> QED
    BY <2>1, <2>2
<1>15. kind.name # "store" /\ ~ForgetsMemory(op) => q.mem = m.mem
  BY <1>1, MemoryKept
<1> HIDE DEF op, subst, p, q, kind, bytes, a, range
<1>16. CASE t.loads = {} /\ t.stores = {}
  BY <1>8, <1>16 DEF q, op
<1>17. CASE /\ kind.name = "load" /\ range # {}
            /\ t.loads = Apart(s.loads, range) \cup {Fact(p, p.dst)} /\ t.stores = s.stores
  <2>1. q.mem = m.mem
    BY <1>13, <1>17 DEF Outcome
  <2>2. LoadHolds(Fact(p, p.dst), q)
    <3> DEFINE l == Fact(p, p.dst)
    <3>1. l.kind = kind /\ l.range = range /\ l.value = op.dst
      BY <1>2, <1>12
    <3> HIDE DEF l
    <3> SUFFICES ASSUME NEW c \in Word, l.range # {}, l.range = MemRange(c, l.kind.bits)
                 PROVE  ValueOf(l.value, q.env)
                          = Forwarded(LoadBytes(q.mem, c, BytesOf(l.kind.bits), l.kind.big), l.kind)
      BY DEF LoadHolds, l
    <3>2. c = a
      BY <1>6, <1>17, <3>1
    <3> QED
      BY <1>13, <1>17, <2>1, <3>1, <3>2 DEF bytes
  <2>3. \A l \in s.loads : LoadHolds(l, q)
    BY <1>9, <2>1, LoadStillHolds
  <2>4. \A w \in s.stores : StoreHolds(w, q)
    BY <2>1 DEF StoreHolds
  <2> QED
    BY <1>8, <1>17, <2>2, <2>3, <2>4 DEF Apart, q, op
<1>18. CASE /\ kind.name = "store" /\ range # {}
            /\ t.loads = Apart(s.loads, range)
            /\ t.stores = Apart(s.stores, range) \cup {Fact(p, p.args[2])}
  <2> DEFINE v == Values(op, m)[2]
  <2>1. /\ a \in Word /\ range = a..(a + bytes - 1) /\ range \subseteq Word
        /\ \A c \in Word : MemRange(c, kind.bits) = range => c = a
    BY <1>6, <1>18
  <2>2. q.mem = StoreBytes(m.mem, a, bytes, kind.big, v) /\ DOMAIN m.mem = Word
    BY <1>14, <1>18 DEF IsState
  <2> HIDE DEF v
  <2>3. \A c \in Word : c \notin range => q.mem[c] = m.mem[c]
    BY <2>1, <2>2 DEF StoreBytes
  <2>4. ASSUME NEW l \in Apart(s.loads, range)
        PROVE  LoadHolds(l, q)
    <3>1. l \in s.loads /\ l.range \cap range = {}
      BY DEF Apart
    <3>2. \A c \in l.range \cap Word : q.mem[c] = m.mem[c]
      BY <2>3, <3>1
    <3>3. /\ l.kind.bits \in designWidth /\ LoadHolds(l, m)
          /\ ValueOf(l.value, q.env) = ValueOf(l.value, m.env)
      BY <1>9, <3>1
    <3> QED
      BY <3>2, <3>3, LoadStillHolds
  <2>5. ASSUME NEW w \in Apart(s.stores, range)
        PROVE  StoreHolds(w, q)
    <3>1. w \in s.stores /\ w.range \cap range = {}
      BY DEF Apart
    <3>2. \A c \in w.range \cap Word : q.mem[c] = m.mem[c]
      BY <2>3, <3>1
    <3>3. w.kind.bits \in designWidth /\ StoreHolds(w, m)
      BY <1>10, <3>1
    <3> QED
      BY <3>2, <3>3, StoreStillHolds
  <2>6. StoreHolds(Fact(p, p.args[2]), q)
    <3> DEFINE w == Fact(p, p.args[2])
               x == p.args[2]
    <3>1. w.kind = kind /\ w.range = range /\ w.value = x
      BY <1>12
    <3> HIDE DEF w
    <3> SUFFICES ASSUME NEW c \in Word, w.value \in Imm, w.range # {},
                        w.range = MemRange(c, w.kind.bits)
                 PROVE  LoadBytes(q.mem, c, BytesOf(w.kind.bits), w.kind.big)
                          = Trunc(w.value, w.kind.bits)
      BY DEF StoreHolds, w
    <3>2. c = a
      BY <2>1, <3>1
    <3>3. v = x /\ x \in Word
      BY <1>7, <1>18, <3>1 DEF v
    <3> HIDE DEF x
    <3>4. LoadBytes(q.mem, a, bytes, kind.big) = Trunc(x, kind.bits)
      <4> DEFINE mem == m.mem
                 bits == kind.bits
                 big == kind.big
      <4>1. bits \in designWidth /\ a \in Nat /\ a..(a + BytesOf(bits) - 1) \subseteq DOMAIN mem
        <5>1. a \in Nat
          BY <2>1, Power, BitsAssumption DEF Word
        <5> QED
          BY <1>5, <1>18, <2>1, <2>2, <5>1 DEF bytes
      <4>2. q.mem = StoreBytes(mem, a, BytesOf(bits), big, x)
        BY <2>2, <3>3 DEF bytes
      <4> HIDE DEF mem, bits, big
      <4>3. LoadBytes(StoreBytes(mem, a, BytesOf(bits), big, x), a, BytesOf(bits), big)
              = Trunc(x, bits)
        BY <3>3, <4>1, LoadOfStore
      <4> QED
        BY <4>2, <4>3 DEF bytes, bits, big
    <3> QED
      BY <3>1, <3>2, <3>4 DEF bytes
  <2> QED
    BY <1>8, <1>18, <2>4, <2>5, <2>6 DEF q, op
<1>19. CASE /\ kind.name # "store" /\ ~ForgetsMemory(op)
            /\ t.loads = s.loads /\ t.stores = s.stores
  <2>1. q.mem = m.mem
    BY <1>15, <1>19
  <2>2. \A l \in s.loads : LoadHolds(l, q)
    BY <1>9, <2>1, LoadStillHolds
  <2>3. \A w \in s.stores : StoreHolds(w, q)
    BY <2>1 DEF StoreHolds
  <2> QED
    BY <1>8, <1>19, <2>2, <2>3 DEF q, op
<1> QED
  BY <1>3, <1>16, <1>17, <1>18, <1>19 DEF Keeping, kind, range

(* One op, in the block and in the pass.                                   *)
LEMMA ElimStepMeets ==
  ASSUME NEW b, SingleAssignment(b), Kind = designKind, Imm = Word, ByteBits \in 1..WideBits,
         Len(b) \in Nat, NEW n \in 1..Len(b), NEW s, ElimFacts(b, n - 1, s),
         NEW f, Len(f) \in Nat, KeptUsesDefined(f), Begins(EliminateStep(s, b[n]).ops, f),
         NEW first, NEW m, ElimMet(f, s, m, DesignRun(s.ops, first))
  PROVE  LET t == EliminateStep(s, b[n])
         IN  ElimMet(f, t, Ran(m, b[n]), DesignRun(t.ops, first))
<1> DEFINE op == b[n]
           subst == s.subst
           p == Replaced(op, subst)
           t == EliminateStep(s, op)
           q == Ran(m, op)
           o == DesignRun(s.ops, first)
           d == DesignRun(t.ops, first)
<1> SUFFICES ElimMet(f, t, q, d)
  OBVIOUS
<1>1. IsOp(op) /\ IsElim(s) /\ IsSeq(s.ops)
  BY OpOf DEF ElimFacts
<1>2. \/ KeptAs(s, t, p) /\ Keeping(s, t, op, p)
      \/ \E x : Replacing(s, t, op, p, x)
  <2> HIDE DEF op
  <2> QED
    BY <1>1, EliminateCases
<1>3. ASSUME NEW x, Replacing(s, t, op, p, x)
      PROVE  ElimMet(f, t, q, d)
  <2>1. d = o
    <3>1. t.ops = s.ops
      <4> HIDE DEF t, op, p
      <4> QED
        BY <1>3 DEF Replacing
    <3> QED
      BY <3>1
  <2>2. Replacing(s, t, b[n], Replaced(b[n], s.subst), x) /\ ElimMet(f, s, m, o)
    BY <1>3
  <2> HIDE DEF t, o, d
  <2>3. ElimMet(f, t, Ran(m, b[n]), o)
    BY <2>2, ReplaceMeets
  <2> QED
    BY <2>1, <2>3
<1>4. CASE KeptAs(s, t, p) /\ Keeping(s, t, op, p)
  <2>1. t.ops = Append(s.ops, p) /\ t.subst = subst
    <3> HIDE DEF t, op, p
    <3> QED
      BY <1>4 DEF KeptAs
  <2>2. d = Ran(o, p)
    <3> HIDE DEF t, p
    <3> QED
      BY <1>1, <2>1, RunAppend
  <2> DEFINE i == Len(s.ops) + 1
  <2>3. /\ Len(s.ops) \in Nat /\ Len(t.ops) = i /\ i \in 1..Len(f) /\ f[i] = p
        /\ Begins(s.ops, f)
    <3>1. /\ Len(s.ops) \in Nat /\ Len(t.ops) = i /\ t.ops[i] = p
          /\ \A j \in 1..Len(s.ops) : t.ops[j] = s.ops[j]
      <4> HIDE DEF t, p
      <4> QED
        BY <1>1, <2>1, AppendIsSeq
    <3>2. Begins(t.ops, f)
      OBVIOUS
    <3> HIDE DEF t, p
    <3>3. Len(f) \in Nat /\ i \in 1..Len(f) /\ \A j \in 1..i : f[j] = t.ops[j]
      BY <3>1, <3>2 DEF Begins
    <3>4. f[i] = p
      BY <3>1, <3>3
    <3>5. Len(s.ops) <= Len(f)
      BY <3>1, <3>3
    <3>6. \A j \in 1..Len(s.ops) : f[j] = s.ops[j]
      <4> SUFFICES ASSUME NEW j \in 1..Len(s.ops) PROVE f[j] = s.ops[j]
        OBVIOUS
      <4>1. j \in 1..i
        BY <3>1
      <4> QED
        BY <3>1, <3>3, <4>1
    <3>7. Begins(s.ops, f)
      BY <3>1, <3>3, <3>5, <3>6 DEF Begins
    <3> QED
      BY <3>1, <3>3, <3>4, <3>7
  <2>4. Alike(f, i, DOMAIN subst, q, Ran(o, f[i]))
    <3>1. ElimMet(f, s, m, o) /\ f[Len(s.ops) + 1] = Replaced(b[n], s.subst)
      BY <2>3
    <3> HIDE DEF o
    <3> QED
      BY <2>3, <3>1, KeepAlike
  <2>5. ASSUME ~q.left
        PROVE  /\ SubstHolds(t.subst, q)
               /\ \A l \in t.loads : LoadHolds(l, q)
               /\ \A w \in t.stores : StoreHolds(w, q)
    <3>1. ~m.left
      BY <2>5 DEF Ran
    <3>2. /\ IsState(m) /\ SubstHolds(s.subst, m) /\ \A l \in s.loads : LoadHolds(l, m)
          /\ \A w \in s.stores : StoreHolds(w, m)
      BY <3>1 DEF ElimMet, Alike
    <3>3. /\ KeptAs(s, t, Replaced(b[n], s.subst))
          /\ Keeping(s, t, b[n], Replaced(b[n], s.subst))
          /\ ~Ran(m, b[n]).left
      BY <1>4, <2>5
    <3> HIDE DEF t
    <3>4. /\ SubstHolds(t.subst, Ran(m, b[n]))
          /\ \A l \in t.loads : LoadHolds(l, Ran(m, b[n]))
          /\ \A w \in t.stores : StoreHolds(w, Ran(m, b[n]))
      BY <3>1, <3>2, <3>3, KeepKnown
    <3> QED
      BY <3>4
  <2> HIDE DEF t, q, d, p, i, o, subst
  <2> QED
    BY <2>1, <2>2, <2>3, <2>4, <2>5 DEF ElimMet
<1> QED
  BY <1>2, <1>3, <1>4

LEMMA EliminationFacts ==
  ASSUME NEW b, IsSeq(b), SingleAssignment(b), Kind = designKind, Imm = Word,
         NEW c, Eliminating(b, c)
  PROVE  \A n \in 0..Len(b) :
           /\ ElimFacts(b, n, c[n])
           /\ Begins(c[n].ops, c[Len(b)].ops)
<1>0. Len(b) \in Nat
  BY LenProperties DEF IsSeq
<1> DEFINE T == {n \in Nat : n <= Len(b) => ElimFacts(b, n, c[n])}
<1>1. 0 \in T
  <2>1. c[0] = [ops |-> <<>>, loads |-> {}, stores |-> {}, subst |-> <<>>]
    BY DEF Eliminating
  <2>2. IsSeq(<<>>) /\ Len(<<>>) = 0
    BY EmptySeq, SeqIsSeq
  <2>3. DOMAIN c[0].subst = {}
    BY <2>1
  <2> QED
    BY <2>1, <2>2, <2>3 DEF ElimFacts, IsElim
<1>2. ASSUME NEW n \in Nat, n \in T
      PROVE  n + 1 \in T
  <2> SUFFICES ASSUME n + 1 <= Len(b) PROVE ElimFacts(b, n + 1, c[n + 1])
    OBVIOUS
  <2> DEFINE i == n + 1
             s == c[n]
  <2>1. i \in 1..Len(b) /\ i - 1 = n /\ c[i] = EliminateStep(s, b[i]) /\ ElimFacts(b, i - 1, s)
    BY <1>0, <1>2 DEF Eliminating
  <2> HIDE DEF i, s
  <2>2. ElimFacts(b, i, EliminateStep(s, b[i]))
    BY <1>0, <2>1, ElimStepKeeps
  <2> QED
    BY <2>1, <2>2 DEF i
<1>3. \A n \in 0..Len(b) : ElimFacts(b, n, c[n])
  <2>1. Nat \subseteq T
    <3> HIDE DEF T
    <3> QED
      BY <1>1, <1>2, SetInduction
  <2> QED
    BY <1>0, <2>1
<1>4. \A n \in 0..Len(b) : Begins(c[n].ops, c[Len(b)].ops)
  <2> DEFINE N == Len(b)
             h == [j \in 0..N |-> c[j].ops]
  <2>1. N \in Nat /\ \A j \in 0..N : IsSeq(h[j])
    BY <1>0, <1>3 DEF ElimFacts
  <2>2. ASSUME NEW j \in 1..N
        PROVE  h[j] = h[j - 1] \/ \E x : h[j] = Append(h[j - 1], x)
    <3> DEFINE s == c[j - 1]
               op == b[j]
               p == Replaced(op, s.subst)
               t == EliminateStep(s, op)
    <3>1. j \in 0..N /\ j - 1 \in 0..N
      BY <1>0
    <3>2. h[j] = t.ops /\ h[j - 1] = s.ops
      BY <3>1 DEF Eliminating
    <3>3. IsElim(s) /\ IsOp(op)
      BY <1>3, <3>1, OpOf DEF ElimFacts
    <3>4. \/ KeptAs(s, t, p) /\ Keeping(s, t, op, p)
          \/ \E x : Replacing(s, t, op, p, x)
      <4> HIDE DEF s, op
      <4> QED
        BY <3>3, EliminateCases
    <3> HIDE DEF s, op, p, t, h
    <3> QED
      BY <3>2, <3>4 DEF KeptAs, Replacing
  <2>3. \A j \in 0..N : h[j] = c[j].ops
    OBVIOUS
  <2>4. N \in 0..N
    BY <1>0
  <2> HIDE DEF N, h
  <2>5. \A j \in 0..N : Begins(h[j], h[N])
    BY <2>1, <2>2, AppendedBegins
  <2> QED
    BY <2>3, <2>4, <2>5 DEF N
<1> QED
  BY <1>3, <1>4

LEMMA EliminationShape ==
  ASSUME NEW b, IsSeq(b), SingleAssignment(b), Kind = designKind, Imm = Word
  PROVE  LET f == redundant_load_elimination(b)
         IN  IsSeq(f) /\ Len(f) \in Nat /\ \A n \in 1..Len(f) : IsOp(f[n])
<1>0. Len(b) \in Nat /\ Len(b) \in 0..Len(b)
  BY LenProperties DEF IsSeq
<1>1. PICK c : Eliminating(b, c) /\ redundant_load_elimination(b) = c[Len(b)].ops
  BY <1>0, EliminateTurns
<1>2. ElimFacts(b, Len(b), c[Len(b)])
  BY <1>0, <1>1, EliminationFacts
<1>3. IsSeq(c[Len(b)].ops) /\ \A n \in 1..Len(c[Len(b)].ops) : IsOp(c[Len(b)].ops[n])
  BY <1>2 DEF ElimFacts
<1>4. Len(c[Len(b)].ops) \in Nat
  BY <1>3, AppendIsSeq
<1> QED
  BY <1>1, <1>3, <1>4

(* redundant_load_elimination leaves an equal block, if no op that stays   *)
(* reads what it replaced.                                                 *)
LEMMA EliminationPreserves ==
  ASSUME NEW b, IsSeq(b), SingleAssignment(b), Kind = designKind, Imm = Word,
         ByteBits \in 1..WideBits, KeptUsesDefined(redundant_load_elimination(b)),
         NEW m, IsState(m)
  PROVE  Outcome(DesignRun(redundant_load_elimination(b), m)) = Outcome(DesignRun(b, m))
<1>0. Len(b) \in Nat
  BY LenProperties DEF IsSeq
<1>1. PICK c : Eliminating(b, c) /\ redundant_load_elimination(b) = c[Len(b)].ops
  BY <1>0, EliminateTurns
<1>2. PICK g : Running(b, m, g) /\ DesignRun(b, m) = g[Len(b)]
  BY <1>0, RunOf
<1> DEFINE f == redundant_load_elimination(b)
<1>3. \A n \in 0..Len(b) : ElimFacts(b, n, c[n]) /\ Begins(c[n].ops, f)
  BY <1>1, EliminationFacts
<1>4. Len(f) \in Nat /\ KeptUsesDefined(f) /\ f = c[Len(b)].ops
  BY <1>1, EliminationShape
<1> HIDE DEF f
<1> DEFINE Met(n) == ElimMet(f, c[n], g[n], DesignRun(c[n].ops, m))
           U == {n \in Nat : n <= Len(b) => Met(n)}
<1>5. 0 \in U
  <2>1. c[0] = [ops |-> <<>>, loads |-> {}, stores |-> {}, subst |-> <<>>] /\ g[0] = m
    BY <1>1, <1>2 DEF Eliminating, Running
  <2>2. DesignRun(c[0].ops, m) = m /\ DOMAIN c[0].subst = {}
    BY <2>1, RunEmpty
  <2>3. ElimMet(f, c[0], m, m)
    BY <2>1, <2>2 DEF ElimMet, Alike, SameFlags, SubstHolds
  <2> QED
    BY <2>1, <2>2, <2>3
<1>6. ASSUME NEW n \in Nat, n \in U
      PROVE  n + 1 \in U
  <2> SUFFICES ASSUME n + 1 <= Len(b) PROVE Met(n + 1)
    OBVIOUS
  <2> DEFINE i == n + 1
             s == c[n]
             x == g[n]
  <2>1. i \in 1..Len(b) /\ i \in 0..Len(b) /\ i - 1 = n /\ n \in 0..Len(b)
    BY <1>0
  <2>2. c[i] = EliminateStep(s, b[i]) /\ ElimFacts(b, i - 1, s) /\ Begins(c[i].ops, f)
    BY <1>1, <1>3, <2>1 DEF Eliminating
  <2>3. ElimMet(f, s, x, DesignRun(s.ops, m)) /\ g[i] = Ran(x, b[i])
    BY <1>2, <1>6, <2>1 DEF Running
  <2> HIDE DEF i, s, x
  <2>4. LET t == EliminateStep(s, b[i])
        IN  ElimMet(f, t, Ran(x, b[i]), DesignRun(t.ops, m))
    BY <1>0, <1>4, <2>1, <2>2, <2>3, ElimStepMeets
  <2>5. ElimMet(f, c[i], g[i], DesignRun(c[i].ops, m))
    BY <2>2, <2>3, <2>4
  <2> QED
    BY <2>5 DEF i
<1> HIDE DEF Met
<1>7. Met(Len(b))
  <2>1. Len(b) \in U
    BY <1>0, <1>5, <1>6, SetInduction
  <2> QED
    BY <1>0, <2>1
<1> QED
  BY <1>1, <1>2, <1>7 DEF Met, ElimMet, Alike

-----------------------------------------------------------------------------
(* The three passes.                                                       *)
LEMMA FittingFacts ==
  ASSUME IsSeq(src), SingleAssignment(src), ShiftsFit
  PROVE  Fitting(src)
<1> SUFFICES ASSUME NEW n \in 1..Len(src), src[n].kind.name = "shr"
             PROVE  IF src[n].args[1] \in Imm THEN src[n].args[1] < 2 ^ src[n].kind.bits
                    ELSE \A j \in 1..Len(src) :
                           src[j].dst = src[n].args[1] /\ src[j].kind.name \in aluNames
                             => src[j].kind.bits <= src[n].kind.bits
  BY DEF Fitting
<1>1. DOMAIN src = 1..Len(src)
  BY AppendIsSeq
<1> QED
  BY <1>1 DEF ShiftsFit, Defs

LEMMA PassesPreserveOutcome ==
  ASSUME IsSeq(src), SingleAssignment(src), ShiftsFit, ops = run_all(src), UsesAreDefined,
         NEW m \in Starts
  PROVE  Outcome(DesignRun(ops, m)) = Outcome(DesignRun(src, m))
<1> DEFINE folded == constant_fold(src)
           loaded == redundant_load_elimination(folded)
<1>1. /\ IsSeq(folded) /\ SingleAssignment(folded)
      /\ \A n : IsState(n) => Outcome(DesignRun(folded, n)) = Outcome(DesignRun(src, n))
  <2>1. Fitting(src)
    BY FittingFacts
  <2> QED
    BY <2>1, DesignAssumption, FoldPreserves
<1> HIDE DEF folded
<1>2. IsSeq(loaded) /\ \A n \in 1..Len(loaded) : IsOp(loaded[n])
  BY <1>1, DesignAssumption, EliminationShape
<1>3. ops = dead_flag_elimination(loaded)
  BY DEF run_all, folded
<1>4. IsState(m)
  BY DesignAssumption DEF IsState
<1>5. KeptUsesDefined(loaded)
  <2>1. UsesDefined(dead_flag_elimination(loaded))
    BY <1>3 DEF UsesAreDefined, UsesDefined
  <2> HIDE DEF loaded
  <2> QED
    BY <1>2, <2>1, KeptUses
<1>6. Outcome(DesignRun(loaded, m)) = Outcome(DesignRun(folded, m))
  BY <1>1, <1>4, <1>5, DesignAssumption, EliminationPreserves
<1> HIDE DEF loaded
<1>7. Outcome(DesignRun(dead_flag_elimination(loaded), m)) = Outcome(DesignRun(loaded, m))
  BY <1>2, <1>4, DesignAssumption, DeadFlagsPreserve
<1> QED
  BY <1>1, <1>3, <1>4, <1>6, <1>7

-----------------------------------------------------------------------------
(* What the passes are given, and what they leave.                         *)
Optimised == IsSeq(src) /\ k \in Nat /\ (k = 1 => ops = run_all(src))

LEMMA OptimisedKept == Optimised /\ [Next]_vars => Optimised'
<1> SUFFICES ASSUME Optimised, [Next]_vars PROVE Optimised'
  OBVIOUS
<1> USE DEF Optimised
<1>1. CASE Push
  <2>1. \E op : src' = Append(src, op)
    BY <1>1 DEF Push
  <2> QED
    BY <1>1, <2>1, AppendIsSeq DEF Push
<1>2. CASE Optimise
  BY <1>2 DEF Optimise
<1>3. CASE PlaceFree
  BY <1>3 DEF PlaceFree, Placing
<1>4. CASE PlaceEvicting
  BY <1>4 DEF PlaceEvicting, Placing
<1>5. CASE PlaceSpilled
  BY <1>5 DEF PlaceSpilled, Placing
<1>6. CASE UNCHANGED vars
  BY <1>6 DEF vars
<1> QED
  BY <1>1, <1>2, <1>3, <1>4, <1>5, <1>6 DEF Next, Done

(* Wherever each literal fits its shift and no op that is left reads a     *)
(* load that was replaced, the block that the three passes leave writes    *)
(* the same memory and has the same effects as the block the frontend      *)
(* lowered, from every state it may be entered in.                         *)
THEOREM DesignPassesPreserve == Spec => []PassesPreserve
<1>1. Init => Optimised
  <2>1. IsSeq(<<>>)
    BY EmptySeq, SeqIsSeq
  <2> QED
    BY <2>1 DEF Init, Optimised
<1>2. Optimised => PassesPreserve
  BY PassesPreserveOutcome DEF Optimised, PassesPreserve
<1> QED
  BY <1>1, <1>2, OptimisedKept, PTL DEF Spec
=============================================================================
