----------------------------- MODULE BlockProofs -----------------------------
(***************************************************************************)
(* Proofs that a translated block does what the words it was made of do,   *)
(* for both frontends, every memory, word width and number of registers.   *)
(***************************************************************************)
EXTENDS TranslationProofs

-----------------------------------------------------------------------------
(* Running ops.                                                            *)

Step(op, s) == IF s.status = "run" THEN Exec(op, s) ELSE s

(* The states between the ops from n on.                                   *)
Trace(ops, n, s, g) ==
  /\ g[n - 1] = s
  /\ \A j \in n..Len(ops) : g[j] = Step(ops[j], g[j - 1])

(* The recursive function that RunFrom runs them with.                     *)
After(ops, n, s, f) ==
  [j \in (n - 1)..Len(ops) |-> IF j < n THEN s ELSE Step(ops[j], f[j - 1])]

LEMMA RunIs ==
  ASSUME NEW ops, Len(ops) \in Nat, NEW n \in 1..(Len(ops) + 1), NEW s,
         NEW g, Trace(ops, n, s, g)
  PROVE  RunFrom(ops, n, s) = g[Len(ops)]
<1> DEFINE D == (n - 1)..Len(ops)
           h == [j \in D |-> g[j]]
           c == CHOOSE f : f = After(ops, n, s, f)
<1>1. h = After(ops, n, s, h)
  <2> DEFINE a == After(ops, n, s, h)
  <2>1. ASSUME NEW j \in D
        PROVE  a[j] = g[j]
    <3>1. a[j] = IF j < n THEN s ELSE Step(ops[j], h[j - 1])
      BY DEF After
    <3>2. CASE j < n
      <4>1. j = n - 1
        BY <3>2
      <4> QED
        BY <3>1, <3>2, <4>1 DEF Trace
    <3>3. CASE ~(j < n)
      <4>1. j \in n..Len(ops) /\ j - 1 \in D
        BY <3>3
      <4>2. h[j - 1] = g[j - 1]
        BY <4>1
      <4> HIDE DEF h, a, D
      <4> QED
        BY <3>1, <3>3, <4>1, <4>2 DEF Trace
    <3> QED
      BY <3>2, <3>3
  <2>2. a = [j \in D |-> a[j]]
    BY DEF After
  <2> HIDE DEF a
  <2>3. a = [j \in D |-> g[j]]
    BY ONLY <2>1, <2>2
  <2> QED
    BY <2>3 DEF a
<1>2. c = After(ops, n, s, c)
  BY <1>1
<1> HIDE DEF c
<1>3. \A j \in D : c[j] = IF j < n THEN s ELSE Step(ops[j], c[j - 1])
  <2> DEFINE a == After(ops, n, s, c)
  <2>1. \A j \in D : a[j] = IF j < n THEN s ELSE Step(ops[j], c[j - 1])
    BY ONLY DEF After, D
  <2>2. a = c
    BY <1>2
  <2> HIDE DEF a
  <2> QED
    BY ONLY <2>1, <2>2
<1> DEFINE S == {k \in Nat : (n - 1) + k \in D => c[(n - 1) + k] = g[(n - 1) + k]}
<1>4. 0 \in S
  <2>1. (n - 1) + 0 = n - 1 /\ n - 1 < n
    OBVIOUS
  <2>2. n - 1 \in D => c[n - 1] = g[n - 1]
    BY <1>3, <2>1 DEF Trace
  <2> QED
    BY <2>1, <2>2
<1>5. ASSUME NEW k \in Nat, k \in S
      PROVE  k + 1 \in S
  <2> SUFFICES ASSUME (n - 1) + (k + 1) \in D
               PROVE  c[(n - 1) + (k + 1)] = g[(n - 1) + (k + 1)]
    OBVIOUS
  <2> DEFINE j == (n - 1) + (k + 1)
  <2>1. j \in n..Len(ops) /\ ~(j < n) /\ j - 1 = (n - 1) + k /\ j \in D /\ j - 1 \in D
    OBVIOUS
  <2>2. c[j - 1] = g[j - 1]
    BY <1>5, <2>1
  <2> HIDE DEF j, D, S
  <2>3. c[j] = Step(ops[j], c[j - 1])
    BY <1>3, <2>1
  <2>4. g[j] = Step(ops[j], g[j - 1])
    BY <2>1 DEF Trace
  <2>5. c[j] = g[j]
    BY <2>2, <2>3, <2>4
  <2> QED
    BY <2>5 DEF j
<1>6. Nat \subseteq S
  <2> HIDE DEF S
  <2> QED
    BY <1>4, <1>5, SetInduction
<1>7. c[Len(ops)] = g[Len(ops)]
  <2>1. /\ Len(ops) - (n - 1) \in Nat
        /\ (n - 1) + (Len(ops) - (n - 1)) = Len(ops)
        /\ Len(ops) \in D
    OBVIOUS
  <2>2. Len(ops) - (n - 1) \in S
    BY <1>6, <2>1
  <2> QED
    BY <2>1, <2>2
<1>8. RunFrom(ops, n, s) = c[Len(ops)]
  BY DEF RunFrom, After, Step, c
<1> QED
  BY <1>7, <1>8

LEMMA TraceExists ==
  ASSUME NEW ops, Len(ops) \in Nat, NEW n \in 1..(Len(ops) + 1), NEW s
  PROVE  \E g : Trace(ops, n, s, g)
<1> DEFINE Part(k, g) ==
             /\ g[n - 1] = s
             /\ \A j \in n..Len(ops) : j <= (n - 1) + k => g[j] = Step(ops[j], g[j - 1])
           S == {k \in Nat : \E g : Part(k, g)}
<1>1. 0 \in S
  <2>1. Part(0, [j \in (n - 1)..Len(ops) |-> s])
    OBVIOUS
  <2> HIDE DEF Part
  <2> QED
    BY <2>1
<1>2. ASSUME NEW k \in Nat, k \in S
      PROVE  k + 1 \in S
  <2>1. PICK g : Part(k, g)
    BY <1>2
  <2> DEFINE l == (n - 1) + (k + 1)
             x == Step(ops[l], g[l - 1])
             h == [j \in (n - 1)..Len(ops) |-> IF j = l THEN x ELSE g[j]]
  <2>2. l \in Int /\ l >= n
    OBVIOUS
  <2>3. \A j \in n..Len(ops) : j <= l => j = l \/ j <= (n - 1) + k
    OBVIOUS
  <2> HIDE DEF x, l
  <2>4. h[n - 1] = s
    BY <2>1, <2>2
  <2>5. ASSUME NEW j \in n..Len(ops), j <= l
        PROVE  h[j] = Step(ops[j], h[j - 1])
    <3>1. CASE j = l
      <4>1. h[j] = x /\ h[j - 1] = g[l - 1]
        BY <2>2, <3>1
      <4> QED
        BY ONLY <3>1, <4>1 DEF x
    <3>2. CASE j # l
      <4>1. j <= (n - 1) + k
        BY <2>3, <2>5, <3>2
      <4>2. h[j] = g[j] /\ h[j - 1] = g[j - 1]
        BY <2>2, <2>5, <3>2
      <4> QED
        BY <2>1, <4>1, <4>2
    <3> QED
      BY <3>1, <3>2
  <2>6. Part(k + 1, h)
    BY <2>4, <2>5 DEF l
  <2> HIDE DEF Part, h
  <2> QED
    BY <2>6
<1>3. Nat \subseteq S
  <2> HIDE DEF S
  <2> QED
    BY <1>1, <1>2, SetInduction
<1>4. PICK g : Part(Len(ops), g)
  BY <1>3
<1>5. Trace(ops, n, s, g)
  BY <1>4 DEF Trace
<1> QED
  BY <1>5

(* What the ops of d do beyond those of c: when those end in t, all of     *)
(* them end in u.                                                          *)
Leads(c, t, d, u) ==
  /\ Len(c.ops) \in Nat
  /\ Len(d.ops) \in Nat
  /\ Len(c.ops) <= Len(d.ops)
  /\ \A n \in 1..(Len(c.ops) + 1) : \A s :
       RunFrom(c.ops, n, s) = t => RunFrom(d.ops, n, s) = u

LEMMA LeadsOn ==
  ASSUME NEW c, NEW t, NEW d, NEW u, NEW e, NEW v, Leads(c, t, d, u), Leads(d, u, e, v)
  PROVE  Leads(c, t, e, v)
BY DEF Leads

LEMMA LeadsNowhere ==
  ASSUME NEW c, NEW t, NEW d, Len(c.ops) \in Nat, d.ops = c.ops
  PROVE  Leads(c, t, d, t)
BY DEF Leads

(* From the end of c on.                                                   *)
LEMMA LeadsFromEnd ==
  ASSUME NEW c, NEW t, NEW d, NEW u, Leads(c, t, d, u)
  PROVE  RunFrom(d.ops, Len(c.ops) + 1, t) = u
<1> DEFINE n == Len(c.ops) + 1
           g == [j \in {Len(c.ops)} |-> t]
<1>1. Len(c.ops) \in Nat
  BY DEF Leads
<1>2. Trace(c.ops, n, t, g)
  BY <1>1 DEF Trace
<1>3. g[Len(c.ops)] = t
  OBVIOUS
<1>4. n \in 1..(Len(c.ops) + 1)
  BY <1>1
<1> HIDE DEF g, n
<1>5. RunFrom(c.ops, n, t) = t
  BY <1>1, <1>2, <1>3, <1>4, RunIs
<1> QED
  BY <1>4, <1>5 DEF Leads, n

(* Ops that come after a state that leaves the block do nothing.           *)
LEMMA StoppedStays ==
  ASSUME NEW ops, Len(ops) \in Nat, NEW n \in 1..(Len(ops) + 1), NEW s, s.status # "run"
  PROVE  RunFrom(ops, n, s) = s
<1> DEFINE g == [j \in (n - 1)..Len(ops) |-> s]
<1>1. /\ g[n - 1] = s /\ g[Len(ops)] = s
      /\ \A j \in n..Len(ops) : g[j] = s /\ g[j - 1] = s
  OBVIOUS
<1> HIDE DEF g
<1>2. Trace(ops, n, s, g)
  BY <1>1 DEF Trace, Step
<1> QED
  BY <1>1, <1>2, RunIs

(* More ops, with the states between them.                                 *)
Continues(c, d, st, K) ==
  /\ Len(d.ops) = Len(c.ops) + K
  /\ \A j \in 1..Len(c.ops) : d.ops[j] = c.ops[j]
  /\ \A k \in 1..K : st[k] = Step(d.ops[Len(c.ops) + k], st[k - 1])

LEMMA LeadsByOps ==
  ASSUME NEW c, Len(c.ops) \in Nat, NEW d, NEW K \in Nat,
         NEW st, Continues(c, d, st, K)
  PROVE  Leads(c, st[0], d, st[K])
<1> DEFINE L == Len(c.ops)
<1>1. ASSUME NEW n \in 1..(L + 1), NEW s, RunFrom(c.ops, n, s) = st[0]
      PROVE  RunFrom(d.ops, n, s) = st[K]
  <2>1. PICK g : Trace(c.ops, n, s, g)
    BY TraceExists
  <2>2. g[L] = st[0]
    BY <1>1, <2>1, RunIs
  <2> DEFINE h == [j \in (n - 1)..(L + K) |-> IF j > L THEN st[j - L] ELSE g[j]]
  <2>3. h[n - 1] = s
    BY <2>1 DEF Trace
  <2>4. h[L + K] = st[K]
    <3>1. CASE K = 0
      BY <2>2, <3>1
    <3>2. CASE K # 0
      <4>1. L + K > L /\ (L + K) - L = K
        BY <3>2
      <4> QED
        BY <4>1
    <3> QED
      BY <3>1, <3>2
  <2>5. ASSUME NEW j \in n..(L + K)
        PROVE  h[j] = Step(d.ops[j], h[j - 1])
    <3>1. CASE j > L
      <4>1. j - L \in 1..K /\ L + (j - L) = j /\ (j - L) - 1 = (j - 1) - L
        BY <3>1
      <4>2. h[j] = st[j - L]
        BY <3>1
      <4>3. h[j - 1] = st[(j - L) - 1]
        <5>1. CASE j - 1 > L
          <6>1. j - 1 \in (n - 1)..(L + K)
            OBVIOUS
          <6>2. h[j - 1] = st[(j - 1) - L]
            BY ONLY <5>1, <6>1
          <6> QED
            BY ONLY <4>1, <6>2
        <5>2. CASE j - 1 = L
          <6>1. h[j - 1] = g[L] /\ (j - L) - 1 = 0
            BY <5>2
          <6> QED
            BY <2>2, <6>1
        <5> QED
          BY <3>1, <5>1, <5>2
      <4> HIDE DEF h
      <4>4. st[j - L] = Step(d.ops[L + (j - L)], st[(j - L) - 1])
        BY <4>1 DEF Continues
      <4> QED
        BY ONLY <4>1, <4>2, <4>3, <4>4
    <3>2. CASE ~(j > L)
      <4>1. j \in n..L /\ j \in 1..L /\ h[j] = g[j] /\ h[j - 1] = g[j - 1]
        BY <3>2
      <4> HIDE DEF h
      <4> QED
        BY <2>1, <4>1 DEF Trace, Continues
    <3> QED
      BY <3>1, <3>2
  <2> HIDE DEF h
  <2>6. /\ n \in 1..(Len(d.ops) + 1) /\ Len(d.ops) \in Nat /\ Len(d.ops) = L + K
    BY DEF Continues
  <2>7. Trace(d.ops, n, s, h)
    BY <2>3, <2>5, <2>6 DEF Trace
  <2>8. RunFrom(d.ops, n, s) = h[Len(d.ops)]
    BY <2>6, <2>7, RunIs
  <2> QED
    BY <2>4, <2>6, <2>8
<1> QED
  BY <1>1 DEF Leads, Continues

LEMMA LeadsByOp ==
  ASSUME NEW c, Len(c.ops) \in Nat, NEW d, Len(d.ops) = Len(c.ops) + 1,
         \A j \in 1..Len(c.ops) : d.ops[j] = c.ops[j],
         NEW t, t.status = "run"
  PROVE  Leads(c, t, d, Exec(d.ops[Len(d.ops)], t))
<1> DEFINE u  == Exec(d.ops[Len(d.ops)], t)
           st == [k \in 0..1 |-> IF k = 0 THEN t ELSE u]
<1>1. st[0] = t /\ st[1] = u
  OBVIOUS
<1>2. u = Step(d.ops[Len(c.ops) + 1], t)
  BY DEF Step
<1> HIDE DEF u, st
<1>3. \A k \in 1..1 : k = 1 /\ k - 1 = 0
  OBVIOUS
<1>4. Continues(c, d, st, 1)
  BY <1>1, <1>2, <1>3 DEF Continues
<1>5. Leads(c, st[0], d, st[1])
  BY <1>4, LeadsByOps
<1> QED
  BY <1>1, <1>5 DEF u

-----------------------------------------------------------------------------
(* What a builder and the machine that ran its ops know of the guest.      *)

(* An operand that has a value, and the value.                             *)
Known(c, x) == x \in Imm \/ (x \in VReg /\ Defined(c.ops, x))

Val(t, x) == IF x \in Imm THEN x ELSE t.env[x]

(* The value of a guest register.                                          *)
Shown(c, t, r) == IF c.at[r] = NoReg THEN t.reg[r] ELSE t.env[c.at[r]]

AllOps(ops) == \A j \in 1..Len(ops) : ops[j] \in Op

(* CR is never in a vreg: nothing reads or writes it as a whole.           *)
Ready(c, t, n) ==
  /\ Open(c, n)
  /\ AllOps(c.ops)
  /\ c.at[cr] = NoReg
  /\ t \in Machine
  /\ t.status = "run"

(* The builder and the machine know the registers and the memory of R.     *)
Sim(c, t, R, n) ==
  /\ Ready(c, t, n)
  /\ R \in Machine
  /\ R.mem = t.mem
  /\ \A r \in CachedReg : Shown(c, t, r) = R.reg[r]

(* What was known still is.                                                *)
Goes(c, t, d, u) ==
  /\ Leads(c, t, d, u)
  /\ \A x : Known(c, x) => Known(d, x) /\ Val(u, x) = Val(t, x)

(* A method that makes a value and knows it by the result.                 *)
Computes(c, t, d, u, R, n, val) ==
  /\ Sim(d, u, R, n)
  /\ Goes(c, t, d, u)
  /\ d.at = c.at
  /\ Result(d) \in VReg
  /\ Known(d, Result(d))
  /\ Val(u, Result(d)) = val
  /\ u.zero = t.zero /\ u.negative = t.negative

LEMMA GoesOn ==
  ASSUME NEW c, NEW t, NEW d, NEW u, NEW e, NEW v, Goes(c, t, d, u), Goes(d, u, e, v)
  PROVE  Goes(c, t, e, v)
<1>1. Leads(c, t, e, v)
  BY LeadsOn DEF Goes
<1>2. ASSUME NEW x, Known(c, x)
      PROVE  Known(e, x) /\ Val(v, x) = Val(t, x)
  <2>1. Known(d, x) /\ Val(u, x) = Val(t, x)
    BY <1>2 DEF Goes
  <2>2. Known(e, x) /\ Val(v, x) = Val(u, x)
    BY <2>1 DEF Goes
  <2> QED
    BY <2>1, <2>2
<1> QED
  BY <1>1, <1>2 DEF Goes

LEMMA MachineFields ==
  ASSUME NEW t \in Machine
  PROVE  /\ t.reg \in [GuestReg -> Word]
         /\ t.mem \in [0..(MemSize - 1) -> Byte]
         /\ t.zero \in 0..1 /\ t.negative \in 0..1
         /\ t.env \in [VReg -> Word]
         /\ t = [reg |-> t.reg, mem |-> t.mem, zero |-> t.zero, negative |-> t.negative,
                 env |-> t.env, status |-> t.status]
BY DEF Machine

(* A register of a machine that changes.                                   *)
LEMMA EnvSet ==
  ASSUME NEW t \in Machine, NEW v \in VReg, NEW x \in Word
  PROVE  LET u == [t EXCEPT !.env[v] = x]
         IN  /\ u \in Machine
             /\ u.env = [t.env EXCEPT ![v] = x]
             /\ u.reg = t.reg /\ u.mem = t.mem /\ u.status = t.status
             /\ u.zero = t.zero /\ u.negative = t.negative
<1>1. t.env \in [VReg -> Word] /\ [t.env EXCEPT ![v] = x] \in [VReg -> Word]
  BY MachineFields
<1> DEFINE e == [t.env EXCEPT ![v] = x]
<1>2. [t EXCEPT !.env[v] = x] = [t EXCEPT !.env = e]
  OBVIOUS
<1> HIDE DEF e
<1>3. e \in [VReg -> Word]
  BY <1>1 DEF e
<1> QED
  BY <1>2, <1>3 DEF Machine, e

LEMMA RegSet ==
  ASSUME NEW t \in Machine, NEW r \in GuestReg, NEW x \in Word
  PROVE  LET u == [t EXCEPT !.reg[r] = x]
         IN  /\ u \in Machine
             /\ u.reg = [t.reg EXCEPT ![r] = x]
             /\ u.env = t.env /\ u.mem = t.mem /\ u.status = t.status
             /\ u.zero = t.zero /\ u.negative = t.negative
<1>1. t.reg \in [GuestReg -> Word] /\ [t.reg EXCEPT ![r] = x] \in [GuestReg -> Word]
  BY MachineFields
<1> DEFINE e == [t.reg EXCEPT ![r] = x]
<1>2. [t EXCEPT !.reg[r] = x] = [t EXCEPT !.reg = e]
  OBVIOUS
<1> HIDE DEF e
<1>3. e \in [GuestReg -> Word]
  BY <1>1 DEF e
<1> QED
  BY <1>2, <1>3 DEF Machine, e

LEMMA KnownIsOperand ==
  ASSUME NEW c, NEW x, Known(c, x)
  PROVE  Operand(c.ops, x) /\ x \in VReg \cup Imm
BY DEF Known, Operand

LEMMA ValIsWord ==
  ASSUME NEW c, NEW t \in Machine, NEW x, Known(c, x), x \in Imm => x \in Word
  PROVE  Val(t, x) \in Word
BY MachineFields DEF Known, Val

(* What each kind of op does.                                              *)
LEMMA ExecAlu ==
  ASSUME NEW op, NEW t, op.kind.name \in aluNames
  PROVE  Exec(op, t) =
           [t EXCEPT !.env[op.dst] = Emitted(op.kind.name, op.kind.wide,
                                             Val(t, op.args[1]), Val(t, op.args[2]))]
BY DEF Exec, Val, aluNames

LEMMA ExecVec ==
  ASSUME NEW op, NEW t, op.kind.name = "vec"
  PROVE  Exec(op, t) =
           [t EXCEPT !.env[op.dst] = VecSum(Val(t, op.args[1]), Val(t, op.args[2]))]
BY DEF Exec, Val, aluNames

LEMMA ExecGet ==
  ASSUME NEW op, NEW t, op.kind.name = "get"
  PROVE  Exec(op, t) = [t EXCEPT !.env[op.dst] = GetValue(op.kind.reg, t)]
BY DEF Exec, aluNames

LEMMA ExecReadFlag ==
  ASSUME NEW op, NEW t, op.kind.name = "readflag"
  PROVE  Exec(op, t) = [t EXCEPT !.env[op.dst] = t[op.kind.flag]]
BY DEF Exec, aluNames

LEMMA ExecSet ==
  ASSUME NEW op, NEW t, op.kind.name = "set", op.args # <<>>
  PROVE  Exec(op, t) = [t EXCEPT !.reg = SetRegs(op.kind.reg, t, Val(t, op.args[1]))]
BY DEF Exec, Val, aluNames

LEMMA ExecSetNothing ==
  ASSUME NEW op, NEW t, op.kind.name = "set", op.args = <<>>
  PROVE  Exec(op, t) = [t EXCEPT !.reg = SetRegs(op.kind.reg, t, 0)]
BY DEF Exec, aluNames

LEMMA ExecSetFlags ==
  ASSUME NEW op, NEW t, op.kind.name = "setflags", op.kind.wide = FALSE
  PROVE  LET f == Emitted("and", FALSE, Val(t, op.args[1]), Val(t, op.args[2]))
         IN  Exec(op, t) = [t EXCEPT !.zero = IF f = 0 THEN 1 ELSE 0,
                                     !.negative = BitOf(f, NarrowBits - 1)]
<1> DEFINE f(wide)    == Emitted("and", wide, Val(t, op.args[1]), Val(t, op.args[2]))
           bits(wide) == IF wide THEN WideBits ELSE NarrowBits
<1>1. Exec(op, t) = [t EXCEPT !.zero = IF f(op.kind.wide) = 0 THEN 1 ELSE 0,
                              !.negative = BitOf(f(op.kind.wide), bits(op.kind.wide) - 1)]
  BY DEF Exec, Val, aluNames
<1>2. bits(FALSE) = NarrowBits
  OBVIOUS
<1> HIDE DEF f, bits
<1>3. Exec(op, t) = [t EXCEPT !.zero = IF f(FALSE) = 0 THEN 1 ELSE 0,
                              !.negative = BitOf(f(FALSE), NarrowBits - 1)]
  BY <1>1, <1>2
<1> QED
  BY <1>3 DEF f

LEMMA ExecLoad ==
  ASSUME NEW op, NEW t, op.kind.name = "load"
  PROVE  LET a == Address(Val(t, op.args[1]))
         IN  Exec(op, t) =
               IF InMap(a, op.kind.bytes)
               THEN [t EXCEPT !.env[op.dst] = LoadBytes(t.mem, a, op.kind.bytes, op.kind.big)]
               ELSE Fault(t)
BY DEF Exec, Val, aluNames

LEMMA ExecStore ==
  ASSUME NEW op, NEW t, op.kind.name = "store"
  PROVE  LET a == Address(Val(t, op.args[1]))
         IN  Exec(op, t) =
               IF InMap(a, op.kind.bytes)
               THEN [t EXCEPT !.mem = StoreBytes(@, a, op.kind.bytes, op.kind.big,
                                                 Val(t, op.args[2]))]
               ELSE Fault(t)
BY DEF Exec, Val, aluNames

LEMMA ExecJump ==
  ASSUME NEW op, NEW t, op.kind.name = "branch", op.args = <<>>
  PROVE  Exec(op, t) = [t EXCEPT !.reg[pc] = op.kind.taken, !.status = "exit"]
BY DEF Exec, Val, aluNames

LEMMA ExecBranch ==
  ASSUME NEW op, NEW t, op.kind.name = "branch", op.args # <<>>
  PROVE  Exec(op, t) =
           [t EXCEPT !.reg[pc] = IF Val(t, op.args[1]) # 0 THEN op.kind.taken ELSE op.kind.fall,
                     !.status = "exit"]
BY DEF Exec, Val, aluNames

LEMMA ExecIndirect ==
  ASSUME NEW op, NEW t, op.kind.name = "indirect"
  PROVE  Exec(op, t) = [t EXCEPT !.reg[pc] = Val(t, op.args[1]), !.status = "exit"]
BY DEF Exec, Val, aluNames

LEMMA ExecReturn ==
  ASSUME NEW op, NEW t, op.kind.name = "return"
  PROVE  Exec(op, t) = [t EXCEPT !.status = "exit"]
BY DEF Exec, aluNames

LEMMA OpIs ==
  ASSUME NEW kind \in Kind, NEW dst \in VReg \cup {NoReg}, NEW args \in Seq(VReg \cup Imm)
  PROVE  [kind |-> kind, dst |-> dst, args |-> args] \in Op
BY DEF Op

(* An op for its effect.                                                   *)
LEMMA PushRuns ==
  ASSUME NEW c, NEW t, NEW n \in Nat, Ready(c, t, n),
         NEW kind \in Kind, kind.name \in effectNames,
         NEW args \in Seq(VReg \cup Imm), \A j \in DOMAIN args : Known(c, args[j])
  PROVE  LET d == Push(c, kind, args)
         IN  /\ Leads(c, t, d, Exec([kind |-> kind, dst |-> NoReg, args |-> args], t))
             /\ d.at = c.at
             /\ AllOps(d.ops)
             /\ \A x : Known(c, x) => Known(d, x)
             /\ kind.name \notin exitNames => Open(d, n)
<1> DEFINE op == [kind |-> kind, dst |-> NoReg, args |-> args]
           d  == Push(c, kind, args)
<1>1. Open(c, n) /\ Built(c, n) /\ AllOps(c.ops) /\ t.status = "run"
  BY DEF Ready, Open
<1>2. op \in Op
  BY OpIs
<1>3. /\ Len(c.ops) \in Nat
      /\ Len(d.ops) = Len(c.ops) + 1
      /\ \A j \in 1..Len(c.ops) : d.ops[j] = c.ops[j]
      /\ d.ops[Len(d.ops)] = op
  BY ONLY <1>1, OpPushed DEF Push, op, d
<1>4. \A j \in DOMAIN args : Operand(c.ops, args[j])
  BY KnownIsOperand
<1>5. /\ d.at = c.at
      /\ \A v : Defined(c.ops, v) => Defined(d.ops, v)
      /\ kind.name \notin exitNames => Open(d, n)
  BY <1>1, <1>4, Pushed
<1> HIDE DEF op, d
<1>6. Leads(c, t, d, Exec(op, t))
  BY <1>1, <1>3, LeadsByOp
<1>7. AllOps(d.ops)
  <2>1. \A j \in 1..Len(d.ops) : j = Len(d.ops) \/ j \in 1..Len(c.ops)
    BY <1>3
  <2> QED
    BY <1>1, <1>2, <1>3, <2>1 DEF AllOps
<1>8. \A x : Known(c, x) => Known(d, x)
  BY <1>5 DEF Known
<1> QED
  BY <1>5, <1>6, <1>7, <1>8 DEF op, d

(* An op with a result.                                                    *)
LEMMA DefineRuns ==
  ASSUME NEW c, NEW t, NEW n \in 0..(VRegs - 1), Ready(c, t, n),
         NEW kind \in Kind, kind.name \in aluNames \cup readNames,
         NEW args \in Seq(VReg \cup Imm), \A j \in DOMAIN args : Known(c, args[j]),
         kind.name \in aluNames => Len(args) = 2
  PROVE  LET d == Define(c, kind, args)
         IN  /\ Leads(c, t, d, Exec([kind |-> kind, dst |-> Result(d), args |-> args], t))
             /\ d.at = c.at
             /\ AllOps(d.ops)
             /\ Result(d) \in VReg /\ Known(d, Result(d))
             /\ \A x : Known(c, x) => Known(d, x) /\ x # Result(d)
             /\ Open(d, n + 1)
<1> DEFINE d  == Define(c, kind, args)
           p  == PushOp(c, kind, VRegAt(c.next), args)
           op == [kind |-> kind, dst |-> VRegAt(c.next), args |-> args]
<1>1. Open(c, n) /\ Built(c, n) /\ AllOps(c.ops) /\ t.status = "run"
  BY DEF Ready, Open
<1>2. \A j \in DOMAIN args : Operand(c.ops, args[j])
  BY KnownIsOperand
<1>3. Yields(c, d, n + 1)
  BY ONLY <1>1, <1>2, Valued, kind.name \in aluNames \cup readNames,
          kind.name \in aluNames => Len(args) = 2, n \in 0..(VRegs - 1)
<1>4. /\ p = [ops |-> p.ops, next |-> c.next, at |-> c.at]
      /\ Len(c.ops) \in Nat
      /\ Len(p.ops) = Len(c.ops) + 1
      /\ \A j \in 1..Len(c.ops) : p.ops[j] = c.ops[j]
      /\ p.ops[Len(p.ops)] = op
  BY ONLY <1>1, OpPushed DEF op, p
<1>5. d = [p EXCEPT !.next = @ + 1]
  BY DEF Define
<1> HIDE DEF p, op, d
<1>6. d.ops = p.ops
  <2> DEFINE o == p.ops
             x == c.next
             y == c.at
  <2>1. p = [ops |-> o, next |-> x, at |-> y]
    BY <1>4
  <2> HIDE DEF o, x, y
  <2>2. d = [ops |-> o, next |-> x + 1, at |-> y]
    BY ONLY <1>5, <2>1
  <2> QED
    BY <2>2 DEF o
<1>7. op.dst = Result(d) /\ op.dst = VRegAt(c.next)
  <2>1. Result(d) = d.ops[Len(d.ops)].dst
    BY DEF Result, Last
  <2> QED
    BY <1>4, <1>6, <2>1 DEF op
<1>8. /\ Open(d, n + 1) /\ d.at = c.at /\ Result(d) \in VReg
      /\ Defined(d.ops, Result(d))
      /\ \A v : Defined(c.ops, v) => Defined(d.ops, v)
  BY <1>3 DEF Yields
<1>9. op = [kind |-> kind, dst |-> Result(d), args |-> args]
  BY <1>7 DEF op
<1>10. op \in Op
  BY <1>8, <1>9, OpIs
<1>11. Leads(c, t, d, Exec(op, t))
  BY <1>1, <1>4, <1>6, LeadsByOp
<1>12. AllOps(d.ops)
  <2>1. \A j \in 1..Len(d.ops) : j = Len(d.ops) \/ j \in 1..Len(c.ops)
    BY <1>4, <1>6
  <2> QED
    BY <1>1, <1>4, <1>6, <1>10, <2>1 DEF AllOps
<1>13. ASSUME NEW x, Known(c, x)
       PROVE  Known(d, x) /\ x # Result(d)
  <2>1. Known(d, x)
    BY <1>8, <1>13 DEF Known
  <2>2. ASSUME x = Result(d)
        PROVE  FALSE
    <3>1. x \in VReg /\ x \notin Imm
      BY <1>8, <2>2, ImmAssumption
    <3>2. PICK j \in 1..Len(c.ops) : c.ops[j].dst = x
      BY <1>13, <3>1 DEF Known, Defined
    <3>3. Len(d.ops) \in 1..Len(d.ops) /\ j \in 1..(Len(d.ops) - 1)
      BY <1>4, <1>6
    <3>4. d.ops[Len(d.ops)].dst = x /\ x # NoReg
      BY <1>4, <1>6, <1>7, <2>2, <3>1, NoRegAssumption
    <3>5. d.ops[j].dst # d.ops[Len(d.ops)].dst
      <4>1. WellFormed(d.ops)
        BY <1>8 DEF Open, Built
      <4>2. \A k \in 1..Len(d.ops) :
              d.ops[k].dst # NoReg => \A i \in 1..(k - 1) : d.ops[i].dst # d.ops[k].dst
        BY ONLY <4>1 DEF WellFormed
      <4> QED
        BY ONLY <3>3, <3>4, <4>2
    <3> QED
      BY <1>4, <1>6, <3>2, <3>4, <3>5
  <2> QED
    BY <2>1, <2>2
<1>14. Known(d, Result(d))
  BY <1>8 DEF Known
<1> QED
  BY <1>8, <1>9, <1>11, <1>12, <1>13, <1>14 DEF d

(* What such an op computes from what was known, it computes without       *)
(* changing the guest.                                                     *)
LEMMA ValueRuns ==
  ASSUME NEW c, NEW t, NEW R, NEW n \in 0..(VRegs - 1), Sim(c, t, R, n),
         NEW kind \in Kind, kind.name \in aluNames \cup readNames,
         NEW args \in Seq(VReg \cup Imm), \A j \in DOMAIN args : Known(c, args[j]),
         kind.name \in aluNames => Len(args) = 2,
         NEW val \in Word,
         \A v \in VReg : Exec([kind |-> kind, dst |-> v, args |-> args], t)
                           = [t EXCEPT !.env[v] = val]
  PROVE  \E u : Computes(c, t, Define(c, kind, args), u, R, n + 1, val)
<1> DEFINE d == Define(c, kind, args)
           v == Result(d)
           u == [t EXCEPT !.env[v] = val]
<1>1. Ready(c, t, n) /\ t \in Machine /\ t.status = "run" /\ R \in Machine /\ R.mem = t.mem
  BY DEF Sim, Ready
<1>2. /\ Leads(c, t, d, Exec([kind |-> kind, dst |-> v, args |-> args], t))
      /\ d.at = c.at
      /\ AllOps(d.ops)
      /\ v \in VReg /\ Known(d, v)
      /\ \A x : Known(c, x) => Known(d, x) /\ x # v
      /\ Open(d, n + 1)
  BY ONLY <1>1, DefineRuns, n \in 0..(VRegs - 1), kind \in Kind,
     kind.name \in aluNames \cup readNames, args \in Seq(VReg \cup Imm),
     \A j \in DOMAIN args : Known(c, args[j]),
     kind.name \in aluNames => Len(args) = 2
<1>3. Leads(c, t, d, u)
  BY <1>2
<1> HIDE DEF d, v
<1>4. /\ u \in Machine
      /\ u.env = [t.env EXCEPT ![v] = val]
      /\ u.reg = t.reg /\ u.mem = t.mem /\ u.status = t.status
      /\ u.zero = t.zero /\ u.negative = t.negative
  BY ONLY <1>1, <1>2, EnvSet, val \in Word
<1> HIDE DEF u
<1>5. t.env \in [VReg -> Word]
  BY <1>1, MachineFields
<1>6. /\ u.env[v] = val
      /\ \A x \in VReg : x # v => u.env[x] = t.env[x]
  BY ONLY <1>2, <1>4, <1>5
<1>7. Goes(c, t, d, u)
  <2>1. ASSUME NEW x, Known(c, x)
        PROVE  Known(d, x) /\ Val(u, x) = Val(t, x)
    BY <1>2, <1>6, <2>1 DEF Val, Known
  <2> QED
    BY <1>3, <2>1 DEF Goes
<1>8. Sim(d, u, R, n + 1)
  <2>1. c.at[cr] = NoReg
    BY <1>1 DEF Ready
  <2>2. Ready(d, u, n + 1)
    BY <1>1, <1>2, <1>4, <2>1 DEF Ready
  <2>3. ASSUME NEW r \in CachedReg
        PROVE  Shown(d, u, r) = R.reg[r]
    <3>1. Shown(c, t, r) = R.reg[r]
      BY DEF Sim
    <3>2. CASE c.at[r] = NoReg
      BY <1>2, <1>4, <3>1, <3>2 DEF Shown
    <3>3. CASE c.at[r] # NoReg
      <4>1. c.at[r] \in VReg /\ Known(c, c.at[r])
        BY <1>1, <3>3 DEF Ready, Open, Built, Known
      <4>2. u.env[c.at[r]] = t.env[c.at[r]]
        BY <1>2, <1>6, <4>1
      <4> QED
        BY <1>2, <3>1, <3>3, <4>2 DEF Shown
    <3> QED
      BY <3>2, <3>3
  <2> QED
    BY <1>1, <1>4, <2>2, <2>3 DEF Sim
<1>9. Val(u, v) = val
  BY <1>2, <1>6, ImmAssumption DEF Val
<1>10. Computes(c, t, d, u, R, n + 1, val)
  BY <1>2, <1>4, <1>7, <1>8, <1>9 DEF Computes, v
<1> QED
  BY <1>10 DEF d

LEMMA BinaryRuns ==
  ASSUME NEW c, NEW t, NEW R, NEW n \in 0..(VRegs - 1), Sim(c, t, R, n),
         NEW name \in arithNames, NEW wide \in BOOLEAN,
         NEW x, Known(c, x), x \in Imm => x \in Word,
         NEW y, Known(c, y), y \in Imm => y \in Word
  PROVE  \E u : Computes(c, t, emit_binary(c, name, wide, x, y), u, R, n + 1,
                         Emitted(name, wide, Val(t, x), Val(t, y)))
<1> DEFINE kind == AluOp(name, wide)
           args == <<x, y>>
           val  == Emitted(name, wide, Val(t, x), Val(t, y))
<1>1. t \in Machine
  BY DEF Sim, Ready
<1>2. val \in Word
  BY <1>1, ValIsWord, EmittedRange
<1>3. kind \in Kind /\ kind.name = name /\ kind.wide = wide /\ name \in aluNames
  <2>1. name \in aluNames
    BY DEF arithNames, aluNames
  <2>2. kind \in OpKinds
    BY <2>1 DEF OpKinds, AluOp
  <2> QED
    BY <2>1, <2>2, KindAssumption DEF AluOp
<1>4. args \in Seq(VReg \cup Imm) /\ Len(args) = 2 /\ args[1] = x /\ args[2] = y
  BY KnownIsOperand
<1>5. \A j \in DOMAIN args : Known(c, args[j])
  BY <1>4
<1>6. ASSUME NEW v \in VReg
      PROVE  Exec([kind |-> kind, dst |-> v, args |-> args], t) = [t EXCEPT !.env[v] = val]
  <2> DEFINE op == [kind |-> kind, dst |-> v, args |-> args]
  <2>1. op.kind = kind /\ op.dst = v /\ op.args = args
    OBVIOUS
  <2>2. op.args[1] = x /\ op.args[2] = y
    BY <1>4
  <2> HIDE DEF op, kind, args
  <2>3. Exec(op, t) = [t EXCEPT !.env[v] = val]
    BY ONLY <1>3, <2>1, <2>2, ExecAlu DEF val
  <2> QED
    BY <2>3 DEF op
<1>7. emit_binary(c, name, wide, x, y) = Define(c, kind, args)
  BY DEF emit_binary
<1> HIDE DEF kind, args, val
<1>8. \E u : Computes(c, t, Define(c, kind, args), u, R, n + 1, val)
  BY <1>2, <1>3, <1>4, <1>5, <1>6, ValueRuns
<1> QED
  BY <1>7, <1>8 DEF val

LEMMA RegIs ==
  /\ CachedReg \subseteq GuestReg /\ pc \in GuestReg /\ pc \notin CachedReg
  /\ {cr, lr, ctr, xer} \subseteq CachedReg
  /\ \A n \in Indices : Gpr(n) \in CachedReg \ {cr, lr, ctr, xer} /\ Vec(n) \in CachedReg \ {cr}
  /\ cr \notin {lr, ctr, xer, pc}
<1>1. /\ cr.id = "cr" /\ lr.id = "lr" /\ ctr.id = "ctr" /\ xer.id = "xer" /\ pc.id = "pc"
      /\ \A n \in Indices : Gpr(n).id = "gpr" /\ Vec(n).id = "vec"
  BY DEF Named, Gpr, Vec, cr, lr, ctr, xer, pc
<1>2. /\ {cr, lr, ctr, xer} \subseteq CachedReg
      /\ \A n \in Indices : Gpr(n) \in CachedReg /\ Vec(n) \in CachedReg
  BY Cached
<1>3. pc \notin CachedReg
  <2>1. \A r \in CachedReg : r.id \in {"gpr", "fpr", "vec", "cr", "lr", "ctr", "xer"}
    <3>1. \A id, n : Named(id, n).id = id
      BY DEF Named
    <3> QED
      BY <1>1, <3>1 DEF CachedReg
  <2> QED
    BY <1>1, <2>1
<1>4. CachedReg \subseteq GuestReg /\ pc \in GuestReg
  BY DEF GuestReg
<1> QED
  BY <1>1, <1>2, <1>3, <1>4

LEMMA GuestIds ==
  \A r \in GuestReg : r.id \in {"gpr", "fpr", "vec", "cr", "lr", "ctr", "xer", "pc"}
<1>1. \A id, n : Named(id, n).id = id
  BY DEF Named
<1> QED
  BY <1>1 DEF GuestReg, CachedReg, cr, lr, ctr, xer, pc

(* An intrinsic that gets something.                                       *)
LEMMA GetRuns ==
  ASSUME NEW c, NEW t, NEW R, NEW n \in 0..(VRegs - 1), Sim(c, t, R, n),
         NEW r, Get(r) \in Kind, GetValue(r, t) \in Word
  PROVE  \E u : Computes(c, t, Define(c, Get(r), <<>>), u, R, n + 1, GetValue(r, t))
<1> DEFINE kind == Get(r)
           args == <<>>
           val  == GetValue(r, t)
<1>1. kind.name = "get" /\ kind.reg = r
  BY DEF Get
<1>2. kind.name \in aluNames \cup readNames /\ kind.name \notin aluNames
  BY <1>1 DEF aluNames, readNames
<1>3. args \in Seq(VReg \cup Imm) /\ \A j \in DOMAIN args : Known(c, args[j])
  OBVIOUS
<1>4. ASSUME NEW v \in VReg
      PROVE  Exec([kind |-> kind, dst |-> v, args |-> args], t) = [t EXCEPT !.env[v] = val]
  <2> DEFINE op == [kind |-> kind, dst |-> v, args |-> args]
  <2>1. op.kind = kind /\ op.dst = v
    OBVIOUS
  <2> HIDE DEF op, kind, args
  <2>2. Exec(op, t) = [t EXCEPT !.env[v] = val]
    BY ONLY <1>1, <2>1, ExecGet DEF val
  <2> QED
    BY <2>2 DEF op
<1> HIDE DEF kind, args, val
<1>5. kind \in Kind /\ val \in Word
  BY DEF kind, val
<1>6. \E u : Computes(c, t, Define(c, kind, args), u, R, n + 1, val)
  BY <1>2, <1>3, <1>4, <1>5, ValueRuns
<1> QED
  BY <1>6 DEF kind, args, val

(* write_reg puts a known vreg in the place of the register.               *)
LEMMA WriteRuns ==
  ASSUME NEW c, NEW t, NEW R, NEW n, Sim(c, t, R, n),
         NEW r \in CachedReg \ {cr}, NEW v \in VReg, Known(c, v)
  PROVE  LET d == write_reg(c, r, v)
             S == [R EXCEPT !.reg[r] = Val(t, v)]
         IN  /\ Sim(d, t, S, n)
             /\ Goes(c, t, d, t)
             /\ Held(d, r)
             /\ \A q \in CachedReg : q # r => d.at[q] = c.at[q]
<1> DEFINE d == write_reg(c, r, v)
           S == [R EXCEPT !.reg[r] = Val(t, v)]
<1>1. /\ Ready(c, t, n) /\ Open(c, n) /\ t \in Machine /\ t.status = "run"
      /\ R \in Machine /\ R.mem = t.mem
  BY DEF Sim, Ready
<1>2. v # NoReg /\ v \notin Imm /\ Defined(c.ops, v)
  BY NoRegAssumption, ImmAssumption DEF Known
<1>3. /\ Open(d, n)
      /\ d.ops = c.ops
      /\ d.at = [c.at EXCEPT ![r] = v]
  BY ONLY <1>1, <1>2, RegWritten, r \in CachedReg \ {cr}, v \in VReg
<1>4. Val(t, v) \in Word /\ Val(t, v) = t.env[v]
  BY <1>1, <1>2, MachineFields DEF Val
<1>5. r \in GuestReg
  BY RegIs
<1> HIDE DEF d
<1>6. /\ S \in Machine
      /\ S.reg = [R.reg EXCEPT ![r] = Val(t, v)]
      /\ S.mem = R.mem
  BY <1>1, <1>4, <1>5, RegSet
<1> HIDE DEF S
<1>7. c.at \in [CachedReg -> VReg \cup {NoReg}] /\ R.reg \in [GuestReg -> Word]
  BY <1>1, MachineFields DEF Open, Built
<1>8. /\ d.at[r] = v
      /\ \A q \in CachedReg : q # r => d.at[q] = c.at[q]
  BY <1>3, <1>7
<1>9. Ready(d, t, n)
  <2>1. d.at[cr] = NoReg
    BY <1>1, <1>8, RegIs DEF Ready
  <2> QED
    BY <1>1, <1>3, <2>1 DEF Ready
<1>10. ASSUME NEW q \in CachedReg
       PROVE  Shown(d, t, q) = S.reg[q]
  <2>1. Shown(c, t, q) = R.reg[q] /\ q \in GuestReg
    BY RegIs DEF Sim
  <2>2. CASE q = r
    BY <1>2, <1>4, <1>5, <1>6, <1>7, <1>8, <2>2 DEF Shown
  <2>3. CASE q # r
    BY <1>6, <1>7, <1>8, <2>1, <2>3 DEF Shown
  <2> QED
    BY <2>2, <2>3
<1>11. Sim(d, t, S, n)
  BY <1>1, <1>6, <1>9, <1>10 DEF Sim
<1>12. Goes(c, t, d, t)
  <2>1. Len(c.ops) \in Nat
    BY <1>1 DEF Open, Built, IsSeq
  <2>2. Leads(c, t, d, t)
    BY <1>3, <2>1, LeadsNowhere
  <2> QED
    BY <1>3, <2>2 DEF Goes, Known
<1>13. Held(d, r)
  BY <1>2, <1>8 DEF Held
<1> QED
  BY <1>8, <1>11, <1>12, <1>13 DEF d, S

(* A held register is known by its vreg.                                   *)
LEMMA HeldValue ==
  ASSUME NEW c, NEW t, NEW R, NEW n, Sim(c, t, R, n), NEW r \in CachedReg, Held(c, r)
  PROVE  /\ c.at[r] \in VReg
         /\ Known(c, c.at[r])
         /\ Val(t, c.at[r]) = R.reg[r]
<1>1. Open(c, n) /\ Shown(c, t, r) = R.reg[r]
  BY DEF Sim, Ready
<1>2. c.at[r] # NoReg /\ c.at[r] \in VReg /\ Defined(c.ops, c.at[r])
  BY <1>1, HeldIsOperand
<1> QED
  BY <1>1, <1>2, ImmAssumption DEF Known, Val, Shown

LEMMA RegSame ==
  ASSUME NEW R \in Machine, NEW r \in GuestReg
  PROVE  [R EXCEPT !.reg[r] = R.reg[r]] = R
<1> DEFINE g == R.reg
           e == [g EXCEPT ![r] = g[r]]
<1>1. g \in [GuestReg -> Word]
  BY MachineFields
<1>2. e = g
  BY <1>1
<1>3. [R EXCEPT !.reg[r] = R.reg[r]] = [R EXCEPT !.reg = e]
  OBVIOUS
<1>4. R = [reg |-> R.reg, mem |-> R.mem, zero |-> R.zero, negative |-> R.negative,
           env |-> R.env, status |-> R.status]
  BY MachineFields
<1> HIDE DEF e
<1>5. [R EXCEPT !.reg = e] = R
  BY <1>2, <1>4 DEF g
<1> QED
  BY <1>3, <1>5

LEMMA GetIs ==
  ASSUME NEW r, NEW t
  PROVE  /\ r \in GuestReg => GetValue(r, t) = t.reg[r]
         /\ \A n : GetValue(Named("crbit", n), t) = BitOf(t.reg[cr], HostBit(n))
         /\ \A n : GetValue(Named("spr", n), t) = 0
<1>1. \A q \in GuestReg : q.id \notin {"crbit", "spr"}
  BY GuestIds
<1>2. ASSUME r \in GuestReg
      PROVE  GetValue(r, t) = t.reg[r]
  <2>1. r.id # "crbit"
    BY <1>1, <1>2
  <2> QED
    BY <1>2, <2>1 DEF GetValue
<1>3. ASSUME NEW n
      PROVE  /\ GetValue(Named("crbit", n), t) = BitOf(t.reg[cr], HostBit(n))
             /\ GetValue(Named("spr", n), t) = 0
  <2> DEFINE q == Named("crbit", n)
             s == Named("spr", n)
  <2>1. q.id = "crbit" /\ q.n = n /\ s.id = "spr" /\ q \notin GuestReg /\ s \notin GuestReg
    BY <1>1 DEF Named
  <2> HIDE DEF q, s
  <2>2. GetValue(q, t) = BitOf(t.reg[cr], HostBit(n)) /\ GetValue(s, t) = 0
    BY <2>1 DEF GetValue
  <2> QED
    BY <2>2 DEF q, s
<1> QED
  BY <1>2, <1>3

(* A register that is read is held, and nothing else changes.              *)
LEMMA ReadRuns ==
  ASSUME NEW c, NEW t, NEW R, NEW n \in 0..(VRegs - 1), Sim(c, t, R, n),
         NEW r \in CachedReg \ {cr}
  PROVE  LET d == read_reg(c, r)
         IN  \E u : /\ Sim(d, u, R, n + 1)
                    /\ Goes(c, t, d, u)
                    /\ Held(d, r)
                    /\ \A q \in CachedReg : Held(c, q) => d.at[q] = c.at[q]
<1> DEFINE d == read_reg(c, r)
<1>1. Ready(c, t, n) /\ Open(c, n) /\ t \in Machine /\ R \in Machine /\ n \in Nat
  BY RegsLimited DEF Sim, Ready
<1>2. Reads(c, d, r, n + 1)
  BY <1>1, RegRead
<1>3. CASE Held(c, r)
  <2>1. d = c
    BY <1>3 DEF read_reg, Held
  <2>2. Sim(c, t, R, n + 1)
    <3>1. Open(c, n + 1)
      BY <1>1, OpenLonger
    <3> QED
      BY <3>1 DEF Sim, Ready
  <2>3. Goes(c, t, c, t)
    <3>1. Len(c.ops) \in Nat
      BY <1>1 DEF Open, Built, IsSeq
    <3>2. Leads(c, t, c, t)
      BY <3>1, LeadsNowhere
    <3> QED
      BY <3>2 DEF Goes
  <2> QED
    BY <1>3, <2>1, <2>2, <2>3
<1>4. CASE ~Held(c, r)
  <2> DEFINE e == Define(c, Get(r), <<>>)
             v == Result(e)
  <2>1. d = write_reg(e, r, v)
    BY <1>4 DEF read_reg, write_reg, Held
  <2>2. r \in GuestReg /\ GetValue(r, t) = t.reg[r] /\ t.reg[r] \in Word
    BY <1>1, RegIs, GetIs, MachineFields
  <2>3. Get(r) \in Kind
    <3>1. Get(r) \in OpKinds
      BY DEF OpKinds, Get
    <3> QED
      BY <3>1, KindAssumption
  <2>4. PICK u : Computes(c, t, e, u, R, n + 1, t.reg[r])
    BY <2>2, <2>3, GetRuns
  <2> HIDE DEF e
  <2>5. /\ Sim(e, u, R, n + 1) /\ Goes(c, t, e, u)
        /\ v \in VReg /\ Known(e, v) /\ Val(u, v) = t.reg[r] /\ e.at = c.at
    BY <2>4 DEF Computes
  <2> HIDE DEF v, d
  <2>6. /\ Sim(d, u, [R EXCEPT !.reg[r] = Val(u, v)], n + 1)
        /\ Goes(e, u, d, u)
        /\ Held(d, r)
        /\ \A q \in CachedReg : q # r => d.at[q] = e.at[q]
    BY ONLY <2>1, <2>5, WriteRuns, r \in CachedReg \ {cr}
  <2>7. R.reg[r] = t.reg[r]
    BY <1>4 DEF Sim, Shown, Held
  <2>8. [R EXCEPT !.reg[r] = Val(u, v)] = R
    BY <1>1, <2>2, <2>5, <2>7, RegSame
  <2>9. Goes(c, t, d, u)
    BY <2>5, <2>6, GoesOn
  <2>10. \A q \in CachedReg : Held(c, q) => d.at[q] = c.at[q]
    BY <1>4, <2>5, <2>6 DEF Held
  <2> QED
    BY <2>6, <2>8, <2>9, <2>10 DEF d
<1> QED
  BY <1>3, <1>4

-----------------------------------------------------------------------------
(* The bits and the fields of CR.                                          *)

LEMMA CrPlaces ==
  /\ CrBits \in 4..WideBits
  /\ \A k \in 0..(CrBits - 1) : HostBit(k) \in 0..(WideBits - 1)
  /\ \A f \in 0..((CrBits - 1) \div 4) :
       FieldShift(f) \in 0..WideBits /\ FieldShift(f) + 4 <= WideBits
<1>1. CrBits \in 4..WideBits /\ CrBits % 4 = 0
  BY WidthAssumption
<1>2. ASSUME NEW f \in 0..((CrBits - 1) \div 4)
      PROVE  4 * f + 4 <= CrBits
  <2> DEFINE q == CrBits \div 4
             h == (CrBits - 1) \div 4
             r == (CrBits - 1) % 4
  <2>1. CrBits = 4 * q /\ q \in Int
    BY <1>1
  <2>2. CrBits - 1 = 4 * h + r /\ r \in 0..3 /\ h \in Int
    BY <1>1
  <2>3. f <= h /\ f \in Nat
    BY <1>2
  <2> HIDE DEF q, h, r
  <2>4. h < q
    BY <2>1, <2>2
  <2> QED
    BY <2>1, <2>3, <2>4
<1> QED
  <2>1. ASSUME NEW k \in 0..(CrBits - 1)
        PROVE  HostBit(k) \in 0..(WideBits - 1)
    BY <1>1, BitsAssumption DEF HostBit
  <2>2. ASSUME NEW f \in 0..((CrBits - 1) \div 4)
        PROVE  FieldShift(f) \in 0..WideBits /\ FieldShift(f) + 4 <= WideBits
    <3>1. f \in Nat /\ 4 * f + 4 <= CrBits
      BY <1>1, <1>2
    <3> QED
      BY ONLY <1>1, <3>1, BitsAssumption DEF FieldShift
  <2> QED
    BY <1>1, <2>1, <2>2

(* The quotient of a bounded number.                                       *)
LEMMA HighPart ==
  ASSUME NEW d \in Nat \ {0}, NEW e \in Nat \ {0}, NEW h \in Int, NEW r \in 0..(d - 1),
         h * d + r \in 0..(d * e - 1)
  PROVE  h \in 0..(e - 1)
<1>1. ASSUME h < 0
      PROVE  FALSE
  <2>1. h * d <= - d
    BY <1>1
  <2> QED
    BY <2>1
<1>2. ASSUME h >= e
      PROVE  FALSE
  <2>1. h * d >= e * d
    BY <1>2
  <2> QED
    BY <2>1
<1> QED
  BY <1>1, <1>2

LEMMA WithFieldIsWord ==
  ASSUME NEW x \in Word, NEW f \in 0..((CrBits - 1) \div 4), NEW v \in Int
  PROVE  WithField(x, f, v) \in Word
<1> DEFINE k == FieldShift(f)
           d == 2 ^ k
           e == 2 ^ (WideBits - (k + 4))
           q == x \div d
           l == x % d
           h == q \div 16
           g == q % 16
<1>1. k \in 0..WideBits /\ k + 4 <= WideBits
  BY CrPlaces
<1> HIDE DEF k
<1>2. d \in Nat \ {0} /\ e \in Nat \ {0} /\ 2 ^ WideBits = 16 * d * e
  <2>1. /\ k + 4 \in Nat /\ WideBits - (k + 4) \in Nat
        /\ (k + 4) + (WideBits - (k + 4)) = WideBits /\ WideBits <= WideBits + 1
        /\ k + 4 <= WideBits + 1
    BY <1>1, BitsAssumption
  <2>2. 2 ^ WideBits = 2 ^ (k + 4) * e
    BY <2>1, PowerSum
  <2>3. 2 ^ (k + 4) = d * 2 ^ 4
    <3>1. k \in Nat /\ 4 \in Nat /\ k + 4 <= WideBits + 1
      BY <1>1, <2>1
    <3> QED
      BY ONLY <3>1, PowerSum
  <2>4. 2 ^ 4 = 16
    <3>1. 0 \in 0..WideBits /\ 1 \in 0..WideBits /\ 2 \in 0..WideBits /\ 3 \in 0..WideBits
      BY <1>1, BitsAssumption
    <3>2. /\ 2 ^ (0 + 1) = 2 * 2 ^ 0 /\ 2 ^ (1 + 1) = 2 * 2 ^ 1
          /\ 2 ^ (2 + 1) = 2 * 2 ^ 2 /\ 2 ^ (3 + 1) = 2 * 2 ^ 3
      BY ONLY <3>1, PowerAssumption
    <3>3. 0 + 1 = 1 /\ 1 + 1 = 2 /\ 2 + 1 = 3 /\ 3 + 1 = 4
      OBVIOUS
    <3> QED
      BY <3>2, <3>3, PowerAssumption
  <2>5. d \in Nat \ {0} /\ e \in Nat \ {0}
    BY <1>1, Power, BitsAssumption
  <2> QED
    BY <2>2, <2>3, <2>4, <2>5
<1> HIDE DEF d, e
<1>3. x \in 0..(16 * d * e - 1)
  BY <1>2 DEF Word
<1>4. x = q * d + l /\ l \in 0..(d - 1) /\ q \in Int
  BY <1>2, <1>3, Divides
<1> HIDE DEF q, l
<1>5. q = h * 16 + g /\ g \in 0..15 /\ h \in Int
  BY <1>4
<1>6. WithField(x, f, v) = x - g * d + (v % 16) * d
  BY DEF WithField, d, k, q, g
<1> HIDE DEF h, g
<1>7. v % 16 \in 0..15
  OBVIOUS
<1> DEFINE w == v % 16
           D == 16 * d
<1> HIDE DEF w
<1>8. x = h * D + (g * d + l) /\ D \in Nat \ {0} /\ x \in 0..(D * e - 1)
  BY <1>2, <1>3, <1>4, <1>5
<1>9. g * d + l \in 0..(D - 1) /\ w * d + l \in 0..(D - 1)
  <2>1. \A j \in 0..15 : j * d \in 0..(15 * d)
    BY <1>2
  <2>2. g * d \in 0..(15 * d) /\ w * d \in 0..(15 * d)
    BY <1>5, <1>7, <2>1 DEF w
  <2> QED
    BY <1>2, <1>4, <2>2
<1>10. WithField(x, f, v) = h * D + (w * d + l)
  BY <1>2, <1>4, <1>5, <1>6, <1>7, <1>8 DEF w
<1> HIDE DEF D
<1>11. h \in 0..(e - 1)
  <2> DEFINE r == g * d + l
  <2>1. r \in 0..(D - 1) /\ h * D + r \in 0..(D * e - 1)
    BY <1>8, <1>9
  <2> HIDE DEF r
  <2> QED
    BY ONLY <1>2, <1>5, <1>8, <2>1, HighPart
<1>12. h * D \in 0..((e - 1) * D)
  BY <1>2, <1>8, <1>11
<1>13. WithField(x, f, v) \in 0..(e * D - 1)
  BY <1>2, <1>8, <1>9, <1>10, <1>12
<1> QED
  BY <1>2, <1>13 DEF Word, D

LEMMA CrBitRuns ==
  ASSUME NEW c, NEW t, NEW R, NEW n \in 0..(VRegs - 1), Sim(c, t, R, n),
         NEW k \in 0..(CrBits - 1)
  PROVE  /\ \E u : Computes(c, t, emit_get_cr_bit(c, k), u, R, n + 1,
                            BitOf(R.reg[cr], HostBit(k)))
         /\ BitOf(R.reg[cr], HostBit(k)) \in 0..1
<1> DEFINE q   == Named("crbit", k)
           val == BitOf(R.reg[cr], HostBit(k))
<1>1. R \in Machine /\ t \in Machine /\ c.at[cr] = NoReg /\ cr \in CachedReg /\ cr \in GuestReg
  BY RegIs DEF Sim, Ready
<1>2. t.reg[cr] = R.reg[cr] /\ R.reg[cr] \in Word
  BY <1>1, MachineFields DEF Sim, Shown
<1>3. val \in 0..1 /\ val \in Word
  <2>1. R.reg[cr] \in Int /\ HostBit(k) \in 0..WideBits
    BY <1>2, CrPlaces, BitsAssumption DEF Word
  <2>2. val \in 0..1
    BY <2>1, BitRange
  <2> QED
    BY <2>2, SmallWords
<1>4. GetValue(q, t) = val
  BY <1>2, GetIs
<1>5. Get(q) \in Kind
  <2>1. Get(q) \in OpKinds
    BY DEF OpKinds, Get
  <2> QED
    BY <2>1, KindAssumption
<1> HIDE DEF q, val
<1>6. \E u : Computes(c, t, Define(c, Get(q), <<>>), u, R, n + 1, val)
  BY <1>3, <1>4, <1>5, GetRuns
<1> QED
  BY <1>3, <1>6 DEF emit_get_cr_bit, q, val

LEMMA CrFieldRuns ==
  ASSUME NEW c, NEW t, NEW R, NEW n \in Nat, Sim(c, t, R, n),
         NEW f \in 0..((CrBits - 1) \div 4), NEW v \in VReg, Known(c, v)
  PROVE  LET d == emit_set_cr_field(c, f, v)
         IN  \E u : /\ Sim(d, u, [R EXCEPT !.reg[cr] = WithField(@, f, Val(t, v))], n)
                    /\ Goes(c, t, d, u)
<1> DEFINE q    == Named("crfield", f)
           kind == Set(q)
           args == <<v>>
           p    == Push(c, kind, args)
           d    == emit_set_cr_field(c, f, v)
           x    == WithField(R.reg[cr], f, Val(t, v))
           u    == [t EXCEPT !.reg[cr] = x]
           S    == [R EXCEPT !.reg[cr] = x]
<1>1. /\ Ready(c, t, n) /\ Open(c, n) /\ t \in Machine /\ t.status = "run"
      /\ R \in Machine /\ R.mem = t.mem /\ c.at[cr] = NoReg
  BY DEF Sim, Ready
<1>2. cr \in CachedReg /\ cr \in GuestReg
  BY RegIs
<1>3. t.reg[cr] = R.reg[cr] /\ R.reg[cr] \in Word
  BY <1>1, <1>2, MachineFields DEF Sim, Shown
<1>4. Val(t, v) \in Word /\ v \notin Imm
  BY <1>1, ImmAssumption, ValIsWord
<1>5. x \in Word
  <2>1. Val(t, v) \in Int
    BY <1>4 DEF Word
  <2> QED
    BY <1>3, <2>1, WithFieldIsWord
<1>6. kind \in Kind /\ kind.name = "set" /\ kind.reg = q
  <2>1. kind \in OpKinds
    BY DEF OpKinds, Set
  <2> QED
    BY <2>1, KindAssumption DEF Set
<1>7. args \in Seq(VReg \cup Imm) /\ args # <<>> /\ args[1] = v
      /\ \A j \in DOMAIN args : Known(c, args[j])
  OBVIOUS
<1>8. SetRegs(q, t, Val(t, v)) = [t.reg EXCEPT ![cr] = x]
  <2>1. q.id = "crfield" /\ q.n = f /\ q \notin GuestReg
    <3>1. q.id = "crfield" /\ q.n = f
      BY DEF Named
    <3> QED
      BY <3>1, GuestIds
  <2> HIDE DEF q
  <2> QED
    BY <1>3, <2>1 DEF SetRegs
<1>9. Exec([kind |-> kind, dst |-> NoReg, args |-> args], t) = u
  <2> DEFINE op == [kind |-> kind, dst |-> NoReg, args |-> args]
  <2>1. op.kind = kind /\ op.args = args
    OBVIOUS
  <2>2. u = [t EXCEPT !.reg = [t.reg EXCEPT ![cr] = x]]
    OBVIOUS
  <2> HIDE DEF op, kind, args, x, u, q
  <2>3. Exec(op, t) = u
    BY ONLY <1>6, <1>7, <1>8, <2>1, <2>2, ExecSet
  <2> QED
    BY <2>3 DEF op
<1>10. d = write_reg(p, cr, NoReg)
  BY DEF emit_set_cr_field
<1> HIDE DEF kind, args
<1>11. /\ Leads(c, t, p, Exec([kind |-> kind, dst |-> NoReg, args |-> args], t))
       /\ p.at = c.at /\ AllOps(p.ops)
       /\ \A y : Known(c, y) => Known(p, y)
       /\ Open(p, n)
  <2>1. kind.name \in effectNames /\ kind.name \notin exitNames
    BY <1>6 DEF effectNames, exitNames
  <2> QED
    BY ONLY <1>1, <1>6, <1>7, <2>1, PushRuns, n \in Nat
<1> HIDE DEF p, d
<1>12. Open(d, n) /\ d.ops = p.ops /\ d.at = [c.at EXCEPT ![cr] = NoReg]
  BY <1>2, <1>10, <1>11, RegWritten
<1> HIDE DEF x
<1>13. /\ u \in Machine /\ u.reg = [t.reg EXCEPT ![cr] = x]
       /\ u.env = t.env /\ u.mem = t.mem /\ u.status = t.status
  BY <1>1, <1>2, <1>5, RegSet
<1>14. S \in Machine /\ S.reg = [R.reg EXCEPT ![cr] = x] /\ S.mem = R.mem
  BY <1>1, <1>2, <1>5, RegSet
<1> HIDE DEF u, S
<1>15. /\ t.reg \in [GuestReg -> Word] /\ R.reg \in [GuestReg -> Word]
       /\ c.at \in [CachedReg -> VReg \cup {NoReg}]
  BY <1>1, MachineFields DEF Open, Built
<1>16. d.at = c.at
  BY <1>1, <1>2, <1>12, <1>15
<1>17. Ready(d, u, n)
  BY <1>1, <1>11, <1>12, <1>13, <1>16 DEF Ready
<1>18. ASSUME NEW r \in CachedReg
       PROVE  Shown(d, u, r) = S.reg[r]
  <2>1. Shown(c, t, r) = R.reg[r] /\ r \in GuestReg
    BY RegIs DEF Sim
  <2>2. CASE r = cr
    BY <1>1, <1>2, <1>13, <1>14, <1>15, <1>16, <2>2 DEF Shown
  <2>3. CASE r # cr
    BY <1>13, <1>14, <1>15, <1>16, <2>1, <2>3 DEF Shown
  <2> QED
    BY <2>2, <2>3
<1>19. Sim(d, u, S, n)
  BY <1>1, <1>13, <1>14, <1>17, <1>18 DEF Sim
<1>20. Leads(c, t, d, u)
  BY <1>9, <1>11, <1>12 DEF Leads
<1>21. Goes(c, t, d, u)
  BY <1>11, <1>12, <1>13, <1>20 DEF Goes, Known, Val
<1>22. S = [R EXCEPT !.reg[cr] = WithField(@, f, Val(t, v))]
  BY DEF S, x
<1> QED
  BY <1>19, <1>21, <1>22 DEF d

-----------------------------------------------------------------------------
(* The flags of a result, and field 0 of CR made of them.                  *)

ZeroOf(x) == IF x = 0 THEN 1 ELSE 0
SignOf(x) == IF x >= 2 ^ (NarrowBits - 1) THEN 1 ELSE 0

LEMMA FlagsOf ==
  ASSUME NEW x \in 0..(2 ^ NarrowBits - 1)
  PROVE  /\ Emitted("and", FALSE, x, 2 ^ WideBits - 1) = x
         /\ BitOf(x, NarrowBits - 1) = SignOf(x)
         /\ Emitted("or", FALSE, Emitted("shl", FALSE, ZeroOf(x), 2), SignOf(x))
              = ZeroOf(x) * 4 + SignOf(x)
<1>1. /\ NarrowBits \in 0..WideBits /\ NarrowBits \in 1..WideBits /\ 4 <= NarrowBits
      /\ 3 <= WideBits /\ WideBits = 2 * NarrowBits /\ 4 \in 0..NarrowBits
  BY Widths, WidthAssumption, BitsAssumption
<1>2. Trunc(x, NarrowBits) = x
  BY <1>1, TruncFacts
<1>3. Trunc(2 ^ WideBits - 1, NarrowBits) = 2 ^ NarrowBits - 1
  BY <1>1, OnesTruncated
<1>4. Alu("and", NarrowBits, x, 2 ^ NarrowBits - 1) = x
  BY <1>1, AndOfOnes
<1>5. Emitted("and", FALSE, x, 2 ^ WideBits - 1) = x
  BY <1>2, <1>3, <1>4 DEF Emitted
<1>6. BitOf(x, NarrowBits - 1) = SignOf(x)
  BY <1>1, TopBitOf DEF SignOf
<1>7. ZeroOf(x) \in 0..1 /\ SignOf(x) \in 0..1
  BY DEF ZeroOf, SignOf
<1> DEFINE z == ZeroOf(x)
           g == SignOf(x)
<1> HIDE DEF z, g
<1>8. Emitted("shl", FALSE, z, 2) = z * 4
  BY <1>1, <1>7, ShiftedFlag DEF z
<1>9. Trunc(z * 4, NarrowBits) = z * 4 /\ Trunc(g, NarrowBits) = g
  <2>1. 2 ^ 4 <= 2 ^ NarrowBits /\ 2 ^ NarrowBits \in Nat /\ 2 ^ 4 = 16
    BY <1>1, PowerGrows, SmallPowers
  <2>2. /\ z * 4 \in 0..(2 ^ NarrowBits - 1) /\ g \in 0..(2 ^ NarrowBits - 1)
        /\ z * 4 \in Int /\ g \in Int
    BY <2>1, <1>7 DEF z, g
  <2> QED
    BY ONLY <1>1, <2>2, TruncFacts
<1>10. Alu("or", NarrowBits, z * 4, g) = z * 4 + g
  BY <1>1, <1>7, FlagPair DEF z, g
<1>11. Emitted("or", FALSE, z * 4, g) = z * 4 + g
  BY <1>9, <1>10 DEF Emitted
<1> QED
  BY <1>5, <1>6, <1>8, <1>11 DEF z, g

LEMMA FlagsRun ==
  ASSUME NEW c, NEW t, NEW R, NEW n \in Nat, Sim(c, t, R, n),
         NEW x \in VReg, Known(c, x), Val(t, x) \in 0..(2 ^ NarrowBits - 1)
  PROVE  LET d == Push(c, [name |-> "setflags", wide |-> FALSE], <<x, 2 ^ WideBits - 1>>)
         IN  \E u : /\ Sim(d, u, R, n)
                    /\ Goes(c, t, d, u)
                    /\ d.at = c.at
                    /\ u.zero = ZeroOf(Val(t, x)) /\ u.negative = SignOf(Val(t, x))
<1> DEFINE kind == [name |-> "setflags", wide |-> FALSE]
           ones == 2 ^ WideBits - 1
           args == <<x, ones>>
           X    == Val(t, x)
           d    == Push(c, kind, args)
           u    == [t EXCEPT !.zero = ZeroOf(X), !.negative = SignOf(X)]
<1>1. /\ Ready(c, t, n) /\ Open(c, n) /\ t \in Machine /\ t.status = "run"
      /\ R \in Machine /\ R.mem = t.mem /\ c.at[cr] = NoReg
  BY DEF Sim, Ready
<1>2. ones \in Imm /\ Known(c, ones) /\ Val(t, ones) = ones
  <2>1. ones \in Imm
    BY SmallWords, LiteralAssumption
  <2> QED
    BY <2>1 DEF Known, Val
<1>3. kind \in Kind /\ kind.name = "setflags" /\ kind.wide = FALSE
  <2>1. kind \in OpKinds
    BY DEF OpKinds
  <2> QED
    BY <2>1, KindAssumption
<1> HIDE DEF ones
<1>4. args \in Seq(VReg \cup Imm) /\ args[1] = x /\ args[2] = ones
      /\ \A j \in DOMAIN args : Known(c, args[j])
  BY <1>2
<1>5. Emitted("and", FALSE, X, ones) = X /\ BitOf(X, NarrowBits - 1) = SignOf(X)
  BY FlagsOf DEF ones
<1>6. Exec([kind |-> kind, dst |-> NoReg, args |-> args], t) = u
  <2> DEFINE op == [kind |-> kind, dst |-> NoReg, args |-> args]
  <2>1. op.kind = kind /\ op.args = args
    OBVIOUS
  <2>2. u = [t EXCEPT !.zero = IF X = 0 THEN 1 ELSE 0, !.negative = SignOf(X)]
    BY DEF ZeroOf
  <2>3. Val(t, args[1]) = X /\ Val(t, args[2]) = ones
    BY <1>2, <1>4
  <2> HIDE DEF op, kind, args, u, X
  <2>4. Exec(op, t) = [t EXCEPT !.zero = IF Emitted("and", FALSE, Val(t, op.args[1]),
                                                    Val(t, op.args[2])) = 0 THEN 1 ELSE 0,
                                !.negative = BitOf(Emitted("and", FALSE, Val(t, op.args[1]),
                                                           Val(t, op.args[2])),
                                                   NarrowBits - 1)]
    BY ONLY <1>3, <2>1, ExecSetFlags
  <2>5. Exec(op, t) = u
    BY ONLY <1>5, <2>1, <2>2, <2>3, <2>4
  <2> QED
    BY <2>5 DEF op
<1> HIDE DEF kind, args
<1>7. /\ Leads(c, t, d, Exec([kind |-> kind, dst |-> NoReg, args |-> args], t))
      /\ d.at = c.at /\ AllOps(d.ops)
      /\ \A y : Known(c, y) => Known(d, y)
      /\ Open(d, n)
  <2>1. kind.name \in effectNames /\ kind.name \notin exitNames
    BY <1>3 DEF effectNames, exitNames
  <2> QED
    BY ONLY <1>1, <1>3, <1>4, <2>1, PushRuns, n \in Nat
<1> HIDE DEF X
<1>8. ZeroOf(X) \in 0..1 /\ SignOf(X) \in 0..1
  BY DEF ZeroOf, SignOf
<1>9. /\ u \in Machine /\ u.reg = t.reg /\ u.env = t.env /\ u.mem = t.mem
      /\ u.status = t.status /\ u.zero = ZeroOf(X) /\ u.negative = SignOf(X)
  <2> DEFINE z == ZeroOf(X)
             g == SignOf(X)
  <2>1. z \in 0..1 /\ g \in 0..1
    BY <1>8
  <2> HIDE DEF z, g
  <2>2. LET v == [t EXCEPT !.zero = z, !.negative = g]
        IN  /\ v \in Machine /\ v.reg = t.reg /\ v.env = t.env /\ v.mem = t.mem
            /\ v.status = t.status /\ v.zero = z /\ v.negative = g
    BY <1>1, <2>1 DEF Machine
  <2> QED
    BY <2>2 DEF z, g
<1> HIDE DEF d, u
<1>10. Ready(d, u, n)
  BY <1>1, <1>7, <1>9 DEF Ready
<1>11. Sim(d, u, R, n)
  BY <1>1, <1>7, <1>9, <1>10 DEF Sim, Shown
<1>12. Goes(c, t, d, u)
  BY <1>6, <1>7, <1>9 DEF Goes, Val
<1> QED
  BY <1>7, <1>9, <1>11, <1>12 DEF d, kind, args, ones, X

LEMMA ReadFlagRuns ==
  ASSUME NEW c, NEW t, NEW R, NEW n \in 0..(VRegs - 1), Sim(c, t, R, n),
         NEW flag \in {"zero", "negative"}
  PROVE  \E u : Computes(c, t, Define(c, [name |-> "readflag", flag |-> flag], <<>>), u, R,
                         n + 1, t[flag])
<1> DEFINE kind == [name |-> "readflag", flag |-> flag]
           args == <<>>
           val  == t[flag]
<1>1. t \in Machine
  BY DEF Sim, Ready
<1>2. val \in Word
  <2>1. t.zero \in 0..1 /\ t.negative \in 0..1
    BY <1>1, MachineFields
  <2>2. val \in 0..1
    BY <2>1
  <2> QED
    BY <2>2, SmallWords
<1>3. kind \in Kind /\ kind.name = "readflag" /\ kind.flag = flag
  <2>1. kind \in OpKinds
    BY DEF OpKinds
  <2> QED
    BY <2>1, KindAssumption
<1>4. /\ args \in Seq(VReg \cup Imm)
      /\ \A j \in DOMAIN args : Known(c, args[j])
  OBVIOUS
<1>5. kind.name \in aluNames \cup readNames /\ kind.name \notin aluNames
  BY <1>3 DEF readNames, aluNames
<1>6. \A v \in VReg : Exec([kind |-> kind, dst |-> v, args |-> args], t)
                         = [t EXCEPT !.env[v] = val]
  <2> TAKE v \in VReg
  <2> DEFINE op == [kind |-> kind, dst |-> v, args |-> args]
  <2>1. op.kind = kind /\ op.dst = v
    OBVIOUS
  <2> HIDE DEF op, kind, args
  <2>2. Exec(op, t) = [t EXCEPT !.env[v] = val]
    BY ONLY <1>3, <2>1, ExecReadFlag DEF val
  <2> QED
    BY <2>2 DEF op
<1> HIDE DEF kind, args, val
<1>7. \E u : Computes(c, t, Define(c, kind, args), u, R, n + 1, val)
  BY <1>2, <1>3, <1>4, <1>5, <1>6, ValueRuns
<1> QED
  BY <1>7 DEF kind, args, val

(* From here on, a builder and machine that did some ops know the guest R. *)
LEMMA RecordRuns ==
  ASSUME NEW c, NEW t, NEW R, NEW n \in Nat, n + 4 <= VRegs, Sim(c, t, R, n),
         NEW x \in VReg, Known(c, x), Val(t, x) \in 0..(2 ^ NarrowBits - 1)
  PROVE  LET d == emit_rc0_from_result(c, x, FALSE)
         IN  \E u : /\ Sim(d, u, [R EXCEPT !.reg[cr] = Cr0(R, Val(t, x))], n + 4)
                    /\ Goes(c, t, d, u)
<1> DEFINE X == Val(t, x)
           f == Push(c, [name |-> "setflags", wide |-> FALSE], <<x, 2 ^ WideBits - 1>>)
           z == Define(f, [name |-> "readflag", flag |-> "zero"], <<>>)
           g == Define(z, [name |-> "readflag", flag |-> "negative"], <<>>)
           s == emit_binary(g, "shl", FALSE, Result(z), 2)
           o == emit_binary(s, "or", FALSE, Result(s), Result(g))
           d == emit_rc0_from_result(c, x, FALSE)
<1>1. d = emit_set_cr_field(o, 0, Result(o))
  BY DEF emit_rc0_from_result
<1>2. /\ n \in 0..(VRegs - 1) /\ n + 1 \in 0..(VRegs - 1)
      /\ n + 2 \in 0..(VRegs - 1) /\ n + 3 \in 0..(VRegs - 1) /\ n + 4 \in Nat
      /\ (n + 1) + 1 = n + 2 /\ (n + 2) + 1 = n + 3 /\ (n + 3) + 1 = n + 4
  BY RegsLimited
<1>3. 2 \in Word /\ 2 \in Imm
  BY SmallWords, LiteralAssumption
<1>4. VReg \cap Imm = {}
  BY ImmAssumption
<1> HIDE DEF f, z, g, s, o, d
<1>5. PICK u1 : /\ Sim(f, u1, R, n) /\ Goes(c, t, f, u1)
                /\ u1.zero = ZeroOf(X) /\ u1.negative = SignOf(X)
  BY FlagsRun DEF f
<1>6. PICK u2 : Computes(f, u1, z, u2, R, n + 1, u1.zero)
  BY <1>2, <1>5, ReadFlagRuns DEF z
<1>7. Sim(z, u2, R, n + 1) /\ Goes(f, u1, z, u2)
      /\ Result(z) \in VReg /\ Known(z, Result(z)) /\ Val(u2, Result(z)) = ZeroOf(X)
      /\ u2.negative = SignOf(X)
  BY <1>5, <1>6 DEF Computes
<1>8. PICK u3 : Computes(z, u2, g, u3, R, n + 2, u2.negative)
  BY <1>2, <1>7, ReadFlagRuns DEF g
<1>9. Sim(g, u3, R, n + 2) /\ Goes(z, u2, g, u3)
      /\ Result(g) \in VReg /\ Known(g, Result(g)) /\ Val(u3, Result(g)) = SignOf(X)
  BY <1>7, <1>8 DEF Computes
<1>10. Known(g, Result(z)) /\ Val(u3, Result(z)) = ZeroOf(X)
  BY <1>7, <1>9 DEF Goes
<1>11. Known(g, 2) /\ Val(u3, 2) = 2
  BY <1>3 DEF Known, Val
<1>12. PICK u4 : Computes(g, u3, s, u4, R, n + 3, Emitted("shl", FALSE, ZeroOf(X), 2))
  <2>1. "shl" \in arithNames /\ FALSE \in BOOLEAN
    BY DEF arithNames
  <2>2. Result(z) \in Imm => Result(z) \in Word
    BY <1>4, <1>7
  <2>3. \E u : Computes(g, u3, emit_binary(g, "shl", FALSE, Result(z), 2), u, R, (n + 2) + 1,
                        Emitted("shl", FALSE, Val(u3, Result(z)), Val(u3, 2)))
    BY ONLY <1>2, <1>3, <1>9, <1>10, <1>11, <2>1, <2>2, BinaryRuns
  <2> QED
    BY <1>2, <1>10, <1>11, <2>3 DEF s
<1>13. Sim(s, u4, R, n + 3) /\ Goes(g, u3, s, u4)
      /\ Result(s) \in VReg /\ Known(s, Result(s))
      /\ Val(u4, Result(s)) = Emitted("shl", FALSE, ZeroOf(X), 2)
  BY <1>12 DEF Computes
<1>14. Known(s, Result(g)) /\ Val(u4, Result(g)) = SignOf(X)
  BY <1>9, <1>13 DEF Goes
<1>15. PICK u5 : Computes(s, u4, o, u5, R, n + 4,
                          Emitted("or", FALSE, Emitted("shl", FALSE, ZeroOf(X), 2), SignOf(X)))
  <2>1. "or" \in arithNames /\ FALSE \in BOOLEAN
    BY DEF arithNames
  <2>2. (Result(s) \in Imm => Result(s) \in Word) /\ (Result(g) \in Imm => Result(g) \in Word)
    BY <1>4, <1>9, <1>13
  <2>3. \E u : Computes(s, u4, emit_binary(s, "or", FALSE, Result(s), Result(g)), u, R,
                        (n + 3) + 1,
                        Emitted("or", FALSE, Val(u4, Result(s)), Val(u4, Result(g))))
    BY ONLY <1>2, <1>13, <1>14, <2>1, <2>2, BinaryRuns
  <2> QED
    BY <1>2, <1>13, <1>14, <2>3 DEF o
<1>16. Sim(o, u5, R, n + 4) /\ Goes(s, u4, o, u5)
       /\ Result(o) \in VReg /\ Known(o, Result(o))
       /\ Val(u5, Result(o)) = ZeroOf(X) * 4 + SignOf(X)
  BY <1>15, FlagsOf DEF Computes
<1>17. 0 \in 0..((CrBits - 1) \div 4)
  BY CrPlaces, BitsAssumption
<1>18. PICK u6 : /\ Sim(d, u6, [R EXCEPT !.reg[cr] = WithField(@, 0, Val(u5, Result(o)))], n + 4)
                 /\ Goes(o, u5, d, u6)
  BY <1>1, <1>2, <1>16, <1>17, CrFieldRuns
<1>19. Cr0(R, X) = WithField(R.reg[cr], 0, ZeroOf(X) * 4 + SignOf(X))
  BY DEF Cr0, ZeroOf, SignOf
<1>20. Sim(d, u6, [R EXCEPT !.reg[cr] = Cr0(R, X)], n + 4)
  BY <1>16, <1>18, <1>19
<1>21. Goes(c, t, g, u3)
  BY <1>5, <1>7, <1>9, GoesOn
<1>22. Goes(c, t, d, u6)
  BY <1>13, <1>16, <1>18, <1>21, GoesOn
<1> QED
  BY <1>20, <1>22 DEF d, X

-----------------------------------------------------------------------------
(* Registers read, written and recorded.                                   *)

(* From c and t the ops of d reach a machine that knows the guest S.       *)
Does(c, t, d, S, n) == \E u : Sim(d, u, S, n) /\ Goes(c, t, d, u)

LEMMA SimGrows ==
  ASSUME NEW c, NEW t, NEW R, NEW n \in Nat, NEW k \in Nat, n <= k, Sim(c, t, R, n)
  PROVE  Sim(c, t, R, k)
BY OpenLonger DEF Sim, Ready

LEMMA DoesOn ==
  ASSUME NEW c, NEW t, NEW d, NEW u, NEW e, NEW S, NEW n,
         Goes(c, t, d, u), Does(d, u, e, S, n)
  PROVE  Does(c, t, e, S, n)
BY GoesOn DEF Does

LEMMA SimGoes ==
  ASSUME NEW c, NEW t, NEW R, NEW n, Sim(c, t, R, n)
  PROVE  Goes(c, t, c, t)
<1>1. IsSeq(c.ops)
  BY DEF Sim, Ready, Open, Built
<1>2. Len(c.ops) \in Nat
  BY <1>1 DEF IsSeq
<1> QED
  BY <1>2, LeadsNowhere DEF Goes

(* A register that is read is an operand with its value.                   *)
RegKnown(c, t, d, u, R, n, r) ==
  /\ Sim(d, u, R, n)
  /\ Goes(c, t, d, u)
  /\ Held(d, r)
  /\ d.at[r] \in VReg
  /\ Known(d, d.at[r])
  /\ Val(u, d.at[r]) = R.reg[r]
  /\ \A q \in CachedReg : Held(c, q) => d.at[q] = c.at[q] /\ Held(d, q)

LEMMA RegReadRuns ==
  ASSUME NEW c, NEW t, NEW R, NEW n \in 0..(VRegs - 1), Sim(c, t, R, n),
         NEW r \in CachedReg \ {cr}
  PROVE  \E u : RegKnown(c, t, read_reg(c, r), u, R, n + 1, r)
<1> DEFINE d == read_reg(c, r)
<1> HIDE DEF d
<1>1. PICK u : /\ Sim(d, u, R, n + 1)
               /\ Goes(c, t, d, u)
               /\ Held(d, r)
               /\ \A q \in CachedReg : Held(c, q) => d.at[q] = c.at[q]
  BY ReadRuns DEF d
<1>2. /\ d.at[r] \in VReg /\ Known(d, d.at[r]) /\ Val(u, d.at[r]) = R.reg[r]
  BY <1>1, HeldValue
<1>3. RegKnown(c, t, d, u, R, n + 1, r)
  BY <1>1, <1>2 DEF RegKnown, Held
<1> QED
  BY <1>3 DEF d

(* The base of an address, or of an immediate instruction.                 *)
LEMMA BaseRuns ==
  ASSUME NEW c, NEW t, NEW R, NEW n \in 0..(VRegs - 1), Sim(c, t, R, n),
         NEW ra \in Indices
  PROVE  LET d == read_gpr_ra(c, ra)
             x == GprOrZero(d, ra)
         IN  \E u : /\ Sim(d, u, R, n + 1)
                    /\ Goes(c, t, d, u)
                    /\ Known(d, x) /\ (x \in Imm => x \in Word)
                    /\ Val(u, x) = OrZero(R, ra)
<1>1. Gpr(ra) \in CachedReg \ {cr}
  BY RegIs
<1>2. CASE ra = 0
  <2>1. read_gpr_ra(c, ra) = c /\ GprOrZero(c, ra) = 0 /\ OrZero(R, ra) = 0
    BY <1>2 DEF read_gpr_ra, GprOrZero, OrZero
  <2>2. 0 \in Word /\ 0 \in Imm
    BY SmallWords, LiteralAssumption
  <2>3. Sim(c, t, R, n + 1)
    BY SimGrows, RegsLimited
  <2>4. Goes(c, t, c, t)
    BY SimGoes
  <2>5. Known(c, 0) /\ Val(t, 0) = 0
    BY <2>2 DEF Known, Val
  <2> QED
    BY <2>1, <2>2, <2>3, <2>4, <2>5
<1>3. CASE ra # 0
  <2> DEFINE d == read_reg(c, Gpr(ra))
  <2>1. read_gpr_ra(c, ra) = d /\ GprOrZero(d, ra) = d.at[Gpr(ra)] /\ OrZero(R, ra) = R.reg[Gpr(ra)]
    BY <1>3 DEF read_gpr_ra, GprOrZero, OrZero, RegOf
  <2> HIDE DEF d
  <2>2. PICK u : RegKnown(c, t, d, u, R, n + 1, Gpr(ra))
    BY <1>1, RegReadRuns DEF d
  <2>3. d.at[Gpr(ra)] \notin Imm
    BY <2>2, ImmAssumption DEF RegKnown
  <2> QED
    BY <2>1, <2>2, <2>3 DEF RegKnown
<1> QED
  BY <1>2, <1>3

(* A result goes to a register.                                            *)
LEMMA ResultWrites ==
  ASSUME NEW c, NEW t, NEW d, NEW u, NEW R, NEW n, NEW val, Computes(c, t, d, u, R, n, val),
         NEW r \in CachedReg \ {cr}
  PROVE  LET e == write_reg(d, r, Result(d))
         IN  /\ Sim(e, u, [R EXCEPT !.reg[r] = val], n)
             /\ Goes(c, t, e, u)
             /\ Held(e, r)
<1> DEFINE e == write_reg(d, r, Result(d))
<1>1. /\ Sim(d, u, R, n) /\ Goes(c, t, d, u)
      /\ Result(d) \in VReg /\ Known(d, Result(d)) /\ Val(u, Result(d)) = val
  BY DEF Computes
<1> HIDE DEF e
<1>2. /\ Sim(e, u, [R EXCEPT !.reg[r] = Val(u, Result(d))], n)
      /\ Goes(d, u, e, u)
      /\ Held(e, r)
  BY <1>1, WriteRuns DEF e
<1>3. Goes(c, t, e, u)
  BY <1>1, <1>2, GoesOn
<1> QED
  BY <1>1, <1>2, <1>3 DEF e

LEMMA WriteBackRuns ==
  ASSUME NEW c, NEW t, NEW d, NEW u, NEW R, NEW n, NEW val, Computes(c, t, d, u, R, n, val),
         NEW k \in Indices
  PROVE  LET e == WriteBack(d, k)
         IN  /\ Sim(e, u, Written(R, k, val, FALSE), n)
             /\ Goes(c, t, e, u)
             /\ Held(e, Gpr(k))
<1>1. Gpr(k) \in CachedReg \ {cr}
  BY RegIs
<1>2. WriteBack(d, k) = write_reg(d, Gpr(k), Result(d))
  BY DEF WriteBack
<1>3. Written(R, k, val, FALSE) = [R EXCEPT !.reg[Gpr(k)] = val]
  BY DEF Written
<1> DEFINE r == Gpr(k)
           e == write_reg(d, r, Result(d))
<1>4. /\ Sim(e, u, [R EXCEPT !.reg[r] = val], n)
      /\ Goes(c, t, e, u)
      /\ Held(e, r)
  <2> HIDE DEF r
  <2> QED
    BY <1>1, ResultWrites DEF r
<1> QED
  BY <1>2, <1>3, <1>4

LEMMA RecordedRuns ==
  ASSUME NEW c, NEW t, NEW R \in Machine, NEW n \in Nat, n + 4 <= VRegs,
         NEW k \in Indices, NEW val \in 0..(2 ^ NarrowBits - 1),
         Sim(c, t, Written(R, k, val, FALSE), n), Held(c, Gpr(k)), NEW w
  PROVE  Does(c, t, Record(c, w, k), Written(R, k, val, w.rc), n + 4)
<1> DEFINE S == Written(R, k, val, FALSE)
           x == c.at[Gpr(k)]
<1>1. Gpr(k) \in CachedReg \ {cr} /\ Gpr(k) \in GuestReg /\ Gpr(k) # cr /\ cr \in GuestReg
  BY RegIs
<1>2. val \in Word
  BY Widths DEF Word
<1>3. S = [R EXCEPT !.reg[Gpr(k)] = val]
  BY DEF Written
<1>0. Sim(c, t, S, n)
  OBVIOUS
<1> HIDE DEF S
<1>4. S \in Machine /\ S.reg = [R.reg EXCEPT ![Gpr(k)] = val]
  <2> DEFINE r == Gpr(k)
  <2>1. r \in GuestReg /\ S = [R EXCEPT !.reg[r] = val]
    BY <1>1, <1>3
  <2> HIDE DEF r
  <2>2. S \in Machine /\ S.reg = [R.reg EXCEPT ![r] = val]
    BY ONLY R \in Machine, <1>2, <2>1, RegSet
  <2> QED
    BY <2>2 DEF r
<1>5. S.reg[Gpr(k)] = val /\ S.reg[cr] = R.reg[cr]
  BY <1>1, <1>4, MachineFields
<1>6. x \in VReg /\ Known(c, x) /\ Val(t, x) = val
  BY <1>0, <1>1, <1>5, HeldValue
<1>7. CASE w.rc
  <2> DEFINE d == emit_rc0_from_result(c, x, FALSE)
  <2>1. Record(c, w, k) = d
    BY <1>7 DEF Record
  <2> HIDE DEF d, x
  <2>2. PICK u : /\ Sim(d, u, [S EXCEPT !.reg[cr] = Cr0(S, val)], n + 4)
                 /\ Goes(c, t, d, u)
    BY <1>0, <1>6, RecordRuns DEF d
  <2>3. Cr0(S, val) = Cr0(R, val)
    BY <1>5 DEF Cr0
  <2>4. Written(R, k, val, w.rc) = [R EXCEPT !.reg[Gpr(k)] = val, !.reg[cr] = Cr0(R, val)]
    BY <1>7 DEF Written
  <2>5. [S EXCEPT !.reg[cr] = Cr0(R, val)] = Written(R, k, val, w.rc)
    BY <1>3, <2>4
  <2> QED
    BY <1>7, <2>1, <2>2, <2>3, <2>5 DEF Does
<1>8. CASE ~w.rc
  <2>1. Record(c, w, k) = c /\ Written(R, k, val, w.rc) = S
    BY <1>8 DEF Record, S, Written
  <2>2. Sim(c, t, S, n + 4)
    BY <1>0, SimGrows
  <2>3. Goes(c, t, c, t)
    BY SimGoes
  <2> QED
    BY <2>1, <2>2, <2>3 DEF Does
<1> QED
  BY <1>7, <1>8

-----------------------------------------------------------------------------
(* Arithmetic and logic of the PowerPC frontend.                           *)

LEMMA RegIsWord ==
  ASSUME NEW R \in Machine, NEW k \in Indices
  PROVE  RegOf(R, k) \in Word /\ OrZero(R, k) \in Word
<1>1. Gpr(k) \in GuestReg /\ R.reg \in [GuestReg -> Word] /\ 0 \in Word
  BY RegIs, MachineFields, SmallWords
<1> QED
  BY <1>1 DEF RegOf, OrZero

LEMMA VRegIsNoWord ==
  ASSUME NEW x \in VReg
  PROVE  x \notin Imm
BY ImmAssumption

LEMMA WordIsKnown ==
  ASSUME NEW c, NEW t, NEW x \in Word
  PROVE  Known(c, x) /\ Val(t, x) = x /\ x \in Imm
BY LiteralAssumption DEF Known, Val

(* An op of two operands with values, whose result goes to a gpr.          *)
LEMMA OpWritesBack ==
  ASSUME NEW c, NEW t, NEW R, NEW n \in 0..(VRegs - 1), Sim(c, t, R, n),
         NEW name \in arithNames, NEW k \in Indices,
         NEW x, Known(c, x), x \in Imm => x \in Word,
         NEW y, Known(c, y), y \in Imm => y \in Word
  PROVE  LET e   == WriteBack(emit_binary(c, name, FALSE, x, y), k)
             val == Emitted(name, FALSE, Val(t, x), Val(t, y))
         IN  /\ \E u : /\ Sim(e, u, Written(R, k, val, FALSE), n + 1)
                       /\ Goes(c, t, e, u)
                       /\ Held(e, Gpr(k))
             /\ val \in 0..(2 ^ NarrowBits - 1)
<1> DEFINE d   == emit_binary(c, name, FALSE, x, y)
           e   == WriteBack(d, k)
           val == Emitted(name, FALSE, Val(t, x), Val(t, y))
<1>1. t \in Machine
  BY DEF Sim, Ready
<1>2. Val(t, x) \in Word /\ Val(t, y) \in Word
  BY <1>1, ValIsWord
<1>3. val \in 0..(2 ^ NarrowBits - 1)
  BY <1>2, EmittedRange
<1> HIDE DEF d, val
<1>4. PICK u : Computes(c, t, d, u, R, n + 1, val)
  BY BinaryRuns DEF d, val
<1>5. /\ Sim(e, u, Written(R, k, val, FALSE), n + 1)
      /\ Goes(c, t, e, u)
      /\ Held(e, Gpr(k))
  BY <1>4, WriteBackRuns
<1> QED
  BY <1>3, <1>5 DEF d, val

LEMMA AddImmRuns ==
  ASSUME NEW c, NEW t, NEW R, NEW n \in Nat, n + 2 <= VRegs, Sim(c, t, R, n),
         NEW w, w.ra \in Indices, w.rd \in Indices, NEW x \in Word
  PROVE  Does(c, t, LowerAddImm(c, w, x),
              Written(R, w.rd, Emitted("add", FALSE, OrZero(R, w.ra), x), FALSE), n + 2)
<1> DEFINE r == read_gpr_ra(c, w.ra)
           z == GprOrZero(r, w.ra)
           e == LowerAddImm(c, w, x)
<1>1. n \in 0..(VRegs - 1) /\ n + 1 \in 0..(VRegs - 1) /\ (n + 1) + 1 = n + 2
  BY RegsLimited
<1>2. e = WriteBack(emit_binary(r, "add", FALSE, z, x), w.rd)
  BY DEF LowerAddImm
<1> HIDE DEF r, z, e
<1>3. PICK u : /\ Sim(r, u, R, n + 1) /\ Goes(c, t, r, u)
               /\ Known(r, z) /\ (z \in Imm => z \in Word) /\ Val(u, z) = OrZero(R, w.ra)
  BY <1>1, BaseRuns DEF r, z
<1>4. Known(r, x) /\ Val(u, x) = x /\ x \in Imm
  BY WordIsKnown
<1>5. "add" \in arithNames
  BY DEF arithNames
<1>6. PICK v : /\ Sim(e, v, Written(R, w.rd, Emitted("add", FALSE, Val(u, z), Val(u, x)), FALSE),
                      (n + 1) + 1)
               /\ Goes(r, u, e, v)
  BY <1>1, <1>2, <1>3, <1>4, <1>5, OpWritesBack
<1>7. Goes(c, t, e, v)
  BY <1>3, <1>6, GoesOn
<1> QED
  BY <1>1, <1>3, <1>4, <1>6, <1>7 DEF Does, e

LEMMA LogicImmRuns ==
  ASSUME NEW c, NEW t, NEW R, NEW n \in Nat, n + 2 <= VRegs, Sim(c, t, R, n),
         NEW w, w.ra \in Indices, w.rd \in Indices, NEW name \in arithNames, NEW x \in Word
  PROVE  LET e   == LowerLogicImm(c, w, name, x)
             val == Emitted(name, FALSE, RegOf(R, w.rd), x)
         IN  /\ \E u : /\ Sim(e, u, Written(R, w.ra, val, FALSE), n + 2)
                       /\ Goes(c, t, e, u)
                       /\ Held(e, Gpr(w.ra))
             /\ val \in 0..(2 ^ NarrowBits - 1)
<1> DEFINE q == Gpr(w.rd)
           r == read_reg(c, q)
           z == r.at[q]
           e == LowerLogicImm(c, w, name, x)
           val == Emitted(name, FALSE, RegOf(R, w.rd), x)
<1>1. n \in 0..(VRegs - 1) /\ n + 1 \in 0..(VRegs - 1) /\ (n + 1) + 1 = n + 2
  BY RegsLimited
<1>2. e = WriteBack(emit_binary(r, name, FALSE, z, x), w.ra)
  BY DEF LowerLogicImm
<1>3. q \in CachedReg \ {cr} /\ R.reg[q] = RegOf(R, w.rd)
  BY RegIs DEF RegOf
<1> HIDE DEF r, e, q
<1>4. PICK u : RegKnown(c, t, r, u, R, n + 1, q)
  BY <1>1, <1>3, RegReadRuns DEF r
<1>5. /\ Sim(r, u, R, n + 1) /\ Goes(c, t, r, u)
      /\ Known(r, z) /\ z \notin Imm /\ Val(u, z) = RegOf(R, w.rd)
  BY <1>3, <1>4, VRegIsNoWord DEF RegKnown
<1> HIDE DEF z
<1>6. Known(r, x) /\ Val(u, x) = x /\ x \in Imm
  BY WordIsKnown
<1>7. /\ \E v : /\ Sim(e, v, Written(R, w.ra, val, FALSE), (n + 1) + 1)
                /\ Goes(r, u, e, v)
                /\ Held(e, Gpr(w.ra))
      /\ val \in 0..(2 ^ NarrowBits - 1)
  BY <1>1, <1>2, <1>5, <1>6, OpWritesBack
<1> HIDE DEF val
<1>8. \E v : /\ Sim(e, v, Written(R, w.ra, val, FALSE), n + 2)
             /\ Goes(c, t, e, v)
             /\ Held(e, Gpr(w.ra))
  BY <1>1, <1>5, <1>7, GoesOn
<1> QED
  BY <1>7, <1>8 DEF e, val

LEMMA AluRuns ==
  ASSUME NEW c, NEW t, NEW R, NEW n \in Nat, n + 7 <= VRegs, Sim(c, t, R, n),
         NEW w, NEW name \in arithNames,
         NEW first \in Indices, NEW second \in Indices, NEW dst \in Indices
  PROVE  Does(c, t, LowerAlu(c, w, name, first, second, dst),
              Written(R, dst, Emitted(name, FALSE, RegOf(R, first), RegOf(R, second)), w.rc),
              n + 7)
<1> DEFINE p == Gpr(first)
           q == Gpr(second)
           r == read_reg(c, p)
           s == read_reg(r, q)
           x == s.at[p]
           y == s.at[q]
           e == WriteBack(emit_binary(s, name, FALSE, x, y), dst)
           d == LowerAlu(c, w, name, first, second, dst)
           val == Emitted(name, FALSE, RegOf(R, first), RegOf(R, second))
<1>1. /\ n \in 0..(VRegs - 1) /\ n + 1 \in 0..(VRegs - 1) /\ n + 2 \in 0..(VRegs - 1)
      /\ (n + 1) + 1 = n + 2 /\ (n + 2) + 1 = n + 3 /\ n + 3 \in Nat /\ (n + 3) + 4 = n + 7
      /\ (n + 3) + 4 <= VRegs
  BY RegsLimited
<1>2. d = Record(e, w, dst)
  BY DEF LowerAlu
<1>3. /\ p \in CachedReg \ {cr} /\ R.reg[p] = RegOf(R, first)
      /\ q \in CachedReg \ {cr} /\ R.reg[q] = RegOf(R, second)
  BY RegIs DEF RegOf
<1>4. R \in Machine
  BY DEF Sim
<1> HIDE DEF r, s, e, p, q, d
<1>5. PICK u1 : RegKnown(c, t, r, u1, R, n + 1, p)
  BY <1>1, <1>3, RegReadRuns DEF r
<1>6. Sim(r, u1, R, n + 1) /\ Goes(c, t, r, u1) /\ Held(r, p)
      /\ Known(r, r.at[p]) /\ r.at[p] \in VReg /\ Val(u1, r.at[p]) = RegOf(R, first)
  BY <1>3, <1>5 DEF RegKnown
<1>7. PICK u2 : RegKnown(r, u1, s, u2, R, n + 2, q)
  BY <1>1, <1>3, <1>6, RegReadRuns DEF s
<1>8. /\ Sim(s, u2, R, n + 2) /\ Goes(r, u1, s, u2)
      /\ Known(s, y) /\ y \notin Imm /\ Val(u2, y) = RegOf(R, second)
      /\ s.at[p] = r.at[p]
  BY <1>3, <1>6, <1>7, VRegIsNoWord DEF RegKnown
<1>9. Known(s, x) /\ x \notin Imm /\ Val(u2, x) = RegOf(R, first)
  BY <1>6, <1>8, VRegIsNoWord DEF Goes
<1> HIDE DEF x, y
<1>10. /\ \E v : /\ Sim(e, v, Written(R, dst, val, FALSE), (n + 2) + 1)
                 /\ Goes(s, u2, e, v)
                 /\ Held(e, Gpr(dst))
       /\ val \in 0..(2 ^ NarrowBits - 1)
  BY <1>1, <1>8, <1>9, OpWritesBack DEF e
<1> HIDE DEF val
<1>11. PICK u3 : /\ Sim(e, u3, Written(R, dst, val, FALSE), n + 3)
                 /\ Goes(s, u2, e, u3)
                 /\ Held(e, Gpr(dst))
  BY <1>1, <1>10
<1>12. Does(e, u3, d, Written(R, dst, val, w.rc), n + 7)
  <2>1. Does(e, u3, Record(e, w, dst), Written(R, dst, val, w.rc), (n + 3) + 4)
    BY ONLY <1>1, <1>4, <1>10, <1>11, RecordedRuns, dst \in Indices
  <2> QED
    BY <1>1, <1>2, <2>1
<1>13. Goes(c, t, e, u3)
  BY <1>6, <1>8, <1>11, GoesOn
<1> QED
  BY <1>12, <1>13, DoesOn DEF d, val

-----------------------------------------------------------------------------
(* The literals, and sums that are kept in the low half.                   *)

LEMMA AddIsLow ==
  ASSUME NEW x \in Int, NEW y \in Int, NEW z \in Int, Low(y) = Low(z)
  PROVE  Emitted("add", FALSE, x, y) = Low(x + z)
<1>1. NarrowBits \in 0..WideBits
  BY Widths, BitsAssumption
<1>2. /\ Emitted("add", FALSE, x, y)
           = Trunc(Trunc(x, NarrowBits) + Trunc(y, NarrowBits), NarrowBits)
      /\ Trunc(y, NarrowBits) = Trunc(z, NarrowBits)
  BY AluIs DEF Emitted, Low
<1>3. Trunc(Trunc(x, NarrowBits) + Trunc(z, NarrowBits), NarrowBits) = Trunc(x + z, NarrowBits)
  BY <1>1, TruncOfSum
<1> QED
  BY <1>2, <1>3 DEF Low

LEMMA SubIsLow ==
  ASSUME NEW x \in Int, NEW y \in Int
  PROVE  Emitted("sub", FALSE, x, y) = Low(x - y)
<1>1. NarrowBits \in 0..WideBits
  BY Widths, BitsAssumption
<1>2. Emitted("sub", FALSE, x, y)
        = Trunc(Trunc(x, NarrowBits) - Trunc(y, NarrowBits), NarrowBits)
  BY AluIs DEF Emitted
<1> QED
  BY <1>1, <1>2, TruncOfSum DEF Low

LEMMA LowOfExtended ==
  ASSUME NEW k \in 1..NarrowBits, NEW x \in Int
  PROVE  LET s == Signed(Trunc(x, k), k)
         IN  s \in Int /\ Low(SignExtend(x, k)) = Low(s)
<1> DEFINE y == Trunc(x, k)
           s == Signed(y, k)
<1>1. /\ k \in 0..WideBits /\ k \in 1..WideBits /\ WideBits \in 0..WideBits
      /\ NarrowBits \in 0..WideBits
  BY Widths, BitsAssumption
<1>2. y \in 0..(2 ^ k - 1)
  BY <1>1, TruncFacts
<1>3. y \in Int
  BY <1>1, <1>2, Power
<1> HIDE DEF y
<1>4. s \in Int
  BY <1>1, <1>3, SignedFacts
<1>5. SignExtend(x, k) = Trunc(s, WideBits)
  BY DEF SignExtend, y
<1> HIDE DEF s
<1>6. Trunc(Trunc(s, WideBits), NarrowBits) = Trunc(s, NarrowBits)
  BY <1>1, <1>4, TruncOfTrunc
<1> QED
  BY <1>4, <1>5, <1>6 DEF Low, s, y

LEMMA PpcImmediates ==
  ASSUME NEW w \in Words["ppc"]
  PROVE  /\ Literal(w) \in Int /\ Low(simm(w)) = Low(Literal(w))
         /\ Low(SignExtend(w.imm * 2 ^ HalfBits, NarrowBits)) = Low(w.imm * 2 ^ HalfBits)
<1> DEFINE high == w.imm * 2 ^ HalfBits
<1>1. /\ HalfBits \in 1..NarrowBits /\ NarrowBits \in 1..NarrowBits
      /\ HalfBits \in 0..WideBits /\ NarrowBits \in 1..WideBits /\ NarrowBits \in 0..WideBits
      /\ NarrowBits \in 0..NarrowBits
  BY Widths, BitsAssumption
<1>2. w.imm \in 0..(2 ^ HalfBits - 1) /\ 2 ^ HalfBits \in Nat \ {0}
  BY FieldAssumption, Widths DEF PpcFields
<1>3. w.imm \in Int /\ high \in Int
  BY <1>2
<1>4. Trunc(w.imm, HalfBits) = w.imm
  BY <1>1, <1>2, <1>3, TruncFacts
<1>5. Literal(w) \in Int /\ Low(simm(w)) = Low(Literal(w))
  BY <1>1, <1>3, <1>4, LowOfExtended DEF Literal, simm
<1> HIDE DEF high
<1>6. Low(SignExtend(high, NarrowBits)) = Low(high)
  <2> DEFINE y == Trunc(high, NarrowBits)
  <2>1. y \in Int
    <3>1. y \in 0..(2 ^ NarrowBits - 1)
      BY <1>1, <1>3, TruncFacts
    <3> QED
      BY <3>1, Widths
  <2> HIDE DEF y
  <2>2. Low(SignExtend(high, NarrowBits)) = Low(Signed(y, NarrowBits))
    BY <1>1, <1>3, LowOfExtended DEF y
  <2>3. Trunc(Signed(y, NarrowBits), NarrowBits) = Trunc(y, NarrowBits)
    BY <1>1, <2>1, SignedFacts
  <2>4. Trunc(y, NarrowBits) = Trunc(high, NarrowBits)
    BY <1>1, <1>3, TruncOfTrunc DEF y
  <2> QED
    BY <2>2, <2>3, <2>4 DEF Low
<1> QED
  BY <1>5, <1>6 DEF high

LEMMA LowIsNarrow ==
  ASSUME NEW x \in Int
  PROVE  /\ Low(x) \in 0..(2 ^ NarrowBits - 1)
         /\ Low(x) \in Word
         /\ Low(Low(x)) = Low(x)
         /\ Address(Low(x)) = Low(x)
<1>1. NarrowBits \in 0..WideBits /\ NarrowBits \in 0..NarrowBits
  BY Widths, BitsAssumption
<1>2. Low(x) \in 0..(2 ^ NarrowBits - 1)
  BY <1>1, TruncFacts DEF Low
<1>3. Trunc(Trunc(x, NarrowBits), NarrowBits) = Trunc(x, NarrowBits)
  BY <1>1, TruncOfTrunc
<1> QED
  BY <1>2, <1>3, Widths DEF Low, Address, Word

-----------------------------------------------------------------------------
(* Memory.                                                                 *)

Sizes == {1, WordBytes}

LEMMA SizesFit ==
  ASSUME NEW bytes \in Sizes
  PROVE  /\ bytes \in Nat \ {0}
         /\ ByteBits * bytes \in 1..NarrowBits
         /\ \A k \in 0..(bytes - 1) : ByteBits * k \in 0..NarrowBits
         /\ ByteBits \in 1..NarrowBits
<1>1. /\ ByteBits \in Nat \ {0} /\ WordBytes \in Nat \ {0} /\ ByteBits * WordBytes = NarrowBits
      /\ bytes \in 1..WordBytes
  BY WidthAssumption DEF Sizes
<1>2. \A k \in 0..WordBytes : ByteBits * k <= ByteBits * WordBytes /\ ByteBits * k \in Nat
  <2> TAKE k \in 0..WordBytes
  <2>1. ByteBits * WordBytes = ByteBits * k + ByteBits * (WordBytes - k)
    BY <1>1
  <2>2. ByteBits * (WordBytes - k) >= 0 /\ ByteBits * k \in Nat
    <3> DEFINE e == WordBytes - k
    <3>1. e \in Nat /\ k \in Nat
      BY <1>1
    <3> HIDE DEF e
    <3>2. ByteBits * e \in Nat /\ ByteBits * k \in Nat
      BY <1>1, <3>1
    <3> QED
      BY <3>2 DEF e
  <2> QED
    BY <1>1, <2>1, <2>2
<1>3. ByteBits * bytes \in Nat /\ ByteBits * bytes <= NarrowBits /\ ByteBits <= NarrowBits
  <2>1. bytes \in 0..WordBytes /\ 1 \in 0..WordBytes /\ ByteBits * 1 = ByteBits
    BY <1>1
  <2> QED
    BY <1>1, <1>2, <2>1
<1>4. ByteBits * bytes # 0
  <2> DEFINE e == bytes - 1
  <2>1. e \in 0..WordBytes /\ bytes = e + 1
    BY <1>1
  <2>2. ByteBits * bytes = ByteBits * e + ByteBits
    BY <1>1, <2>1
  <2> HIDE DEF e
  <2> QED
    BY <1>1, <1>2, <2>1, <2>2
<1>5. NarrowBits \in Nat
  BY BitsAssumption
<1>6. \A k \in 0..(bytes - 1) : ByteBits * k \in 0..NarrowBits
  <2> TAKE k \in 0..(bytes - 1)
  <2>1. k \in 0..WordBytes
    BY <1>1
  <2> QED
    BY <1>1, <1>2, <1>5, <2>1
<1> QED
  BY <1>1, <1>3, <1>4, <1>5, <1>6

LEMMA LoadIsNarrow ==
  ASSUME NEW mem, NEW a, NEW bytes \in Sizes
  PROVE  LoadBytes(mem, a, bytes, TRUE) \in 0..(2 ^ NarrowBits - 1)
<1> DEFINE S == {n \in 0..(WideBits - 1) :
                   /\ n < ByteBits * bytes
                   /\ BitOf(mem[a + Place(n \div ByteBits, bytes, TRUE)], n % ByteBits) = 1}
<1>1. LoadBytes(mem, a, bytes, TRUE) = Ones(S)
  BY DEF LoadBytes, WithBits
<1>2. NarrowBits \in 0..WideBits /\ WideBits \in Nat
  BY BitsAssumption
<1>3. \A n \in S : n \in Int => n < NarrowBits
  <2>1. ByteBits * bytes \in 1..NarrowBits
    BY SizesFit
  <2>2. \A n \in S : n \in 0..(WideBits - 1) /\ n < ByteBits * bytes
    OBVIOUS
  <2> DEFINE e == ByteBits * bytes
  <2> HIDE DEF S
  <2>3. \A n \in S : n \in Int /\ n < e
    BY <1>2, <2>2
  <2>4. e \in 1..NarrowBits
    BY <2>1
  <2> HIDE DEF e
  <2> QED
    BY <1>2, <2>3, <2>4
<1> HIDE DEF S
<1>4. Ones(S) \in 0..(2 ^ NarrowBits - 1)
  BY <1>2, <1>3, OnesFacts
<1> QED
  BY <1>1, <1>4

LEMMA StoreIsMemory ==
  ASSUME NEW mem \in [0..(MemSize - 1) -> Byte], NEW a \in Nat, NEW bytes \in Sizes, NEW x \in Word
  PROVE  StoreBytes(mem, a, bytes, TRUE, x) \in [0..(MemSize - 1) -> Byte]
<1>1. /\ ByteBits \in 0..WideBits /\ NarrowBits \in 0..WideBits /\ bytes \in Nat \ {0}
      /\ WideBits \in Nat
  BY SizesFit, BitsAssumption
<1>2. ASSUME NEW c \in a..(a + bytes - 1)
      PROVE  Trunc(x \div 2 ^ (ByteBits * Place(c - a, bytes, TRUE)), ByteBits) \in Byte
  <2> DEFINE k == Place(c - a, bytes, TRUE)
             e == ByteBits * k
  <2>1. k \in 0..(bytes - 1)
    BY <1>1 DEF Place
  <2> HIDE DEF k
  <2>2. e \in 0..NarrowBits
    BY <2>1, SizesFit
  <2> HIDE DEF e
  <2>3. 2 ^ e \in Nat \ {0}
    BY <1>1, <2>2, Power
  <2> DEFINE y == x \div 2 ^ e
  <2>4. y \in Int
    <3>1. x \in Int
      BY DEF Word
    <3> QED
      BY <2>3, <3>1
  <2> HIDE DEF y
  <2>5. Trunc(y, ByteBits) \in 0..(2 ^ ByteBits - 1)
    BY <1>1, <2>4, TruncFacts
  <2> QED
    BY <2>5 DEF Byte, y, e, k
<1> DEFINE byte(c) == Trunc(x \div 2 ^ (ByteBits * Place(c - a, bytes, TRUE)), ByteBits)
<1>3. \A c \in a..(a + bytes - 1) : byte(c) \in Byte
  BY <1>2
<1>4. StoreBytes(mem, a, bytes, TRUE, x)
        = [c \in 0..(MemSize - 1) |-> IF c \in a..(a + bytes - 1) THEN byte(c) ELSE mem[c]]
  BY DEF StoreBytes
<1> HIDE DEF byte
<1> QED
  BY <1>3, <1>4

(* The last op faults, after what R has done to the memory.                *)
FaultsAt(c, t, d, R) ==
  \E u : /\ Leads(c, t, d, Fault(u))
         /\ u \in Machine
         /\ u.mem = R.mem
         /\ AllOps(d.ops)
         /\ d.at[cr] = NoReg

LEMMA FaultsOn ==
  ASSUME NEW c, NEW t, NEW d, NEW u, NEW e, NEW R, Goes(c, t, d, u), FaultsAt(d, u, e, R)
  PROVE  FaultsAt(c, t, e, R)
BY LeadsOn DEF Goes, FaultsAt

LEMMA LoadRuns ==
  ASSUME NEW c, NEW t, NEW R, NEW n \in 0..(VRegs - 1), Sim(c, t, R, n),
         NEW x \in VReg, Known(c, x), Address(Val(t, x)) = Val(t, x), NEW bytes \in Sizes
  PROVE  LET d   == Define(c, MemOp("load", bytes, TRUE), <<x>>)
             val == LoadBytes(R.mem, Val(t, x), bytes, TRUE)
         IN  /\ InMap(Val(t, x), bytes) => \E u : Computes(c, t, d, u, R, n + 1, val)
             /\ ~InMap(Val(t, x), bytes) => FaultsAt(c, t, d, R)
             /\ Open(d, n + 1)
<1> DEFINE kind == MemOp("load", bytes, TRUE)
           args == <<x>>
           d    == Define(c, kind, args)
           val  == LoadBytes(R.mem, Val(t, x), bytes, TRUE)
           A    == Val(t, x)
<1>1. /\ Ready(c, t, n) /\ t \in Machine /\ R.mem = t.mem
  BY DEF Sim, Ready
<1>2. kind \in Kind /\ kind.name = "load" /\ kind.bytes = bytes /\ kind.big = TRUE
  <2>1. kind \in OpKinds
    BY DEF OpKinds, MemOp, Sizes
  <2> QED
    BY <2>1, KindAssumption DEF MemOp
<1>3. args \in Seq(VReg \cup Imm) /\ args[1] = x /\ \A j \in DOMAIN args : Known(c, args[j])
  OBVIOUS
<1>4. kind.name \in aluNames \cup readNames /\ kind.name \notin aluNames
  BY <1>2 DEF readNames, aluNames
<1>5. val \in 0..(2 ^ NarrowBits - 1)
  BY LoadIsNarrow
<1> HIDE DEF kind, args, val, d, A
<1>9. val \in Word
  BY <1>5, Widths DEF Word
<1>6. ASSUME NEW v
      PROVE  LET op == [kind |-> kind, dst |-> v, args |-> args]
             IN  Exec(op, t) = IF InMap(A, bytes) THEN [t EXCEPT !.env[v] = val] ELSE Fault(t)
  <2> DEFINE op == [kind |-> kind, dst |-> v, args |-> args]
  <2>1. op.kind = kind /\ op.dst = v /\ op.args = args
    OBVIOUS
  <2>2. Address(Val(t, args[1])) = A
    BY <1>3 DEF A
  <2> HIDE DEF op
  <2>3. Exec(op, t) =
          IF InMap(Address(Val(t, op.args[1])), op.kind.bytes)
          THEN [t EXCEPT !.env[op.dst] =
                  LoadBytes(t.mem, Address(Val(t, op.args[1])), op.kind.bytes, op.kind.big)]
          ELSE Fault(t)
    BY ONLY <1>2, <2>1, ExecLoad
  <2>4. Exec(op, t) = IF InMap(A, bytes)
                      THEN [t EXCEPT !.env[v] = LoadBytes(t.mem, A, bytes, TRUE)]
                      ELSE Fault(t)
    BY ONLY <1>2, <2>1, <2>2, <2>3
  <2>5. LoadBytes(t.mem, A, bytes, TRUE) = val
    BY <1>1 DEF val, A
  <2>6. Exec(op, t) = IF InMap(A, bytes) THEN [t EXCEPT !.env[v] = val] ELSE Fault(t)
    BY ONLY <2>4, <2>5
  <2> QED
    BY <2>6 DEF op
<1>7. ASSUME InMap(A, bytes)
      PROVE  \E u : Computes(c, t, d, u, R, n + 1, val)
  <2>1. \A v \in VReg : Exec([kind |-> kind, dst |-> v, args |-> args], t)
                           = [t EXCEPT !.env[v] = val]
    BY <1>6, <1>7
  <2> QED
    BY <1>2, <1>3, <1>4, <1>9, <2>1, ValueRuns DEF d
<1>8. ASSUME ~InMap(A, bytes)
      PROVE  FaultsAt(c, t, d, R)
  <2>1. Leads(c, t, d, Exec([kind |-> kind, dst |-> Result(d), args |-> args], t))
    BY <1>1, <1>2, <1>3, <1>4, DefineRuns DEF d
  <2>2. Exec([kind |-> kind, dst |-> Result(d), args |-> args], t) = Fault(t)
    BY <1>6, <1>8
  <2>3. AllOps(d.ops) /\ d.at = c.at
    BY <1>1, <1>2, <1>3, <1>4, DefineRuns DEF d
  <2> QED
    BY <1>1, <2>1, <2>2, <2>3 DEF FaultsAt, Ready
<1>10. Open(d, n + 1)
  BY <1>1, <1>2, <1>3, <1>4, DefineRuns DEF d
<1> QED
  BY <1>7, <1>8, <1>10 DEF d, kind, args, val, A

LEMMA StoreRuns ==
  ASSUME NEW c, NEW t, NEW R, NEW n \in Nat, Sim(c, t, R, n),
         NEW x \in VReg, Known(c, x), Address(Val(t, x)) = Val(t, x), Val(t, x) \in Nat,
         NEW y \in VReg, Known(c, y), NEW bytes \in Sizes
  PROVE  LET d == Push(c, MemOp("store", bytes, TRUE), <<x, y>>)
             S == [R EXCEPT !.mem = StoreBytes(@, Val(t, x), bytes, TRUE, Val(t, y))]
         IN  /\ InMap(Val(t, x), bytes) => Does(c, t, d, S, n)
             /\ ~InMap(Val(t, x), bytes) => FaultsAt(c, t, d, R)
             /\ Open(d, n)
<1> DEFINE kind == MemOp("store", bytes, TRUE)
           args == <<x, y>>
           d    == Push(c, kind, args)
           mem  == StoreBytes(R.mem, Val(t, x), bytes, TRUE, Val(t, y))
           A    == Val(t, x)
           u    == [t EXCEPT !.mem = mem]
           S    == [R EXCEPT !.mem = mem]
<1>1. /\ Ready(c, t, n) /\ Open(c, n) /\ t \in Machine /\ t.status = "run"
      /\ R \in Machine /\ R.mem = t.mem /\ c.at[cr] = NoReg
  BY DEF Sim, Ready
<1>2. kind \in Kind /\ kind.name = "store" /\ kind.bytes = bytes /\ kind.big = TRUE
  <2>1. kind \in OpKinds
    BY DEF OpKinds, MemOp, Sizes
  <2> QED
    BY <2>1, KindAssumption DEF MemOp
<1>3. args \in Seq(VReg \cup Imm) /\ args[1] = x /\ args[2] = y
      /\ \A j \in DOMAIN args : Known(c, args[j])
  OBVIOUS
<1>4. Val(t, y) \in Word
  BY <1>1, VRegIsNoWord, ValIsWord
<1>5. mem \in [0..(MemSize - 1) -> Byte]
  <2>1. R.mem \in [0..(MemSize - 1) -> Byte]
    BY <1>1, MachineFields
  <2> QED
    BY <1>4, <2>1, StoreIsMemory
<1> HIDE DEF kind, args, mem, A
<1>6. LET op == [kind |-> kind, dst |-> NoReg, args |-> args]
      IN  Exec(op, t) = IF InMap(A, bytes) THEN u ELSE Fault(t)
  <2> DEFINE op == [kind |-> kind, dst |-> NoReg, args |-> args]
  <2>1. op.kind = kind /\ op.args = args
    OBVIOUS
  <2>2. Address(Val(t, args[1])) = A
    BY <1>3 DEF A
  <2> HIDE DEF op
  <2>3. Exec(op, t) =
          IF InMap(Address(Val(t, op.args[1])), op.kind.bytes)
          THEN [t EXCEPT !.mem = StoreBytes(@, Address(Val(t, op.args[1])), op.kind.bytes,
                                            op.kind.big, Val(t, op.args[2]))]
          ELSE Fault(t)
    BY ONLY <1>2, <2>1, ExecStore
  <2>4. StoreBytes(t.mem, A, bytes, TRUE, Val(t, args[2])) = mem
    BY <1>1, <1>3 DEF mem, A
  <2>5. Exec(op, t) = IF InMap(A, bytes) THEN u ELSE Fault(t)
    BY ONLY <1>2, <2>1, <2>2, <2>3, <2>4
  <2> QED
    BY <2>5 DEF op
<1>7. /\ Leads(c, t, d, Exec([kind |-> kind, dst |-> NoReg, args |-> args], t))
      /\ d.at = c.at /\ AllOps(d.ops)
      /\ \A z : Known(c, z) => Known(d, z)
      /\ Open(d, n)
  <2>1. kind.name \in effectNames /\ kind.name \notin exitNames
    BY <1>2 DEF effectNames, exitNames
  <2> QED
    BY ONLY <1>1, <1>2, <1>3, <2>1, PushRuns, n \in Nat
<1>8. /\ u \in Machine /\ u.reg = t.reg /\ u.env = t.env /\ u.mem = mem
      /\ u.status = t.status
  BY <1>1, <1>5 DEF Machine
<1>9. S \in Machine /\ S.reg = R.reg /\ S.mem = mem
  BY <1>1, <1>5 DEF Machine
<1> HIDE DEF d, u, S
<1>10. ASSUME InMap(A, bytes)
       PROVE  Does(c, t, d, S, n)
  <2>1. Leads(c, t, d, u)
    BY <1>6, <1>7, <1>10
  <2>2. Ready(d, u, n)
    BY <1>1, <1>7, <1>8 DEF Ready
  <2>3. Sim(d, u, S, n)
    BY <1>7, <1>8, <1>9, <2>2 DEF Sim, Shown
  <2>4. Goes(c, t, d, u)
    BY <1>7, <1>8, <2>1 DEF Goes, Val
  <2> QED
    BY <2>3, <2>4 DEF Does
<1>11. ASSUME ~InMap(A, bytes)
       PROVE  FaultsAt(c, t, d, R)
  <2>1. Leads(c, t, d, Fault(t))
    BY <1>6, <1>7, <1>11
  <2> QED
    BY <1>1, <1>7, <2>1 DEF FaultsAt
<1>12. S = [R EXCEPT !.mem = StoreBytes(@, Val(t, x), bytes, TRUE, Val(t, y))]
  BY DEF S, mem
<1> QED
  BY <1>7, <1>10, <1>11, <1>12 DEF d, kind, args, A

(* A builder is a record, with a place for every register.                 *)
Formed(c) ==
  /\ c = [ops |-> c.ops, next |-> c.next, at |-> c.at]
  /\ c.at = [r \in CachedReg |-> c.at[r]]

LEMMA OpenIsFormed ==
  ASSUME NEW c, NEW n, Open(c, n)
  PROVE  Formed(c)
BY DEF Open, Built, Formed

LEMMA OpsWritten ==
  ASSUME NEW c, Formed(c), NEW r, r # cr, NEW v
  PROVE  LET d == write_reg(c, r, v)
         IN  d.ops = c.ops /\ d.at[cr] = c.at[cr] /\ Formed(d)
<1> DEFINE o == c.ops
           x == c.next
           y == c.at
           z == [y EXCEPT ![r] = v]
           d == write_reg(c, r, v)
<1>1. c = [ops |-> o, next |-> x, at |-> y] /\ y = [q \in CachedReg |-> y[q]]
  BY DEF Formed
<1>2. cr \in CachedReg
  BY RegIs
<1>3. z[cr] = y[cr] /\ z = [q \in CachedReg |-> z[q]]
  BY <1>1, <1>2
<1> HIDE DEF o, x, y
<1>4. d = [ops |-> o, next |-> x, at |-> z]
  BY <1>1 DEF write_reg
<1> HIDE DEF d, z
<1> QED
  BY <1>3, <1>4 DEF Formed, d, o, y

LEMMA FaultsSame ==
  ASSUME NEW c, NEW t, NEW d, NEW e, NEW R, FaultsAt(c, t, d, R),
         e.ops = d.ops, e.at[cr] = d.at[cr]
  PROVE  FaultsAt(c, t, e, R)
BY DEF FaultsAt, Leads

(* The effective address.                                                  *)
Ea(R, w) == Low(OrZero(R, w.ra) + Literal(w))

LEMMA EaRuns ==
  ASSUME NEW c, NEW t, NEW R, NEW n \in Nat, n + 2 <= VRegs, Sim(c, t, R, n),
         NEW w \in Words["ppc"], w.ra \in Indices
  PROVE  LET e == LowerEa(c, w)
         IN  /\ \E u : /\ Sim(e, u, R, n + 2)
                       /\ Goes(c, t, e, u)
                       /\ Result(e) \in VReg /\ Known(e, Result(e))
                       /\ Val(u, Result(e)) = Ea(R, w)
             /\ Ea(R, w) \in 0..(2 ^ NarrowBits - 1)
             /\ Address(Ea(R, w)) = Ea(R, w)
<1> DEFINE r == read_gpr_ra(c, w.ra)
           z == GprOrZero(r, w.ra)
           x == simm(w)
           e == LowerEa(c, w)
<1>1. n \in 0..(VRegs - 1) /\ n + 1 \in 0..(VRegs - 1) /\ (n + 1) + 1 = n + 2
  BY RegsLimited
<1>2. e = emit_binary(r, "add", FALSE, z, x)
  BY DEF LowerEa
<1>3. x \in Word
  BY PpcLiterals, SmallWords
<1> HIDE DEF r, z, e, x
<1>4. PICK u : /\ Sim(r, u, R, n + 1) /\ Goes(c, t, r, u)
               /\ Known(r, z) /\ (z \in Imm => z \in Word) /\ Val(u, z) = OrZero(R, w.ra)
  BY <1>1, BaseRuns DEF r, z
<1>5. Known(r, x) /\ Val(u, x) = x /\ x \in Imm
  BY <1>3, WordIsKnown
<1>6. PICK v : Computes(r, u, e, v, R, n + 2, Emitted("add", FALSE, OrZero(R, w.ra), x))
  <2>1. "add" \in arithNames /\ FALSE \in BOOLEAN
    BY DEF arithNames
  <2>2. \E v : Computes(r, u, emit_binary(r, "add", FALSE, z, x), v, R, (n + 1) + 1,
                        Emitted("add", FALSE, Val(u, z), Val(u, x)))
    BY ONLY <1>1, <1>3, <1>4, <1>5, <2>1, BinaryRuns
  <2> QED
    BY <1>1, <1>2, <1>4, <1>5, <2>2
<1>7. OrZero(R, w.ra) \in Int /\ Literal(w) \in Int /\ x \in Int /\ Low(x) = Low(Literal(w))
  <2>1. R \in Machine
    BY DEF Sim
  <2> QED
    BY <1>3, <2>1, RegIsWord, PpcImmediates DEF Word, x
<1>8. Emitted("add", FALSE, OrZero(R, w.ra), x) = Ea(R, w)
  BY <1>7, AddIsLow DEF Ea
<1>9. /\ Ea(R, w) \in 0..(2 ^ NarrowBits - 1)
      /\ Address(Ea(R, w)) = Ea(R, w)
  BY <1>7, LowIsNarrow DEF Ea
<1>10. Goes(c, t, e, v)
  BY <1>4, <1>6, GoesOn DEF Computes
<1> QED
  BY <1>6, <1>8, <1>9, <1>10 DEF Computes, e

LEMMA LoadedRuns ==
  ASSUME NEW c, NEW t, NEW R, NEW n \in Nat, n + 3 <= VRegs, Sim(c, t, R, n),
         NEW w \in Words["ppc"], w.ra \in Indices, w.rd \in Indices,
         NEW bytes \in Sizes, NEW update \in BOOLEAN
  PROVE  LET d == LowerLoad(c, w, bytes, update)
         IN  /\ InMap(Ea(R, w), bytes) => Does(c, t, d, Loaded(R, w, bytes, update), n + 3)
             /\ ~InMap(Ea(R, w), bytes) => FaultsAt(c, t, d, R)
             /\ InMap(Ea(R, w), bytes) => Loaded(R, w, bytes, update).status = R.status
             /\ ~InMap(Ea(R, w), bytes) => Loaded(R, w, bytes, update) = Fault(R)
<1> DEFINE e == LowerEa(c, w)
           a == Ea(R, w)
           x == Result(e)
           f == Define(e, MemOp("load", bytes, TRUE), <<x>>)
           l == WriteBack(f, w.rd)
           d == LowerLoad(c, w, bytes, update)
           val == LoadBytes(R.mem, a, bytes, TRUE)
           S == Written(R, w.rd, val, FALSE)
<1>1. d = IF update THEN write_reg(l, Gpr(w.ra), x) ELSE l
  BY DEF LowerLoad
<1>2. Loaded(R, w, bytes, update) =
        IF ~InMap(a, bytes) THEN Fault(R)
        ELSE IF update THEN [S EXCEPT !.reg[Gpr(w.ra)] = a] ELSE S
  BY DEF Loaded, Ea, Written
<1>3. n + 2 \in Nat /\ n + 2 \in 0..(VRegs - 1) /\ (n + 2) + 1 = n + 3 /\ n + 2 <= VRegs
  BY RegsLimited
<1> HIDE DEF e, a, x, d, S
<1>4. PICK u : /\ Sim(e, u, R, n + 2) /\ Goes(c, t, e, u)
               /\ x \in VReg /\ Known(e, x) /\ Val(u, x) = a /\ Address(a) = a
  BY <1>3, EaRuns DEF e, a, x
<1>5. Gpr(w.ra) \in CachedReg \ {cr} /\ Gpr(w.rd) \in GuestReg
  BY RegIs
<1> HIDE DEF f, val
<1>6. /\ InMap(a, bytes) => \E v : Computes(e, u, f, v, R, n + 3, val)
      /\ ~InMap(a, bytes) => FaultsAt(e, u, f, R)
      /\ Open(f, n + 3)
  <2>1. /\ InMap(Val(u, x), bytes) =>
             \E v : Computes(e, u, f, v, R, (n + 2) + 1, LoadBytes(R.mem, Val(u, x), bytes, TRUE))
        /\ ~InMap(Val(u, x), bytes) => FaultsAt(e, u, f, R)
        /\ Open(f, (n + 2) + 1)
    BY <1>3, <1>4, LoadRuns DEF f
  <2> QED
    BY <1>3, <1>4, <2>1 DEF val
<1>7. ASSUME InMap(a, bytes)
      PROVE  Does(c, t, d, Loaded(R, w, bytes, update), n + 3)
             /\ Loaded(R, w, bytes, update).status = R.status
  <2>1. PICK v : Computes(e, u, f, v, R, n + 3, val)
    BY <1>6, <1>7
  <2>2. Sim(l, v, S, n + 3) /\ Goes(e, u, l, v)
    BY <2>1, WriteBackRuns DEF S
  <2>3. Known(l, x) /\ Val(v, x) = a
    BY <1>4, <2>2 DEF Goes
  <2> HIDE DEF l
  <2>4. R \in Machine /\ val \in Word
    <3>1. val \in 0..(2 ^ NarrowBits - 1)
      BY LoadIsNarrow DEF val
    <3> QED
      BY <1>4, <3>1, Widths DEF Sim, Word
  <2>5. S \in Machine /\ S.status = R.status
    <3> DEFINE r == Gpr(w.rd)
    <3>1. S = [R EXCEPT !.reg[r] = val] /\ r \in GuestReg
      BY <1>5 DEF S, Written
    <3> HIDE DEF r
    <3> QED
      BY <2>4, <3>1, RegSet
  <2>6. CASE update
    <3> DEFINE r == Gpr(w.ra)
               P == [S EXCEPT !.reg[r] = a]
    <3>1. Sim(write_reg(l, r, x), v, [S EXCEPT !.reg[r] = Val(v, x)], n + 3)
          /\ Goes(l, v, write_reg(l, r, x), v)
      <4> HIDE DEF r
      <4> QED
        BY <1>4, <1>5, <2>2, <2>3, WriteRuns DEF r
    <3>2. d = write_reg(l, r, x) /\ Loaded(R, w, bytes, update) = P
      BY <1>1, <1>2, <1>7, <2>6
    <3> HIDE DEF r
    <3>3. Sim(d, v, P, n + 3) /\ Goes(l, v, d, v)
      BY <2>3, <3>1, <3>2
    <3>4. Goes(c, t, d, v)
      BY <1>4, <2>2, <3>3, GoesOn
    <3>5. a \in Word /\ r \in GuestReg
      <4>1. Val(v, x) \in Word
        BY <1>4, <2>2, <2>3, VRegIsNoWord, ValIsWord DEF Sim, Ready
      <4> QED
        BY <1>5, <2>3, <4>1, RegIs DEF r
    <3>6. P.status = S.status
      BY <2>5, <3>5, RegSet
    <3> QED
      BY <2>5, <3>2, <3>3, <3>4, <3>6 DEF Does
  <2>7. CASE ~update
    <3>1. d = l /\ Loaded(R, w, bytes, update) = S
      BY <1>1, <1>2, <1>7, <2>7
    <3>2. Goes(c, t, l, v)
      BY <1>4, <2>2, GoesOn
    <3> QED
      BY <2>2, <2>5, <3>1, <3>2 DEF Does
  <2> QED
    BY <2>6, <2>7
<1>8. ASSUME ~InMap(a, bytes)
      PROVE  FaultsAt(c, t, d, R) /\ Loaded(R, w, bytes, update) = Fault(R)
  <2>1. FaultsAt(c, t, f, R)
    BY <1>4, <1>6, <1>8, FaultsOn
  <2>2. l = write_reg(f, Gpr(w.rd), Result(f))
    BY DEF WriteBack
  <2>3. Gpr(w.rd) # cr /\ Gpr(w.ra) # cr
    BY RegIs
  <2> HIDE DEF l
  <2>4. l.ops = f.ops /\ l.at[cr] = f.at[cr] /\ Formed(l)
    <3>1. Formed(f)
      BY <1>6, OpenIsFormed
    <3> QED
      BY <2>2, <2>3, <3>1, OpsWritten
  <2>5. d.ops = f.ops /\ d.at[cr] = f.at[cr]
    BY <1>1, <2>3, <2>4, OpsWritten
  <2> QED
    BY <1>2, <1>8, <2>1, <2>5, FaultsSame
<1> QED
  BY <1>7, <1>8 DEF a, d

LEMMA StoredRuns ==
  ASSUME NEW c, NEW t, NEW R, NEW n \in Nat, n + 3 <= VRegs, Sim(c, t, R, n),
         NEW w \in Words["ppc"], w.ra \in Indices, w.rd \in Indices,
         NEW bytes \in Sizes, NEW update \in BOOLEAN
  PROVE  LET d == LowerStore(c, w, bytes, update)
         IN  /\ InMap(Ea(R, w), bytes) => Does(c, t, d, Stored(R, w, bytes, update), n + 3)
             /\ ~InMap(Ea(R, w), bytes) => FaultsAt(c, t, d, R)
             /\ InMap(Ea(R, w), bytes) => Stored(R, w, bytes, update).status = R.status
             /\ ~InMap(Ea(R, w), bytes) => Stored(R, w, bytes, update) = Fault(R)
<1> DEFINE e == LowerEa(c, w)
           a == Ea(R, w)
           x == Result(e)
           q == Gpr(w.rd)
           f == read_reg(e, q)
           y == f.at[q]
           s == Push(f, MemOp("store", bytes, TRUE), <<x, y>>)
           d == LowerStore(c, w, bytes, update)
           S == [R EXCEPT !.mem = StoreBytes(@, a, bytes, TRUE, RegOf(R, w.rd))]
<1>1. d = IF update THEN write_reg(s, Gpr(w.ra), x) ELSE s
  BY DEF LowerStore
<1>2. Stored(R, w, bytes, update) =
        IF ~InMap(a, bytes) THEN Fault(R)
        ELSE IF update THEN [S EXCEPT !.reg[Gpr(w.ra)] = a] ELSE S
  BY DEF Stored, Ea
<1>3. /\ n + 2 \in Nat /\ n + 2 \in 0..(VRegs - 1) /\ (n + 2) + 1 = n + 3 /\ n + 2 <= VRegs
      /\ n + 3 \in Nat
  BY RegsLimited
<1>4. q \in CachedReg \ {cr} /\ R.reg[q] = RegOf(R, w.rd) /\ Gpr(w.ra) \in CachedReg \ {cr}
      /\ Gpr(w.ra) \in GuestReg
  BY RegIs DEF RegOf
<1> HIDE DEF e, a, x, d, S, q, f, y, s
<1>5. PICK u1 : /\ Sim(e, u1, R, n + 2) /\ Goes(c, t, e, u1)
                /\ x \in VReg /\ Known(e, x) /\ Val(u1, x) = a
  BY <1>3, EaRuns DEF e, a, x
<1>6. Address(a) = a /\ a \in Nat /\ a \in Word
  <2>1. Address(a) = a /\ a \in 0..(2 ^ NarrowBits - 1)
    BY <1>3, EaRuns DEF a
  <2> QED
    BY <2>1, Widths DEF Word
<1>7. PICK u : RegKnown(e, u1, f, u, R, n + 3, q)
  BY <1>3, <1>4, <1>5, RegReadRuns DEF f
<1>8. /\ Sim(f, u, R, n + 3) /\ Goes(e, u1, f, u)
      /\ y \in VReg /\ Known(f, y) /\ Val(u, y) = RegOf(R, w.rd)
  BY <1>4, <1>7 DEF RegKnown, y
<1>9. Known(f, x) /\ Val(u, x) = a
  BY <1>5, <1>8 DEF Goes
<1>10. Goes(c, t, f, u)
  BY <1>5, <1>8, GoesOn
<1>11. /\ InMap(a, bytes) => Does(f, u, s, S, n + 3)
       /\ ~InMap(a, bytes) => FaultsAt(f, u, s, R)
       /\ Open(s, n + 3)
  <2>1. /\ InMap(Val(u, x), bytes) =>
             Does(f, u, s, [R EXCEPT !.mem = StoreBytes(@, Val(u, x), bytes, TRUE, Val(u, y))],
                  n + 3)
        /\ ~InMap(Val(u, x), bytes) => FaultsAt(f, u, s, R)
        /\ Open(s, n + 3)
    <3>1. Address(Val(u, x)) = Val(u, x) /\ Val(u, x) \in Nat
      BY <1>6, <1>9
    <3> QED
      BY ONLY <1>3, <1>5, <1>8, <1>9, <3>1, bytes \in Sizes, StoreRuns DEF s
  <2> QED
    BY <1>8, <1>9, <2>1 DEF S
<1>12. ASSUME InMap(a, bytes)
       PROVE  Does(c, t, d, Stored(R, w, bytes, update), n + 3)
              /\ Stored(R, w, bytes, update).status = R.status
  <2>1. PICK v : Sim(s, v, S, n + 3) /\ Goes(f, u, s, v)
    BY <1>11, <1>12 DEF Does
  <2>2. Goes(c, t, s, v)
    BY <1>10, <2>1, GoesOn
  <2>3. Known(s, x) /\ Val(v, x) = a
    BY <1>9, <2>1 DEF Goes
  <2>4. S \in Machine /\ R \in Machine
    BY <1>8, <2>1 DEF Sim
  <2>5. S.status = R.status
    BY <2>4 DEF S, Machine
  <2>6. CASE update
    <3> DEFINE r == Gpr(w.ra)
               P == [S EXCEPT !.reg[r] = a]
    <3>1. Sim(write_reg(s, r, x), v, [S EXCEPT !.reg[r] = Val(v, x)], n + 3)
          /\ Goes(s, v, write_reg(s, r, x), v)
      <4> HIDE DEF r
      <4> QED
        BY <1>4, <1>5, <2>1, <2>3, WriteRuns DEF r
    <3>2. d = write_reg(s, r, x) /\ Stored(R, w, bytes, update) = P
      BY <1>1, <1>2, <1>12, <2>6
    <3>3. r \in GuestReg
      BY <1>4
    <3> HIDE DEF r
    <3>4. Sim(d, v, P, n + 3) /\ Goes(s, v, d, v)
      BY <2>3, <3>1, <3>2
    <3>5. Goes(c, t, d, v)
      BY <2>2, <3>4, GoesOn
    <3>6. P.status = S.status
      BY <1>6, <2>4, <3>3, RegSet
    <3> QED
      BY <2>5, <3>2, <3>4, <3>5, <3>6 DEF Does
  <2>7. CASE ~update
    <3>1. d = s /\ Stored(R, w, bytes, update) = S
      BY <1>1, <1>2, <1>12, <2>7
    <3> QED
      BY <2>1, <2>2, <2>5, <3>1 DEF Does
  <2> QED
    BY <2>6, <2>7
<1>13. ASSUME ~InMap(a, bytes)
       PROVE  FaultsAt(c, t, d, R) /\ Stored(R, w, bytes, update) = Fault(R)
  <2>1. FaultsAt(c, t, s, R)
    BY <1>10, <1>11, <1>13, FaultsOn
  <2>2. Formed(s) /\ Gpr(w.ra) # cr
    BY <1>4, <1>11, OpenIsFormed
  <2>3. d.ops = s.ops /\ d.at[cr] = s.at[cr]
    BY <1>1, <2>2, OpsWritten
  <2> QED
    BY <1>2, <1>13, <2>1, <2>3, FaultsSame
<1> QED
  BY <1>12, <1>13 DEF a, d

-----------------------------------------------------------------------------
(* Rotation and masks.                                                     *)

(* The ones up to a place.                                                 *)
LEMMA BitOfOnes ==
  ASSUME NEW k \in 0..WideBits, NEW n \in 0..(WideBits - 1)
  PROVE  BitOf(2 ^ k - 1, n) = IF n < k THEN 1 ELSE 0
<1> DEFINE ones == 2 ^ k - 1
           a    == Alu("and", WideBits, 2 ^ WideBits - 1, ones)
           S    == 0..(k - 1)
<1>1. /\ k \in Nat /\ WideBits \in Nat /\ n \in 0..WideBits /\ 2 ^ k \in Nat \ {0}
      /\ WideBits \in 0..WideBits
  BY BitsAssumption, Power
<1>2. ones \in 0..(2 ^ k - 1) /\ ones \in Int
  BY <1>1
<1>3. CASE n < k
  <2> DEFINE e == k - 1 - n
             d == 2 ^ n
             g == 2 ^ e
  <2>1. n \in Nat /\ e \in Nat /\ k - 1 \in 0..WideBits /\ n + e = k - 1 /\ (k - 1) + 1 = k
        /\ e \in 0..WideBits /\ k - 1 <= WideBits + 1
    BY <1>1, <1>3
  <2>2. 2 ^ k = 2 * 2 ^ (k - 1)
    BY <2>1, PowerAssumption
  <2> HIDE DEF e
  <2>3. 2 ^ (k - 1) = d * g
    BY ONLY <2>1, PowerSum
  <2>4. d \in Nat \ {0} /\ g \in Nat \ {0}
    BY <1>1, <2>1, Power
  <2> HIDE DEF d, g
  <2>5. ones = (2 * g - 1) * d + (d - 1)
    BY <2>2, <2>3, <2>4
  <2>6. 2 * g - 1 \in Int /\ d - 1 \in 0..(d - 1)
    BY <2>4
  <2>7. ones \div d = 2 * g - 1
    <3> DEFINE q == 2 * g - 1
               r == d - 1
    <3>1. ones = q * d + r /\ q \in Int /\ r \in 0..(d - 1)
      BY <2>5, <2>6
    <3> HIDE DEF ones, q, r
    <3>2. ones \div d = q
      BY ONLY <2>4, <3>1, Quotient
    <3> QED
      BY <3>2 DEF q
  <2>8. (2 * g - 1) % 2 = 1
    BY <2>4
  <2> QED
    BY <1>3, <2>7, <2>8 DEF BitOf, d
<1>4. CASE ~(n < k)
  <2>1. n \in k..WideBits
    BY <1>1, <1>4
  <2> HIDE DEF ones
  <2>2. BitOf(ones, n) = 0
    BY <1>1, <1>2, <2>1, NoHighBits
  <2> QED
    BY <1>4, <2>2 DEF ones
<1> QED
  BY <1>3, <1>4

LEMMA MaskBits ==
  ASSUME NEW x \in 0..(NarrowBits - 1), NEW y \in 0..(NarrowBits - 1)
  PROVE  /\ mask_mbme(x, y) \in 0..(2 ^ NarrowBits - 1)
         /\ \A n \in 0..(WideBits - 1) : BitOf(mask_mbme(x, y), n) = 1 <=> InMask(n, x, y)
<1> DEFINE e == NarrowBits - 1 - y
           h == NarrowBits - x
           f == y + 1
           N == 2 ^ NarrowBits
           start == 2 ^ h - 1
           end   == N - 2 ^ e
<1>1. /\ NarrowBits \in 0..WideBits /\ NarrowBits \in Nat /\ WideBits \in Nat
      /\ NarrowBits <= WideBits + 1
  BY BitsAssumption
<1>2. /\ e \in 0..NarrowBits /\ e \in 0..WideBits /\ e \in Nat
      /\ h \in 0..NarrowBits /\ h \in 0..WideBits /\ f \in 0..NarrowBits /\ f \in 0..WideBits
      /\ f \in Nat /\ e + f = NarrowBits
  BY <1>1
<1>3. mask_mbme(x, y) = Alu(IF x <= y THEN "and" ELSE "or", NarrowBits, start, end)
  BY DEF mask_mbme
<1>4. /\ 2 ^ h <= N /\ 2 ^ h \in Nat \ {0} /\ 2 ^ e <= N /\ 2 ^ e \in Nat \ {0}
      /\ N \in Nat \ {0} /\ 2 ^ f \in Nat \ {0}
  BY <1>1, <1>2, PowerGrows
<1>5. start \in 0..(N - 1) /\ end \in 0..(N - 1)
  BY <1>4
<1>6. N = 2 ^ e * 2 ^ f
  <2> HIDE DEF e, f
  <2> QED
    BY ONLY <1>1, <1>2, PowerSum DEF N
<1>7. end = (2 ^ f - 1) * 2 ^ e
  <2> DEFINE p == 2 ^ e
             q == 2 ^ f
  <2>1. p \in Nat /\ q \in Nat /\ N = p * q
    BY <1>4, <1>6
  <2> HIDE DEF p, q, N
  <2>2. N - p = (q - 1) * p
    BY <2>1
  <2> QED
    BY <2>2 DEF p, q
<1> HIDE DEF e, f, h
<1>8. ASSUME NEW n \in 0..(WideBits - 1)
      PROVE  /\ BitOf(start, n) = 1 <=> n < h
             /\ BitOf(end, n) = 1 <=> ~(n < e) /\ n < NarrowBits
  <2>1. BitOf(start, n) = IF n < h THEN 1 ELSE 0
    BY <1>2, BitOfOnes
  <2>2. n \in 0..WideBits /\ 2 ^ f - 1 \in Int
    BY <1>1, <1>4
  <2>3. BitOf((2 ^ f - 1) * 2 ^ e, n) = IF n < e THEN 0 ELSE BitOf(2 ^ f - 1, n - e)
    BY ONLY <1>2, <2>2, BitOfProduct
  <2>4. CASE n < e
    BY <1>7, <2>1, <2>3, <2>4
  <2>5. CASE ~(n < e)
    <3>1. n - e \in 0..(WideBits - 1) /\ (n - e < f <=> n < NarrowBits)
      BY <1>1, <1>2, <2>5
    <3>2. BitOf(2 ^ f - 1, n - e) = IF n - e < f THEN 1 ELSE 0
      BY ONLY <1>2, <3>1, BitOfOnes
    <3> QED
      BY <1>7, <2>1, <2>3, <2>5, <3>1, <3>2
  <2> QED
    BY <2>4, <2>5
<1> HIDE DEF start, end
<1>9. /\ Alu("and", NarrowBits, start, end) \in 0..(N - 1)
      /\ Alu("or", NarrowBits, start, end) \in 0..(N - 1)
      /\ \A n \in 0..(WideBits - 1) :
           /\ BitOf(Alu("and", NarrowBits, start, end), n) = 1
                <=> BitOf(start, n) = 1 /\ BitOf(end, n) = 1
           /\ BitOf(Alu("or", NarrowBits, start, end), n) = 1
                <=> BitOf(start, n) = 1 \/ BitOf(end, n) = 1
  BY <1>1, <1>5, LogicBits
<1>10. ASSUME NEW n \in 0..(WideBits - 1)
       PROVE  InMask(n, x, y) <=>
                IF x <= y THEN n < h /\ ~(n < e) /\ n < NarrowBits
                ELSE n < h \/ (~(n < e) /\ n < NarrowBits)
  BY <1>1 DEF InMask, h, e
<1>11. CASE x <= y
  BY <1>3, <1>8, <1>9, <1>10, <1>11
<1>12. CASE ~(x <= y)
  BY <1>3, <1>8, <1>9, <1>10, <1>12
<1> QED
  BY <1>11, <1>12 DEF N

LEMMA RotatedBits ==
  ASSUME NEW x \in 0..(2 ^ NarrowBits - 1), NEW k \in 0..(NarrowBits - 1)
  PROVE  /\ RotatedLeft(x, k) \in 0..(2 ^ NarrowBits - 1)
         /\ \A n \in 0..(WideBits - 1) :
              BitOf(RotatedLeft(x, k), n) = 1
                <=> n < NarrowBits /\ BitOf(x, (n - k) % NarrowBits) = 1
<1> DEFINE S == {n \in 0..(WideBits - 1) :
                   n < NarrowBits /\ BitOf(x, (n - k) % NarrowBits) = 1}
<1>1. RotatedLeft(x, k) = Ones(S)
  BY DEF RotatedLeft, WithBits
<1>2. NarrowBits \in 0..WideBits
  BY BitsAssumption
<1>3. \A n \in S : n \in Int => n < NarrowBits
  OBVIOUS
<1>4. \A n \in 0..(WideBits - 1) :
        n \in S <=> n < NarrowBits /\ BitOf(x, (n - k) % NarrowBits) = 1
  OBVIOUS
<1> HIDE DEF S
<1>5. /\ Ones(S) \in 0..(2 ^ NarrowBits - 1)
      /\ \A n \in 0..(WideBits - 1) : BitOf(Ones(S), n) = IF n \in S THEN 1 ELSE 0
  BY <1>2, <1>3, OnesFacts
<1> QED
  BY <1>1, <1>4, <1>5

(* The two shifts and the or of rlwinm rotate.                             *)
LEMMA ShiftsRotate ==
  ASSUME NEW x \in Word, NEW k \in 1..(NarrowBits - 1)
  PROVE  Emitted("or", FALSE, Emitted("shl", FALSE, x, k),
                              Emitted("shr", FALSE, x, NarrowBits - k))
           = RotatedLeft(Low(x), k)
<1> DEFINE X  == Low(x)
           e  == NarrowBits - k
           hi == Trunc(X * 2 ^ k, NarrowBits)
           lo == X \div 2 ^ e
           o  == Alu("or", NarrowBits, hi, lo)
           rot == RotatedLeft(X, k)
<1>1. /\ NarrowBits \in 0..WideBits /\ NarrowBits \in Nat /\ WideBits \in Nat
      /\ WideBits = 2 * NarrowBits
      /\ k \in 0..WideBits /\ k \in Nat /\ e \in Nat /\ e \in 0..WideBits
      /\ k % NarrowBits = k /\ e % NarrowBits = e /\ k \in 0..(NarrowBits - 1)
  BY BitsAssumption, WidthAssumption
<1>2. X \in 0..(2 ^ NarrowBits - 1) /\ x \in Int /\ Low(X) = X
  <2>1. x \in Int
    BY DEF Word
  <2> QED
    BY <2>1, LowIsNarrow
<1>3. X \in Int /\ 2 ^ k \in Nat \ {0} /\ 2 ^ e \in Nat \ {0} /\ 2 ^ NarrowBits \in Nat \ {0}
      /\ X * 2 ^ k \in Int
  <2>1. X \in Int /\ 2 ^ k \in Nat \ {0} /\ 2 ^ e \in Nat \ {0} /\ 2 ^ NarrowBits \in Nat \ {0}
    BY <1>1, <1>2, Power
  <2> DEFINE p == 2 ^ k
  <2> HIDE DEF X, p
  <2>2. X * p \in Int
    BY <2>1 DEF p
  <2> QED
    BY <2>1, <2>2 DEF p
<1>4. Trunc(k, NarrowBits) = k /\ Trunc(e, NarrowBits) = e
  <2>1. k < 2 ^ k /\ e < 2 ^ e /\ 2 ^ k <= 2 ^ NarrowBits /\ 2 ^ e <= 2 ^ NarrowBits
    <3>1. k \in 0..NarrowBits /\ e \in 0..NarrowBits
      BY <1>1
    <3> QED
      BY <1>1, <3>1, PowerExceeds, PowerGrows
  <2>2. k \in 0..(2 ^ NarrowBits - 1) /\ e \in 0..(2 ^ NarrowBits - 1) /\ k \in Int /\ e \in Int
    BY <1>1, <1>3, <2>1
  <2> HIDE DEF e
  <2> QED
    BY ONLY <1>1, <2>2, TruncFacts
<1>5. Emitted("shl", FALSE, x, k) = hi /\ Emitted("shr", FALSE, x, e) = lo
  BY <1>1, <1>4, AluIs DEF Emitted, Low
<1> HIDE DEF X, e
<1>6. hi \in 0..(2 ^ NarrowBits - 1)
  BY <1>1, <1>3, TruncFacts
<1>7. lo \in 0..(2 ^ NarrowBits - 1)
  <2> DEFINE d == 2 ^ e
             N == 2 ^ NarrowBits
  <2>1. X \in 0..(N - 1) /\ d \in Nat \ {0} /\ N \in Nat \ {0}
    BY <1>2, <1>3
  <2> HIDE DEF d, N
  <2> DEFINE q == X \div d
             r == X % d
  <2>2. X = q * d + r /\ r \in 0..(d - 1) /\ q \in Int
    BY <2>1, Divides
  <2> HIDE DEF q, r
  <2>3. q >= 0
    <3> SUFFICES ASSUME ~(q >= 0) PROVE FALSE
      OBVIOUS
    <3>1. q <= - 1 /\ q * d <= - d
      BY <2>1, <2>2
    <3> QED
      BY <2>1, <2>2, <3>1
  <2>4. q <= X
    <3>1. q * d >= q
      BY <2>1, <2>2, <2>3
    <3> QED
      BY <2>1, <2>2, <3>1
  <2>5. q \in 0..(N - 1)
    BY <2>1, <2>2, <2>3, <2>4
  <2> QED
    BY <2>5 DEF q, d, N
<1>8. Low(hi) = hi /\ Low(lo) = lo
  <2> HIDE DEF hi, lo
  <2>1. hi \in Int /\ lo \in Int
    BY <1>3, <1>6, <1>7
  <2> QED
    BY <1>1, <1>6, <1>7, <2>1, TruncFacts DEF Low
<1>9. Emitted("or", FALSE, hi, lo) = o
  BY <1>8 DEF Emitted, Low
<1>10. ASSUME NEW n \in 0..(NarrowBits - 1)
       PROVE  /\ BitOf(hi, n) = 1 <=> ~(n < k) /\ BitOf(X, n - k) = 1
              /\ BitOf(lo, n) = 1 <=> n < k /\ BitOf(X, e + n) = 1
              /\ (n - k) % NarrowBits = IF n < k THEN e + n ELSE n - k
  <2>1. n \in 0..WideBits /\ n \in 0..(WideBits - 1) /\ n \in Nat /\ n < NarrowBits
        /\ n + e <= WideBits /\ n + e = e + n
    BY <1>1 DEF e
  <2>2. BitOf(hi, n) = BitOf(X * 2 ^ k, n)
    BY <1>1, <1>3, <2>1, BitOfTrunc
  <2>3. BitOf(X * 2 ^ k, n) = IF n < k THEN 0 ELSE BitOf(X, n - k)
    BY ONLY <1>1, <1>3, <2>1, BitOfProduct
  <2>4. BitOf(lo, n) = BitOf(X, e + n)
    BY ONLY <1>1, <1>3, <2>1, BitOfQuotient
  <2>5. ~(n < k) => BitOf(X, e + n) = 0
    <3> SUFFICES ASSUME ~(n < k) PROVE BitOf(X, e + n) = 0
      OBVIOUS
    <3> DEFINE i == e + n
    <3>1. i \in NarrowBits..WideBits
      BY <1>1, <2>1 DEF e
    <3> HIDE DEF i
    <3>2. BitOf(X, i) = 0
      BY ONLY <1>1, <1>2, <3>1, NoHighBits
    <3> QED
      BY <3>2 DEF i
  <2>6. (n - k) % NarrowBits = IF n < k THEN e + n ELSE n - k
    <3>1. CASE n < k
      <4>1. n - k = (- 1) * NarrowBits + (e + n) /\ e + n \in 0..(NarrowBits - 1)
            /\ - 1 \in Int /\ NarrowBits \in Nat \ {0}
        BY <1>1, <2>1, <3>1 DEF e
      <4> DEFINE r == e + n
                 q == - 1
      <4>2. n - k = q * NarrowBits + r /\ r \in 0..(NarrowBits - 1) /\ q \in Int
        BY <4>1
      <4> HIDE DEF r, q
      <4>3. (n - k) % NarrowBits = r
        BY ONLY <4>1, <4>2, Quotient
      <4> QED
        BY <3>1, <4>3 DEF r
    <3>2. CASE ~(n < k)
      <4>1. n - k \in 0..(NarrowBits - 1)
        BY <1>1, <2>1, <3>2
      <4> QED
        BY <1>1, <3>2, <4>1
    <3> QED
      BY <3>1, <3>2
  <2> HIDE DEF hi, lo
  <2> QED
    BY <2>2, <2>3, <2>4, <2>5, <2>6
<1> HIDE DEF hi, lo
<1>11. /\ o \in 0..(2 ^ NarrowBits - 1)
       /\ \A n \in 0..(WideBits - 1) : BitOf(o, n) = 1 <=> BitOf(hi, n) = 1 \/ BitOf(lo, n) = 1
  BY <1>1, <1>6, <1>7, LogicBits
<1>12. /\ rot \in 0..(2 ^ NarrowBits - 1)
       /\ \A n \in 0..(WideBits - 1) :
            BitOf(rot, n) = 1 <=> n < NarrowBits /\ BitOf(X, (n - k) % NarrowBits) = 1
  BY <1>1, <1>2, RotatedBits
<1> HIDE DEF o, rot
<1>13. ASSUME NEW n \in 0..(NarrowBits - 1)
       PROVE  BitOf(o, n) = BitOf(rot, n)
  <2>1. n \in 0..(WideBits - 1) /\ n \in 0..WideBits /\ n < NarrowBits
    BY <1>1
  <2>2. o \in Int /\ rot \in Int
    BY <1>3, <1>11, <1>12
  <2>3. BitOf(o, n) \in 0..1 /\ BitOf(rot, n) \in 0..1
    BY <2>1, <2>2, BitRange
  <2>4. BitOf(o, n) = 1 <=> BitOf(rot, n) = 1
    BY <1>10, <1>11, <1>12, <2>1
  <2> QED
    BY <2>3, <2>4
<1>14. o = rot
  BY <1>1, <1>11, <1>12, <1>13, SameBits DEF SameBelow
<1> QED
  BY <1>5, <1>9, <1>14 DEF rot, X, e

LEMMA RotatedByNothing ==
  ASSUME NEW x \in Int
  PROVE  RotatedLeft(Low(x), 0) = Low(x)
<1> DEFINE X   == Low(x)
           rot == RotatedLeft(X, 0)
<1>1. NarrowBits \in 0..WideBits /\ NarrowBits \in 1..WideBits /\ WideBits \in Nat
      /\ 0 \in 0..(NarrowBits - 1) /\ 2 ^ NarrowBits \in Nat \ {0}
  BY BitsAssumption, Power
<1>2. X \in 0..(2 ^ NarrowBits - 1) /\ X \in Int
  BY <1>1, LowIsNarrow
<1> HIDE DEF X
<1>3. /\ rot \in 0..(2 ^ NarrowBits - 1)
      /\ \A n \in 0..(WideBits - 1) :
           BitOf(rot, n) = 1 <=> n < NarrowBits /\ BitOf(X, (n - 0) % NarrowBits) = 1
  BY <1>1, <1>2, RotatedBits
<1> HIDE DEF rot
<1>4. ASSUME NEW n \in 0..(NarrowBits - 1)
      PROVE  BitOf(rot, n) = BitOf(X, n)
  <2>1. n \in 0..(WideBits - 1) /\ n \in 0..WideBits /\ n < NarrowBits
        /\ (n - 0) % NarrowBits = n /\ rot \in Int
    BY <1>1, <1>3
  <2>2. BitOf(rot, n) \in 0..1 /\ BitOf(X, n) \in 0..1
    BY <1>2, <2>1, BitRange
  <2>3. BitOf(rot, n) = 1 <=> BitOf(X, n) = 1
    BY <1>3, <2>1
  <2> QED
    BY <2>2, <2>3
<1>5. rot = X
  BY <1>1, <1>2, <1>3, <1>4, SameBits DEF SameBelow
<1> QED
  BY <1>5 DEF rot, X

Masked(rot, x, y) == WithBits(LAMBDA j : InMask(j, x, y) /\ BitOf(rot, j) = 1)

LEMMA AndMasks ==
  ASSUME NEW v \in Word, NEW x \in 0..(NarrowBits - 1), NEW y \in 0..(NarrowBits - 1)
  PROVE  Emitted("and", FALSE, v, mask_mbme(x, y)) = Masked(Low(v), x, y)
<1> DEFINE X    == Low(v)
           mask == mask_mbme(x, y)
           a    == Alu("and", NarrowBits, X, mask)
           S    == {n \in 0..(WideBits - 1) : InMask(n, x, y) /\ BitOf(X, n) = 1}
<1>1. NarrowBits \in 0..WideBits /\ WideBits \in Nat /\ 2 ^ NarrowBits \in Nat \ {0}
      /\ NarrowBits \in Nat
  BY BitsAssumption, Power
<1>2. v \in Int
  BY DEF Word
<1>3. X \in 0..(2 ^ NarrowBits - 1) /\ X \in Int
  BY <1>1, <1>2, LowIsNarrow
<1>4. /\ mask \in 0..(2 ^ NarrowBits - 1)
      /\ \A n \in 0..(WideBits - 1) : BitOf(mask, n) = 1 <=> InMask(n, x, y)
  BY MaskBits
<1>5. Emitted("and", FALSE, v, mask) = a
  <2> HIDE DEF mask
  <2>1. mask \in Int
    BY <1>1, <1>4
  <2>2. Trunc(mask, NarrowBits) = mask
    BY <1>1, <1>4, <2>1, TruncFacts
  <2> QED
    BY <2>2 DEF Emitted, Low
<1>6. Masked(X, x, y) = Ones(S)
  BY DEF Masked, WithBits
<1>7. \A n \in 0..(WideBits - 1) : n \in S <=> InMask(n, x, y) /\ BitOf(X, n) = 1
  OBVIOUS
<1>8. \A n \in S : n \in Int => n < NarrowBits
  BY DEF InMask
<1> HIDE DEF S, X, mask
<1>9. /\ Ones(S) \in 0..(2 ^ NarrowBits - 1)
      /\ \A n \in 0..(WideBits - 1) : BitOf(Ones(S), n) = IF n \in S THEN 1 ELSE 0
  BY <1>1, <1>8, OnesFacts
<1>10. /\ a \in 0..(2 ^ NarrowBits - 1)
       /\ \A n \in 0..(WideBits - 1) : BitOf(a, n) = 1 <=> BitOf(X, n) = 1 /\ BitOf(mask, n) = 1
  BY <1>1, <1>3, <1>4, LogicBits
<1> DEFINE o == Ones(S)
<1> HIDE DEF a, o
<1>11. ASSUME NEW n \in 0..(NarrowBits - 1)
       PROVE  BitOf(a, n) = BitOf(o, n)
  <2>1. n \in 0..(WideBits - 1) /\ n \in 0..WideBits /\ a \in Int
    BY <1>1, <1>10
  <2>2. BitOf(a, n) \in 0..1
    BY <2>1, BitRange
  <2>3. BitOf(a, n) = 1 <=> n \in S
    BY <1>4, <1>7, <1>10, <2>1
  <2> QED
    BY <1>9, <2>1, <2>2, <2>3 DEF o
<1>12. o \in 0..(2 ^ NarrowBits - 1)
  BY <1>9 DEF o
<1>13. a = o
  BY <1>1, <1>10, <1>11, <1>12, SameBits DEF SameBelow
<1> QED
  BY <1>5, <1>6, <1>13 DEF o, X, mask

LEMMA RlwinmRuns ==
  ASSUME NEW c, NEW t, NEW R, NEW n \in Nat, n + 9 <= VRegs, Sim(c, t, R, n),
         NEW w, w.ra \in Indices, w.rd \in Indices,
         w.rb \in 0..(NarrowBits - 1), w.mb \in 0..(NarrowBits - 1),
         w.me \in 0..(NarrowBits - 1)
  PROVE  LET rot == RotatedLeft(Low(RegOf(R, w.rd)), w.rb)
             val == Masked(rot, w.mb, w.me)
         IN  /\ Does(c, t, LowerRlwinm(c, w), Written(R, w.ra, val, w.rc), n + 9)
             /\ val \in 0..(2 ^ NarrowBits - 1)
<1> DEFINE q    == Gpr(w.rd)
           r    == read_reg(c, q)
           v    == r.at[q]
           hi   == emit_binary(r, "shl", FALSE, v, w.rb)
           lo   == emit_binary(hi, "shr", FALSE, v, NarrowBits - w.rb)
           both == emit_binary(lo, "or", FALSE, Result(hi), Result(lo))
           mask == mask_mbme(w.mb, w.me)
           X    == RegOf(R, w.rd)
           k    == w.rb
           rot  == RotatedLeft(Low(X), k)
           val  == Masked(rot, w.mb, w.me)
           d    == LowerRlwinm(c, w)
           f    == IF w.rb = 0 THEN emit_binary(r, "and", FALSE, v, mask)
                   ELSE emit_binary(both, "and", FALSE, Result(both), mask)
           e    == WriteBack(f, w.ra)
<1>1. /\ n \in 0..(VRegs - 1) /\ n + 1 \in 0..(VRegs - 1) /\ n + 2 \in 0..(VRegs - 1)
      /\ n + 3 \in 0..(VRegs - 1) /\ n + 4 \in 0..(VRegs - 1) /\ n + 5 \in Nat
      /\ (n + 1) + 1 = n + 2 /\ (n + 2) + 1 = n + 3 /\ (n + 3) + 1 = n + 4
      /\ (n + 4) + 1 = n + 5 /\ (n + 5) + 4 = n + 9 /\ (n + 5) + 4 <= VRegs
      /\ n + 1 <= n + 5 /\ n + 1 \in Nat /\ n + 2 \in Nat /\ n + 2 <= n + 5
  BY RegsLimited
<1>2. d = Record(e, w, w.ra)
  BY DEF LowerRlwinm
<1>3. q \in CachedReg \ {cr} /\ R.reg[q] = X /\ R \in Machine /\ X \in Word
  BY RegIs, RegIsWord DEF RegOf, Sim
<1>4. mask \in Word /\ mask \in Imm
  BY MaskIsWord, LiteralAssumption
<1>5. {"and", "or", "shl", "shr"} \subseteq arithNames
  BY DEF arithNames
<1> HIDE DEF q, r, X, rot, d, e, mask
<1>6. PICK u1 : RegKnown(c, t, r, u1, R, n + 1, q)
  BY <1>1, <1>3, RegReadRuns DEF r
<1>7. /\ Sim(r, u1, R, n + 1) /\ Goes(c, t, r, u1)
      /\ Known(r, v) /\ v \notin Imm /\ Val(u1, v) = X
  BY <1>3, <1>6, VRegIsNoWord DEF RegKnown
<1> HIDE DEF v
<1>8. /\ \E u : /\ Sim(e, u, Written(R, w.ra, val, FALSE), n + 5)
                /\ Goes(c, t, e, u)
                /\ Held(e, Gpr(w.ra))
      /\ val \in 0..(2 ^ NarrowBits - 1)
  <2>1. CASE k = 0
    <3>1. Known(r, mask) /\ Val(u1, mask) = mask
      BY <1>4, WordIsKnown
    <3>2. e = WriteBack(emit_binary(r, "and", FALSE, v, mask), w.ra)
      BY <2>1 DEF e
    <3>3. /\ \E u : /\ Sim(e, u, Written(R, w.ra, Emitted("and", FALSE, X, mask), FALSE),
                           (n + 1) + 1)
                    /\ Goes(r, u1, e, u)
                    /\ Held(e, Gpr(w.ra))
          /\ Emitted("and", FALSE, X, mask) \in 0..(2 ^ NarrowBits - 1)
      <4>1. "and" \in arithNames /\ (v \in Imm => v \in Word) /\ (mask \in Imm => mask \in Word)
        BY <1>4, <1>5, <1>7
      <4>2. /\ \E u : /\ Sim(WriteBack(emit_binary(r, "and", FALSE, v, mask), w.ra), u,
                             Written(R, w.ra, Emitted("and", FALSE, Val(u1, v), Val(u1, mask)),
                                     FALSE),
                             (n + 1) + 1)
                      /\ Goes(r, u1, WriteBack(emit_binary(r, "and", FALSE, v, mask), w.ra), u)
                      /\ Held(WriteBack(emit_binary(r, "and", FALSE, v, mask), w.ra), Gpr(w.ra))
            /\ Emitted("and", FALSE, Val(u1, v), Val(u1, mask)) \in 0..(2 ^ NarrowBits - 1)
        BY ONLY <1>1, <1>7, <3>1, <4>1, w.ra \in Indices, OpWritesBack
      <4> QED
        BY <1>7, <3>1, <3>2, <4>2
    <3>4. Emitted("and", FALSE, X, mask) = val
      <4>1. rot = Low(X)
        BY <1>3, <2>1, RotatedByNothing DEF rot, Word
      <4>2. Emitted("and", FALSE, X, mask) = Masked(Low(X), w.mb, w.me)
        BY <1>3, AndMasks DEF mask
      <4> QED
        BY <4>1, <4>2
    <3> HIDE DEF val
    <3>5. PICK u : /\ Sim(e, u, Written(R, w.ra, val, FALSE), n + 2)
                   /\ Goes(r, u1, e, u)
                   /\ Held(e, Gpr(w.ra))
      BY <1>1, <3>3, <3>4
    <3>6. Sim(e, u, Written(R, w.ra, val, FALSE), n + 5)
      BY <1>1, <3>5, SimGrows
    <3> QED
      BY <1>7, <3>3, <3>4, <3>5, <3>6, GoesOn
  <2>2. CASE k # 0
    <3> DEFINE h == NarrowBits - k
               H == Emitted("shl", FALSE, X, k)
               L == Emitted("shr", FALSE, X, h)
    <3>1. k \in 1..(NarrowBits - 1) /\ k \in Word /\ h \in Word
      <4>1. NarrowBits \in Nat /\ NarrowBits < 2 ^ NarrowBits /\ 2 ^ NarrowBits <= 2 ^ WideBits
            /\ 2 ^ NarrowBits \in Nat /\ 2 ^ WideBits \in Nat
        BY PowerExceeds, Widths, BitsAssumption
      <4> QED
        BY <2>2, <4>1 DEF Word
    <3> HIDE DEF h, k, hi, H, L
    <3>2. PICK u2 : Computes(r, u1, hi, u2, R, n + 2, H)
      <4>1. Known(r, k) /\ Val(u1, k) = k
        BY <3>1, WordIsKnown
      <4>2. "shl" \in arithNames /\ FALSE \in BOOLEAN /\ (v \in Imm => v \in Word)
            /\ (k \in Imm => k \in Word)
        BY <1>5, <1>7, <3>1
      <4>3. \E u : Computes(r, u1, emit_binary(r, "shl", FALSE, v, k), u, R, (n + 1) + 1,
                            Emitted("shl", FALSE, Val(u1, v), Val(u1, k)))
        BY ONLY <1>1, <1>7, <4>1, <4>2, BinaryRuns
      <4> QED
        BY <1>1, <1>7, <4>1, <4>3 DEF hi, H, k
    <3>3. /\ Sim(hi, u2, R, n + 2) /\ Goes(r, u1, hi, u2)
          /\ Known(hi, Result(hi)) /\ Result(hi) \in VReg /\ Val(u2, Result(hi)) = H
          /\ Known(hi, v) /\ Val(u2, v) = X
      BY <1>7, <3>2 DEF Computes, Goes
    <3> HIDE DEF lo
    <3>4. PICK u3 : Computes(hi, u2, lo, u3, R, n + 3, L)
      <4>1. Known(hi, h) /\ Val(u2, h) = h
        BY <3>1, WordIsKnown
      <4>2. "shr" \in arithNames /\ FALSE \in BOOLEAN /\ (v \in Imm => v \in Word)
            /\ (h \in Imm => h \in Word)
        BY <1>5, <1>7, <3>1
      <4>3. \E u : Computes(hi, u2, emit_binary(hi, "shr", FALSE, v, h), u, R, (n + 2) + 1,
                            Emitted("shr", FALSE, Val(u2, v), Val(u2, h)))
        BY ONLY <1>1, <3>3, <4>1, <4>2, BinaryRuns
      <4> QED
        BY <1>1, <3>3, <4>1, <4>3 DEF lo, L, h, k
    <3>5. /\ Sim(lo, u3, R, n + 3) /\ Goes(hi, u2, lo, u3)
          /\ Known(lo, Result(lo)) /\ Result(lo) \in VReg /\ Val(u3, Result(lo)) = L
          /\ Known(lo, Result(hi)) /\ Val(u3, Result(hi)) = H
      BY <3>3, <3>4 DEF Computes, Goes
    <3> HIDE DEF both
    <3>6. PICK u4 : Computes(lo, u3, both, u4, R, n + 4, Emitted("or", FALSE, H, L))
      <4>1. "or" \in arithNames /\ FALSE \in BOOLEAN
            /\ (Result(hi) \in Imm => Result(hi) \in Word)
            /\ (Result(lo) \in Imm => Result(lo) \in Word)
        BY <1>5, <3>3, <3>5, VRegIsNoWord
      <4>2. \E u : Computes(lo, u3, emit_binary(lo, "or", FALSE, Result(hi), Result(lo)), u, R,
                            (n + 3) + 1,
                            Emitted("or", FALSE, Val(u3, Result(hi)), Val(u3, Result(lo))))
        BY ONLY <1>1, <3>5, <4>1, BinaryRuns
      <4> QED
        BY <1>1, <3>5, <4>2 DEF both
    <3>7. Emitted("or", FALSE, H, L) = rot
      BY <1>3, <3>1, ShiftsRotate DEF H, L, h, rot
    <3>8. rot \in 0..(2 ^ NarrowBits - 1) /\ rot \in Word /\ Low(rot) = rot
      <4>1. Low(X) \in 0..(2 ^ NarrowBits - 1) /\ k \in 0..(NarrowBits - 1)
        BY <1>3, <3>1, LowIsNarrow, BitsAssumption DEF Word
      <4>2. rot \in 0..(2 ^ NarrowBits - 1)
        BY <4>1, RotatedBits DEF rot
      <4>3. NarrowBits \in 0..WideBits /\ rot \in Int
        BY <4>2, Widths, BitsAssumption
      <4>4. Trunc(rot, NarrowBits) = rot
        BY ONLY <4>2, <4>3, TruncFacts
      <4>5. rot \in Word
        BY <4>2, Widths DEF Word
      <4> QED
        BY <4>2, <4>4, <4>5 DEF Low
    <3>9. /\ Sim(both, u4, R, n + 4) /\ Goes(lo, u3, both, u4)
          /\ Known(both, Result(both)) /\ Result(both) \in VReg /\ Val(u4, Result(both)) = rot
      BY <3>6, <3>7 DEF Computes
    <3>10. e = WriteBack(emit_binary(both, "and", FALSE, Result(both), mask), w.ra)
      BY <2>2 DEF e, k
    <3>11. Known(both, mask) /\ Val(u4, mask) = mask
      BY <1>4, WordIsKnown
    <3> DEFINE Z == Result(both)
    <3>12. "and" \in arithNames /\ (Z \in Imm => Z \in Word) /\ (mask \in Imm => mask \in Word)
           /\ Known(both, Z) /\ Val(u4, Z) = rot
      BY <1>4, <1>5, <3>9, VRegIsNoWord
    <3> HIDE DEF Z
    <3>13. /\ \E u : /\ Sim(WriteBack(emit_binary(both, "and", FALSE, Z, mask), w.ra), u,
                            Written(R, w.ra, Emitted("and", FALSE, Val(u4, Z), Val(u4, mask)),
                                    FALSE),
                            (n + 4) + 1)
                     /\ Goes(both, u4, WriteBack(emit_binary(both, "and", FALSE, Z, mask), w.ra), u)
                     /\ Held(WriteBack(emit_binary(both, "and", FALSE, Z, mask), w.ra), Gpr(w.ra))
           /\ Emitted("and", FALSE, Val(u4, Z), Val(u4, mask)) \in 0..(2 ^ NarrowBits - 1)
      BY ONLY <1>1, <3>9, <3>11, <3>12, w.ra \in Indices, OpWritesBack
    <3>14. Emitted("and", FALSE, rot, mask) = val
      BY <3>8, AndMasks DEF mask
    <3> HIDE DEF val
    <3>15. PICK u : /\ Sim(e, u, Written(R, w.ra, val, FALSE), n + 5)
                    /\ Goes(both, u4, e, u)
                    /\ Held(e, Gpr(w.ra))
      BY <1>1, <3>10, <3>11, <3>12, <3>13, <3>14 DEF Z
    <3>16. Goes(c, t, lo, u3)
      BY <1>7, <3>3, <3>5, GoesOn
    <3>17. Goes(c, t, e, u)
      BY <3>9, <3>15, <3>16, GoesOn
    <3> QED
      BY <3>11, <3>12, <3>13, <3>14, <3>15, <3>17
  <2> QED
    BY <2>1, <2>2
<1> HIDE DEF val
<1>9. PICK u : /\ Sim(e, u, Written(R, w.ra, val, FALSE), n + 5)
               /\ Goes(c, t, e, u)
               /\ Held(e, Gpr(w.ra))
  BY <1>8
<1>10. Does(e, u, d, Written(R, w.ra, val, w.rc), n + 9)
  <2>1. Does(e, u, Record(e, w, w.ra), Written(R, w.ra, val, w.rc), (n + 5) + 4)
    BY ONLY <1>1, <1>3, <1>8, <1>9, RecordedRuns, w.ra \in Indices
  <2> QED
    BY <1>1, <1>2, <2>1
<1> QED
  BY <1>8, <1>9, <1>10, DoesOn DEF d, val, rot, X

-----------------------------------------------------------------------------
(* The other instructions that go on with the next.                        *)

(* Special registers are kept as wide as a gpr.                            *)
SprKinds(w) ==
  LET s == SprReg(spr_field(w))
  IN  /\ s \in CachedReg => s \in {xer, lr, ctr}
      /\ s \notin CachedReg => s \notin GuestReg /\ s.id = "spr"
      /\ Get(s) \in Kind
      /\ Set(s) \in Kind

LEMMA SprIs ==
  ASSUME NEW w \in Words["ppc"], Mnemonic(w) \in {"mfspr", "mtspr"}
  PROVE  SprKinds(w)
<1> DEFINE k == spr_field(w)
           s == SprReg(k)
<1>1. s \in Sprs
  BY DEF Sprs
<1>2. Get(s) \in OpKinds /\ Set(s) \in OpKinds
  <2> HIDE DEF s
  <2> QED
    BY <1>1 DEF OpKinds, Get, Set
<1>3. CASE k \in {1, 8, 9}
  <2>1. s \in {xer, lr, ctr}
    BY <1>3 DEF SprReg
  <2>2. s \in CachedReg
    BY <2>1, RegIs
  <2> QED
    BY <1>2, <2>1, <2>2, KindAssumption DEF SprKinds
<1>4. CASE k \notin {1, 8, 9}
  <2>1. s = Named("spr", k)
    BY <1>4 DEF SprReg
  <2> HIDE DEF k
  <2>2. s.id = "spr"
    BY <2>1 DEF Named
  <2> HIDE DEF s
  <2>3. s \notin GuestReg /\ s \notin CachedReg
    BY <2>2, GuestIds, RegIs
  <2> QED
    BY <1>2, <2>2, <2>3, KindAssumption DEF SprKinds, s, k
<1> QED
  BY <1>3, <1>4

LEMMA MfsprRuns ==
  ASSUME NEW c, NEW t, NEW R, NEW n \in Nat, n + 2 <= VRegs, Sim(c, t, R, n),
         NEW w, SprKinds(w), w.rd \in Indices
  PROVE  LET s == SprReg(spr_field(w))
         IN  Does(c, t, LowerMfspr(c, w),
                  Written(R, w.rd, IF s \in CachedReg THEN R.reg[s] ELSE 0, FALSE), n + 1)
<1> DEFINE s == SprReg(spr_field(w))
           r == read_reg(c, s)
           f == Define(c, Get(s), <<>>)
           d == LowerMfspr(c, w)
           q == Gpr(w.rd)
<1>1. n \in 0..(VRegs - 1) /\ n + 1 \in Nat
  BY RegsLimited
<1>2. d = IF s \in CachedReg THEN write_reg(r, q, r.at[s]) ELSE WriteBack(f, w.rd)
  BY DEF LowerMfspr
<1>3. /\ s \in CachedReg => s \in {xer, lr, ctr}
      /\ s \notin CachedReg => s \notin GuestReg /\ s.id = "spr"
      /\ Get(s) \in Kind
  BY DEF SprKinds
<1>4. q \in CachedReg \ {cr}
  BY RegIs
<1> HIDE DEF s, r, f, d
<1>5. CASE s \in CachedReg
  <2>1. s \in CachedReg \ {cr}
    BY <1>3, <1>5, RegIs
  <2>2. PICK u : RegKnown(c, t, r, u, R, n + 1, s)
    BY <1>1, <2>1, RegReadRuns DEF r
  <2> DEFINE v == r.at[s]
             e == write_reg(r, q, v)
  <2>3. /\ Sim(r, u, R, n + 1) /\ Goes(c, t, r, u)
        /\ v \in VReg /\ Known(r, v) /\ Val(u, v) = R.reg[s]
    BY <2>2 DEF RegKnown
  <2>4. Written(R, w.rd, R.reg[s], FALSE) = [R EXCEPT !.reg[q] = R.reg[s]]
    BY DEF Written
  <2>5. d = e
    BY <1>2, <1>5
  <2> HIDE DEF v, e, q
  <2>6. Sim(e, u, [R EXCEPT !.reg[q] = Val(u, v)], n + 1) /\ Goes(r, u, e, u)
    BY <1>4, <2>3, WriteRuns DEF e
  <2>7. Goes(c, t, e, u)
    BY <2>3, <2>6, GoesOn
  <2> QED
    BY <1>5, <2>3, <2>4, <2>5, <2>6, <2>7 DEF Does, d, s
<1>6. CASE s \notin CachedReg
  <2>1. d = WriteBack(f, w.rd)
    BY <1>2, <1>6
  <2>2. GetValue(s, t) = 0
    BY <1>3, <1>6 DEF GetValue
  <2>3. 0 \in Word
    BY SmallWords
  <2>4. PICK u : Computes(c, t, f, u, R, n + 1, 0)
    BY <1>1, <1>3, <2>2, <2>3, GetRuns DEF f
  <2>5. Sim(d, u, Written(R, w.rd, 0, FALSE), n + 1) /\ Goes(c, t, d, u)
    BY <2>1, <2>4, WriteBackRuns
  <2> QED
    BY <1>6, <2>5 DEF Does, d, s
<1> QED
  BY <1>5, <1>6

(* An op that sets nothing that is kept.                                   *)
LEMMA SetNothingRuns ==
  ASSUME NEW c, NEW t, NEW R, NEW n \in Nat, Sim(c, t, R, n),
         NEW s, s \notin GuestReg, s.id # "crfield", Set(s) \in Kind,
         NEW args \in Seq(VReg \cup Imm), \A j \in DOMAIN args : Known(c, args[j])
  PROVE  Does(c, t, Push(c, Set(s), args), R, n)
<1> DEFINE kind == Set(s)
           d    == Push(c, kind, args)
           op   == [kind |-> kind, dst |-> NoReg, args |-> args]
<1>1. /\ Ready(c, t, n) /\ Open(c, n) /\ t \in Machine /\ t.status = "run"
      /\ R \in Machine /\ R.mem = t.mem /\ c.at[cr] = NoReg
  BY DEF Sim, Ready
<1>2. kind.name = "set" /\ kind.reg = s /\ kind \in Kind
  BY DEF Set
<1>3. \A x : SetRegs(s, t, x) = t.reg
  BY DEF SetRegs
<1>4. [t EXCEPT !.reg = t.reg] = t
  BY <1>1 DEF Machine
<1>5. Exec(op, t) = t
  <2>1. op.kind = kind /\ op.args = args
    OBVIOUS
  <2> HIDE DEF op, kind
  <2>2. CASE args = <<>>
    BY ONLY <1>2, <1>3, <1>4, <2>1, <2>2, ExecSetNothing
  <2>3. CASE args # <<>>
    BY ONLY <1>2, <1>3, <1>4, <2>1, <2>3, ExecSet
  <2> QED
    BY <2>2, <2>3
<1>6. /\ Leads(c, t, d, Exec(op, t))
      /\ d.at = c.at /\ AllOps(d.ops)
      /\ \A z : Known(c, z) => Known(d, z)
      /\ Open(d, n)
  <2>1. kind.name \in effectNames /\ kind.name \notin exitNames
    BY <1>2 DEF effectNames, exitNames
  <2> HIDE DEF kind
  <2> QED
    BY ONLY <1>1, <1>2, <2>1, PushRuns, n \in Nat, args \in Seq(VReg \cup Imm),
            \A j \in DOMAIN args : Known(c, args[j])
<1> HIDE DEF d, op
<1>7. Ready(d, t, n)
  BY <1>1, <1>6 DEF Ready
<1>8. Sim(d, t, R, n)
  BY <1>6, <1>7 DEF Sim, Shown
<1>9. Goes(c, t, d, t)
  BY <1>5, <1>6 DEF Goes
<1> QED
  BY <1>8, <1>9 DEF Does, d

LEMMA MtsprRuns ==
  ASSUME NEW c, NEW t, NEW R, NEW n \in Nat, n + 2 <= VRegs, Sim(c, t, R, n),
         NEW w, SprKinds(w), w.rd \in Indices
  PROVE  LET s == SprReg(spr_field(w))
         IN  Does(c, t, LowerMtspr(c, w),
                  IF s \in CachedReg THEN [R EXCEPT !.reg[s] = RegOf(R, w.rd)] ELSE R, n + 1)
<1> DEFINE s == SprReg(spr_field(w))
           q == Gpr(w.rd)
           r == read_reg(c, q)
           v == r.at[q]
           d == LowerMtspr(c, w)
<1>1. n \in 0..(VRegs - 1) /\ n + 1 \in Nat
  BY RegsLimited
<1>2. d = IF s \in CachedReg THEN write_reg(r, s, v) ELSE Push(r, Set(s), <<v>>)
  BY DEF LowerMtspr
<1>3. /\ s \in CachedReg => s \in {xer, lr, ctr}
      /\ s \notin CachedReg => s \notin GuestReg /\ s.id = "spr"
      /\ Set(s) \in Kind
  BY DEF SprKinds
<1>4. q \in CachedReg \ {cr} /\ R.reg[q] = RegOf(R, w.rd)
  BY RegIs DEF RegOf
<1> HIDE DEF s, r, d, q
<1>5. PICK u : RegKnown(c, t, r, u, R, n + 1, q)
  BY <1>1, <1>4, RegReadRuns DEF r
<1>6. /\ Sim(r, u, R, n + 1) /\ Goes(c, t, r, u)
      /\ v \in VReg /\ Known(r, v) /\ Val(u, v) = RegOf(R, w.rd)
  BY <1>4, <1>5 DEF RegKnown
<1> HIDE DEF v
<1>7. CASE s \in CachedReg
  <2>1. s \in CachedReg \ {cr}
    BY <1>3, <1>7, RegIs
  <2> DEFINE e == write_reg(r, s, v)
  <2> HIDE DEF e
  <2>2. Sim(e, u, [R EXCEPT !.reg[s] = Val(u, v)], n + 1) /\ Goes(r, u, e, u)
    BY <1>6, <2>1, WriteRuns DEF e
  <2>3. d = e
    BY <1>2, <1>7 DEF e
  <2>4. Goes(c, t, e, u)
    BY <1>6, <2>2, GoesOn
  <2> QED
    BY <1>6, <1>7, <2>2, <2>3, <2>4 DEF Does, d, s
<1>8. CASE s \notin CachedReg
  <2> DEFINE args == <<v>>
  <2>1. args \in Seq(VReg \cup Imm) /\ \A j \in DOMAIN args : Known(r, args[j])
    BY <1>6
  <2>2. d = Push(r, Set(s), args)
    BY <1>2, <1>8
  <2>3. s \notin GuestReg /\ s.id # "crfield"
    BY <1>3, <1>8
  <2> HIDE DEF args
  <2>4. Does(r, u, d, R, n + 1)
    BY <1>1, <1>3, <1>6, <2>1, <2>2, <2>3, SetNothingRuns
  <2> QED
    BY <1>6, <1>8, <2>4, DoesOn DEF d, s
<1> QED
  BY <1>7, <1>8

LEMMA UnimplementedRuns ==
  ASSUME NEW c, NEW t, NEW R, NEW n \in Nat, Sim(c, t, R, n)
  PROVE  Does(c, t, emit_unimplemented(c), R, n)
<1> DEFINE s == Named("unimplemented", 0)
           none == <<>>
<1>1. s.id = "unimplemented"
  BY DEF Named
<1>2. Set(s) \in Kind
  <2>1. Set(s) \in OpKinds
    BY DEF OpKinds, Set
  <2> QED
    BY <2>1, KindAssumption
<1>3. none \in Seq(VReg \cup Imm) /\ \A j \in DOMAIN none : Known(c, none[j])
  OBVIOUS
<1>4. emit_unimplemented(c) = Push(c, Set(s), none)
  BY DEF emit_unimplemented
<1> HIDE DEF s, none
<1>5. s \notin GuestReg /\ s.id # "crfield"
  BY <1>1, GuestIds
<1> QED
  BY <1>2, <1>3, <1>4, <1>5, SetNothingRuns

LEMMA BitIsNarrow ==
  ASSUME NEW x \in 0..1
  PROVE  x \in Word /\ Low(x) = x
<1>1. NarrowBits \in 0..WideBits /\ 2 ^ 1 <= 2 ^ NarrowBits /\ 2 ^ 1 = 2
      /\ 2 ^ NarrowBits \in Nat
  <2>1. NarrowBits \in 4..WideBits /\ NarrowBits \in 0..WideBits /\ 1 \in 0..NarrowBits
        /\ 3 <= WideBits
    BY Widths, BitsAssumption
  <2> QED
    BY <2>1, PowerGrows, SmallPowers
<1>2. x \in 0..(2 ^ NarrowBits - 1) /\ x \in Int
  BY <1>1
<1>3. Trunc(x, NarrowBits) = x
  BY ONLY <1>1, <1>2, TruncFacts
<1>4. x \in Word
  BY SmallWords
<1> QED
  BY <1>3, <1>4 DEF Low

LEMMA BitOps ==
  ASSUME NEW x \in 0..1, NEW y \in 0..1
  PROVE  /\ Emitted("and", FALSE, x, y) = x * y
         /\ Emitted("xor", FALSE, x, 1) = 1 - x
<1>1. Low(x) = x /\ Low(y) = y /\ Low(1) = 1
  BY BitIsNarrow
<1>2. Alu("and", NarrowBits, x, y) = x * y /\ Alu("xor", NarrowBits, x, 1) = 1 - x
  BY BitLogic
<1> QED
  BY <1>1, <1>2 DEF Emitted, Low

LEMMA CrandRuns ==
  ASSUME NEW c, NEW t, NEW R, NEW n \in Nat, n + 3 <= VRegs, Sim(c, t, R, n),
         NEW w, w.rd \in 0..(CrBits - 1), w.ra \in 0..(CrBits - 1), w.rb \in 0..(CrBits - 1)
  PROVE  Does(c, t, LowerCrand(c, w),
              [R EXCEPT !.reg[cr] = WithField(@, w.rd \div 4,
                                              BitOf(@, HostBit(w.ra)) * BitOf(@, HostBit(w.rb)))],
              n + 3)
<1> DEFINE x == emit_get_cr_bit(c, w.ra)
           y == emit_get_cr_bit(x, w.rb)
           v == emit_binary(y, "and", FALSE, Result(x), Result(y))
           d == LowerCrand(c, w)
           X == BitOf(R.reg[cr], HostBit(w.ra))
           Y == BitOf(R.reg[cr], HostBit(w.rb))
<1>1. /\ n \in 0..(VRegs - 1) /\ n + 1 \in 0..(VRegs - 1) /\ n + 2 \in 0..(VRegs - 1)
      /\ (n + 1) + 1 = n + 2 /\ (n + 2) + 1 = n + 3 /\ n + 3 \in Nat
  BY RegsLimited
<1>2. d = emit_set_cr_field(v, w.rd \div 4, Result(v))
  BY DEF LowerCrand
<1>3. w.rd \div 4 \in 0..((CrBits - 1) \div 4)
  <2>1. CrBits \in Nat
    BY CrPlaces, BitsAssumption
  <2> QED
    BY <2>1
<1> HIDE DEF x, y, v, d, X, Y
<1>4. (\E u : Computes(c, t, x, u, R, n + 1, X)) /\ X \in 0..1
  BY <1>1, CrBitRuns DEF x, X
<1>5. PICK u1 : Computes(c, t, x, u1, R, n + 1, X)
  BY <1>4
<1>6. Sim(x, u1, R, n + 1) /\ Goes(c, t, x, u1)
      /\ Result(x) \in VReg /\ Known(x, Result(x)) /\ Val(u1, Result(x)) = X
  BY <1>5 DEF Computes
<1>7. (\E u : Computes(x, u1, y, u, R, n + 2, Y)) /\ Y \in 0..1
  BY <1>1, <1>6, CrBitRuns DEF y, Y
<1>8. PICK u2 : Computes(x, u1, y, u2, R, n + 2, Y)
  BY <1>7
<1>9. Sim(y, u2, R, n + 2) /\ Goes(x, u1, y, u2)
      /\ Result(y) \in VReg /\ Known(y, Result(y)) /\ Val(u2, Result(y)) = Y
      /\ Known(y, Result(x)) /\ Val(u2, Result(x)) = X
  BY <1>6, <1>8 DEF Computes, Goes
<1>10. PICK u3 : Computes(y, u2, v, u3, R, n + 3, X * Y)
  <2>1. "and" \in arithNames /\ FALSE \in BOOLEAN
        /\ (Result(x) \in Imm => Result(x) \in Word)
        /\ (Result(y) \in Imm => Result(y) \in Word)
    BY <1>6, <1>9, VRegIsNoWord DEF arithNames
  <2>2. \E u : Computes(y, u2, emit_binary(y, "and", FALSE, Result(x), Result(y)), u, R,
                        (n + 2) + 1,
                        Emitted("and", FALSE, Val(u2, Result(x)), Val(u2, Result(y))))
    BY ONLY <1>1, <1>9, <2>1, BinaryRuns
  <2>3. Emitted("and", FALSE, X, Y) = X * Y
    BY <1>4, <1>7, BitOps
  <2> QED
    BY <1>1, <1>9, <2>2, <2>3 DEF v
<1>11. Sim(v, u3, R, n + 3) /\ Goes(y, u2, v, u3)
       /\ Result(v) \in VReg /\ Known(v, Result(v)) /\ Val(u3, Result(v)) = X * Y
  BY <1>10 DEF Computes
<1> DEFINE f == w.rd \div 4
           z == X * Y
<1> HIDE DEF f, z
<1>12. PICK u4 : /\ Sim(d, u4, [R EXCEPT !.reg[cr] = WithField(@, f, Val(u3, Result(v)))], n + 3)
                 /\ Goes(v, u3, d, u4)
  BY <1>1, <1>2, <1>3, <1>11, CrFieldRuns DEF f
<1>13. Val(u3, Result(v)) = z
  BY <1>11 DEF z
<1>14. Sim(d, u4, [R EXCEPT !.reg[cr] = WithField(@, f, z)], n + 3)
  BY <1>12, <1>13
<1>15. Goes(c, t, y, u2)
  BY <1>6, <1>9, GoesOn
<1>16. Goes(c, t, d, u4)
  BY <1>11, <1>12, <1>15, GoesOn
<1> QED
  BY <1>14, <1>16 DEF Does, d, f, z, X, Y

LEMMA PsAddRuns ==
  ASSUME NEW c, NEW t, NEW R, NEW n \in Nat, n + 3 <= VRegs, Sim(c, t, R, n),
         NEW w, w.ra \in Indices, w.rb \in Indices, w.rd \in Indices
  PROVE  Does(c, t, LowerPsAdd(c, w),
              [R EXCEPT !.reg[Vec(w.rd)] = VecSum(R.reg[Vec(w.ra)], R.reg[Vec(w.rb)])], n + 3)
<1> DEFINE p == Vec(w.ra)
           q == Vec(w.rb)
           k == Vec(w.rd)
           r == read_reg(c, p)
           s == read_reg(r, q)
           kind == [name |-> "vec"]
           args == <<s.at[p], s.at[q]>>
           v == Define(s, kind, args)
           d == LowerPsAdd(c, w)
           val == VecSum(R.reg[p], R.reg[q])
<1>1. /\ n \in 0..(VRegs - 1) /\ n + 1 \in 0..(VRegs - 1) /\ n + 2 \in 0..(VRegs - 1)
      /\ (n + 1) + 1 = n + 2 /\ (n + 2) + 1 = n + 3 /\ n + 3 \in Nat
  BY RegsLimited
<1>2. d = write_reg(v, k, Result(v))
  BY DEF LowerPsAdd
<1>3. p \in CachedReg \ {cr} /\ q \in CachedReg \ {cr} /\ k \in CachedReg \ {cr}
  BY RegIs
<1>4. R \in Machine
  BY DEF Sim
<1>5. val \in Word
  <2>1. R.reg[p] \in Word /\ R.reg[q] \in Word
    BY <1>3, <1>4, MachineFields, RegIs
  <2> QED
    BY <2>1, VecAssumption
<1>6. kind \in Kind /\ kind.name = "vec"
  <2>1. kind \in OpKinds
    BY DEF OpKinds
  <2> QED
    BY <2>1, KindAssumption
<1> HIDE DEF p, q, k, r, s, kind, v, d, val
<1>7. PICK u1 : RegKnown(c, t, r, u1, R, n + 1, p)
  BY <1>1, <1>3, RegReadRuns DEF r
<1>8. Sim(r, u1, R, n + 1) /\ Goes(c, t, r, u1) /\ Held(r, p)
      /\ Known(r, r.at[p]) /\ r.at[p] \in VReg /\ Val(u1, r.at[p]) = R.reg[p]
  BY <1>7 DEF RegKnown
<1>9. PICK u2 : RegKnown(r, u1, s, u2, R, n + 2, q)
  BY <1>1, <1>3, <1>8, RegReadRuns DEF s
<1>10. /\ Sim(s, u2, R, n + 2) /\ Goes(r, u1, s, u2)
       /\ Known(s, s.at[q]) /\ s.at[q] \in VReg /\ Val(u2, s.at[q]) = R.reg[q]
       /\ s.at[p] = r.at[p]
  BY <1>3, <1>8, <1>9 DEF RegKnown
<1>11. Known(s, s.at[p]) /\ s.at[p] \in VReg /\ Val(u2, s.at[p]) = R.reg[p]
  BY <1>8, <1>10 DEF Goes
<1>12. args \in Seq(VReg \cup Imm) /\ args[1] = s.at[p] /\ args[2] = s.at[q]
       /\ \A j \in DOMAIN args : Known(s, args[j])
  BY <1>10, <1>11
<1> HIDE DEF args
<1>13. \A z \in VReg : Exec([kind |-> kind, dst |-> z, args |-> args], u2)
                          = [u2 EXCEPT !.env[z] = val]
  <2> TAKE z \in VReg
  <2> DEFINE op == [kind |-> kind, dst |-> z, args |-> args]
  <2>1. op.kind = kind /\ op.dst = z /\ op.args = args
    OBVIOUS
  <2>2. VecSum(Val(u2, args[1]), Val(u2, args[2])) = val
    BY <1>10, <1>11, <1>12 DEF val
  <2> HIDE DEF op
  <2>3. Exec(op, u2) = [u2 EXCEPT !.env[z] = val]
    BY ONLY <1>6, <2>1, <2>2, ExecVec
  <2> QED
    BY <2>3 DEF op
<1>14. PICK u3 : Computes(s, u2, v, u3, R, n + 3, val)
  <2>1. kind.name \in aluNames \cup readNames /\ kind.name \notin aluNames
    BY <1>6 DEF readNames, aluNames
  <2>2. \E u : Computes(s, u2, Define(s, kind, args), u, R, (n + 2) + 1, val)
    BY <1>1, <1>5, <1>6, <1>10, <1>12, <1>13, <2>1, ValueRuns
  <2> QED
    BY <1>1, <2>2 DEF v
<1>15. Sim(d, u3, [R EXCEPT !.reg[k] = val], n + 3) /\ Goes(s, u2, d, u3)
  BY <1>2, <1>3, <1>14, ResultWrites
<1>16. Goes(c, t, d, u3)
  BY <1>8, <1>10, <1>15, GoesOn
<1> QED
  BY <1>15, <1>16 DEF Does, d, val, p, q, k

-----------------------------------------------------------------------------
(* The flush and the exits.                                                *)

(* The registers of the CPU state after k of the Sets of a flush.          *)
RegsAfter(c, t, q, k) ==
  [r \in GuestReg |-> IF \E i \in 1..k : q[i] = r THEN t.env[c.at[r]] ELSE t.reg[r]]

SetOf(c, r) == [kind |-> Set(r), dst |-> NoReg, args |-> <<c.at[r]>>]

Midway(c, t, q, k) == [t EXCEPT !.reg = RegsAfter(c, t, q, k)]

LEMMA FlushOp ==
  ASSUME NEW c, NEW t \in Machine, t.status = "run", NEW K \in Nat, NEW q, NEW k \in 1..K,
         q[k] \in CachedReg, c.at[q[k]] \in VReg
  PROVE  /\ SetOf(c, q[k]) \in Op
         /\ Midway(c, t, q, k) = Step(SetOf(c, q[k]), Midway(c, t, q, k - 1))
<1> DEFINE v  == c.at[q[k]]
           r  == q[k]
           op == [kind |-> Set(r), dst |-> NoReg, args |-> <<v>>]
           g  == RegsAfter(c, t, q, k - 1)
           h  == RegsAfter(c, t, q, k)
           s  == [t EXCEPT !.reg = g]
<1>1. r \in CachedReg /\ r \in GuestReg /\ v \in VReg /\ v \notin Imm
  BY RegIs, ImmAssumption
<1>2. op \in Op
  <2>1. Set(r) \in OpKinds
    BY <1>1 DEF OpKinds, Set
  <2> DEFINE args == <<v>>
             kind == Set(r)
  <2>2. args \in Seq(VReg \cup Imm)
    BY <1>1
  <2>3. kind \in Kind
    BY <2>1, KindAssumption
  <2>4. NoReg \in VReg \cup {NoReg}
    OBVIOUS
  <2> HIDE DEF args, kind
  <2>5. [kind |-> kind, dst |-> NoReg, args |-> args] \in Op
    BY ONLY <2>2, <2>3, <2>4, OpIs
  <2> QED
    BY <2>5 DEF args, kind
<1>3. s.status = "run" /\ s.env = t.env /\ s.reg = g
  BY MachineFields
<1>4. h = [g EXCEPT ![r] = t.env[v]]
  <2>1. 1..k = (1..(k - 1)) \cup {k}
    OBVIOUS
  <2>2. ASSUME NEW p \in GuestReg
        PROVE  h[p] = IF p = r THEN t.env[v] ELSE g[p]
    <3>1. (\E i \in 1..k : q[i] = p) <=> (\E i \in 1..(k - 1) : q[i] = p) \/ q[k] = p
      BY <2>1
    <3> QED
      BY <3>1 DEF RegsAfter
  <2>3. h = [p \in GuestReg |-> h[p]] /\ g = [p \in GuestReg |-> g[p]]
    BY DEF RegsAfter
  <2> HIDE DEF h, g, r, v
  <2> QED
    BY <1>1, <2>2, <2>3
<1>5. Exec(op, s) = [s EXCEPT !.reg = h]
  <2>1. op.kind = Set(r) /\ op.args = <<v>> /\ op.args # <<>> /\ op.args[1] = v
    OBVIOUS
  <2>2. op.kind.name = "set" /\ op.kind.reg = r
    BY <2>1 DEF Set
  <2> HIDE DEF op, s, g, h, v, r
  <2>3. Exec(op, s) = [s EXCEPT !.reg = SetRegs(r, s, Val(s, v))]
    BY <2>1, <2>2, ExecSet
  <2>4. Val(s, v) = t.env[v]
    BY <1>1, <1>3 DEF Val
  <2>5. SetRegs(r, s, Val(s, v)) = [g EXCEPT ![r] = t.env[v]]
    <3>1. r.id # "crfield"
      BY <1>1, GuestIds
    <3>2. SetRegs(r, s, Val(s, v)) = [s.reg EXCEPT ![r] = Val(s, v)]
      BY <1>1, <3>1 DEF SetRegs
    <3> QED
      BY <1>3, <2>4, <3>2
  <2> QED
    BY <1>4, <2>3, <2>5
<1>6. [s EXCEPT !.reg = h] = [t EXCEPT !.reg = h]
  BY MachineFields
<1> HIDE DEF op, s, g, h
<1>7. [t EXCEPT !.reg = h] = Step(op, s)
  BY <1>3, <1>5, <1>6 DEF Step
<1> QED
  BY <1>2, <1>7 DEF op, s, g, h, SetOf, Midway

(* After the flush the CPU state has every register.                       *)
FlushedTo(c, t, d, u, R, n) ==
  /\ Sim(d, u, R, n)
  /\ Goes(c, t, d, u)
  /\ d.at = c.at
  /\ \A r \in CachedReg : u.reg[r] = R.reg[r]

LEMMA FlushRuns ==
  ASSUME NEW c, NEW t, NEW R, NEW n \in Nat, Sim(c, t, R, n)
  PROVE  \E u : FlushedTo(c, t, flush_guest_state(c), u, R, n)
<1> DEFINE f == flush_guest_state(c)
<1>1. /\ Ready(c, t, n) /\ Open(c, n) /\ AllOps(c.ops) /\ t \in Machine /\ t.status = "run"
      /\ c.at[cr] = NoReg /\ R \in Machine /\ R.mem = t.mem
      /\ \A r \in CachedReg : Shown(c, t, r) = R.reg[r]
  BY DEF Sim, Ready
<1>2. PICK K \in Nat : \E q : FlushesBy(c, f, K, q)
  BY <1>1, FlushIs
<1>3. PICK q : FlushesBy(c, f, K, q)
  BY <1>2
<1>4. Open(f, n) /\ f.at = c.at /\ \A v : Defined(c.ops, v) => Defined(f.ops, v)
  BY <1>1, GuestStateFlushed
<1> HIDE DEF f
<1> DEFINE L     == Len(c.ops)
           op(k) == SetOf(c, q[k])
           at(k) == Midway(c, t, q, k)
           st    == [k \in 0..K |-> at(k)]
<1>5. /\ K \in Nat
      /\ L \in Nat
      /\ Len(f.ops) = L + K
      /\ \A j \in 1..L : f.ops[j] = c.ops[j]
      /\ \A k \in 1..K : f.ops[L + k] = op(k)
      /\ \A k \in 1..K : q[k] \in CachedReg /\ Held(c, q[k])
      /\ \A r \in CachedReg : Held(c, r) => \E k \in 1..K : q[k] = r
  BY <1>2, <1>3 DEF FlushesBy, SetOf
<1>6. \A r \in CachedReg : Held(c, r) => c.at[r] \in VReg
  BY <1>1, HeldIsOperand
<1>7. ASSUME NEW k \in 1..K
      PROVE  op(k) \in Op /\ at(k) = Step(op(k), at(k - 1))
  <2>1. q[k] \in CachedReg /\ c.at[q[k]] \in VReg
    BY <1>5, <1>6
  <2>2. t \in Machine /\ t.status = "run" /\ K \in Nat
    BY <1>1, <1>5
  <2> QED
    BY ONLY <2>1, <2>2, k \in 1..K, FlushOp
<1> HIDE DEF op
<1>8. at(0) = t
  <2> DEFINE g == RegsAfter(c, t, q, 0)
  <2>1. t.reg \in [GuestReg -> Word]
    BY <1>1, MachineFields
  <2>2. g = [r \in GuestReg |-> t.reg[r]]
    BY DEF RegsAfter
  <2>3. g = t.reg
    BY <2>1, <2>2
  <2>4. t = [reg |-> t.reg, mem |-> t.mem, zero |-> t.zero, negative |-> t.negative,
             env |-> t.env, status |-> t.status]
    BY <1>1, MachineFields
  <2> HIDE DEF g
  <2>5. [t EXCEPT !.reg = g] = t
    BY <2>3, <2>4
  <2> QED
    BY <2>5 DEF g, Midway
<1> HIDE DEF at
<1>9. /\ st[0] = t
      /\ st[K] = at(K)
      /\ \A k \in 1..K : st[k] = at(k) /\ st[k - 1] = at(k - 1)
  <2>1. \A k \in 1..K : k \in 0..K /\ k - 1 \in 0..K
    BY <1>5
  <2>2. 0 \in 0..K /\ K \in 0..K
    BY <1>5
  <2> QED
    BY <1>8, <2>1, <2>2
<1> HIDE DEF st
<1>10. Continues(c, f, st, K)
  BY <1>5, <1>7, <1>9 DEF Continues
<1> DEFINE u == at(K)
<1>11. Leads(c, t, f, u)
  <2>1. Leads(c, st[0], f, st[K])
    BY <1>5, <1>10, LeadsByOps
  <2> QED
    BY <1>9, <2>1
<1>12. /\ u \in Machine /\ u.status = "run" /\ u.env = t.env /\ u.mem = t.mem
       /\ u.reg = RegsAfter(c, t, q, K)
  <2> DEFINE g == RegsAfter(c, t, q, K)
  <2>1. t.reg \in [GuestReg -> Word] /\ t.env \in [VReg -> Word]
    BY <1>1, MachineFields
  <2>2. ASSUME NEW r \in GuestReg, \E i \in 1..K : q[i] = r
        PROVE  t.env[c.at[r]] \in Word
    BY <1>5, <1>6, <2>1, <2>2
  <2>3. g \in [GuestReg -> Word]
    BY <2>1, <2>2 DEF RegsAfter
  <2> HIDE DEF g
  <2>4. u = [t EXCEPT !.reg = g]
    BY DEF at, g, Midway
  <2>5. /\ u \in Machine /\ u.status = "run" /\ u.env = t.env /\ u.mem = t.mem
        /\ u.reg = g
    BY <1>1, <2>3, <2>4 DEF Machine
  <2> QED
    BY <2>5 DEF g
<1> HIDE DEF u
<1>13. ASSUME NEW r \in CachedReg
       PROVE  u.reg[r] = R.reg[r] /\ Shown(f, u, r) = R.reg[r]
  <2>1. r \in GuestReg /\ Shown(c, t, r) = R.reg[r]
    BY <1>1, RegIs
  <2>2. CASE Held(c, r)
    <3>1. \E i \in 1..K : q[i] = r
      BY <1>5, <2>2
    <3>2. u.reg[r] = t.env[c.at[r]]
      BY <1>12, <2>1, <3>1 DEF RegsAfter
    <3> QED
      BY <1>4, <1>12, <2>1, <2>2, <3>2 DEF Shown, Held
  <2>3. CASE ~Held(c, r)
    <3>1. ~\E i \in 1..K : q[i] = r
      BY <1>5, <2>3
    <3>2. u.reg[r] = t.reg[r]
      BY <1>12, <2>1, <3>1 DEF RegsAfter
    <3> QED
      BY <1>4, <1>12, <2>1, <2>3, <3>2 DEF Shown, Held
  <2> QED
    BY <2>2, <2>3
<1>14. AllOps(f.ops)
  <2> SUFFICES ASSUME NEW j \in 1..Len(f.ops)
               PROVE  f.ops[j] \in Op
    BY DEF AllOps
  <2>1. CASE j \in 1..L
    BY <1>1, <1>5, <2>1 DEF AllOps
  <2>2. CASE j \notin 1..L
    <3>1. j - L \in 1..K /\ L + (j - L) = j
      BY <1>5, <2>2
    <3>2. f.ops[L + (j - L)] = op(j - L)
      BY <1>5, <3>1
    <3> QED
      BY <1>7, <3>1, <3>2
  <2> QED
    BY <2>1, <2>2
<1>15. Sim(f, u, R, n)
  <2>1. Ready(f, u, n)
    BY <1>1, <1>4, <1>12, <1>14 DEF Ready
  <2> QED
    BY <1>1, <1>12, <1>13, <2>1 DEF Sim
<1>16. Goes(c, t, f, u)
  <2>1. \A x : Known(c, x) => Known(f, x) /\ Val(u, x) = Val(t, x)
    BY <1>4, <1>12 DEF Known, Val
  <2> QED
    BY <1>11, <2>1 DEF Goes
<1>17. FlushedTo(c, t, f, u, R, n)
  BY <1>4, <1>13, <1>15, <1>16 DEF FlushedTo
<1> QED
  BY <1>17 DEF f

(* The block was left with the registers and the memory of S, which its    *)
(* builder still knows.                                                    *)
Exits(c, t, d, S) ==
  \E u : /\ Leads(c, t, d, u)
         /\ u \in Machine
         /\ u.status = "exit"
         /\ u.mem = S.mem
         /\ u.reg = S.reg
         /\ \A r \in CachedReg : Shown(d, u, r) = S.reg[r]
         /\ AllOps(d.ops)
         /\ d.at[cr] = NoReg

LEMMA ExitsOn ==
  ASSUME NEW c, NEW t, NEW d, NEW u, NEW e, NEW S, Goes(c, t, d, u), Exits(d, u, e, S)
  PROVE  Exits(c, t, e, S)
BY LeadsOn DEF Goes, Exits

(* A machine of which every register is in the CPU state.                  *)
Settled(c, t, R, n) ==
  /\ Sim(c, t, R, n)
  /\ \A r \in CachedReg : t.reg[r] = R.reg[r]

JumpTo(R, x) == [R EXCEPT !.reg[pc] = x]

(* The pc is set.                                                          *)
LEMMA SetPcRuns ==
  ASSUME NEW c, NEW t, NEW R, NEW n \in Nat, Settled(c, t, R, n),
         NEW x, Known(c, x), Val(t, x) \in Word
  PROVE  \E u : /\ Settled(emit_set_pc(c, x), u, R, n)
                /\ Goes(c, t, emit_set_pc(c, x), u)
                /\ u.reg[pc] = Val(t, x)
<1> DEFINE kind == Set(pc)
           args == <<x>>
           d    == Push(c, kind, args)
           u    == [t EXCEPT !.reg[pc] = Val(t, x)]
           op   == [kind |-> kind, dst |-> NoReg, args |-> args]
<1>1. /\ Sim(c, t, R, n) /\ Ready(c, t, n) /\ t \in Machine /\ t.status = "run"
      /\ R \in Machine /\ R.mem = t.mem /\ c.at[cr] = NoReg
      /\ \A r \in CachedReg : Shown(c, t, r) = R.reg[r] /\ t.reg[r] = R.reg[r]
  BY DEF Settled, Sim, Ready
<1>2. emit_set_pc(c, x) = d
  BY DEF emit_set_pc
<1>3. pc \in GuestReg /\ pc \notin CachedReg /\ CachedReg \subseteq GuestReg
  BY RegIs
<1>4. kind \in Kind /\ kind.name = "set" /\ kind.reg = pc
  <2>1. kind \in OpKinds
    BY <1>3 DEF OpKinds, Set
  <2> QED
    BY <2>1, KindAssumption DEF Set
<1>5. kind.name \in effectNames /\ kind.name \notin exitNames
  BY <1>4 DEF effectNames, exitNames
<1>6. /\ args \in Seq(VReg \cup Imm) /\ args # <<>> /\ args[1] = x
      /\ \A j \in DOMAIN args : Known(c, args[j])
  BY KnownIsOperand
<1>7. op.kind = kind /\ op.args = args
  OBVIOUS
<1>8. /\ u \in Machine /\ u.reg = [t.reg EXCEPT ![pc] = Val(t, x)]
      /\ u.env = t.env /\ u.mem = t.mem /\ u.status = t.status
  <2> DEFINE y == Val(t, x)
  <2>1. y \in Word
    OBVIOUS
  <2> HIDE DEF y
  <2>2. LET v == [t EXCEPT !.reg[pc] = y]
        IN  /\ v \in Machine
            /\ v.reg = [t.reg EXCEPT ![pc] = y]
            /\ v.env = t.env /\ v.mem = t.mem /\ v.status = t.status
    BY ONLY <1>1, <1>3, <2>1, RegSet
  <2> QED
    BY <2>2 DEF y
<1>9. t.reg \in [GuestReg -> Word]
  BY <1>1, MachineFields
<1> HIDE DEF kind, args, d, op
<1>10. Exec(op, t) = u
  <2>1. Exec(op, t) = [t EXCEPT !.reg = SetRegs(pc, t, Val(t, x))]
    BY <1>4, <1>6, <1>7, ExecSet
  <2>2. pc.id # "crfield"
    BY <1>3, GuestIds
  <2>3. SetRegs(pc, t, Val(t, x)) = [t.reg EXCEPT ![pc] = Val(t, x)]
    BY <1>3, <2>2 DEF SetRegs
  <2> QED
    BY <2>1, <2>3
<1> HIDE DEF u
<1>11. /\ Leads(c, t, d, u)
       /\ d.at = c.at /\ AllOps(d.ops)
       /\ \A z : Known(c, z) => Known(d, z)
       /\ Open(d, n)
  <2>1. /\ Leads(c, t, d, Exec(op, t))
        /\ d.at = c.at /\ AllOps(d.ops)
        /\ \A z : Known(c, z) => Known(d, z)
        /\ Open(d, n)
    BY ONLY <1>1, <1>4, <1>5, <1>6, n \in Nat, PushRuns DEF d, op
  <2> QED
    BY <1>10, <2>1
<1>12. \A r \in CachedReg : u.reg[r] = t.reg[r]
  BY <1>3, <1>8, <1>9
<1>13. Settled(d, u, R, n)
  <2>1. Ready(d, u, n)
    BY <1>1, <1>8, <1>11 DEF Ready
  <2>2. \A r \in CachedReg : Shown(d, u, r) = R.reg[r] /\ u.reg[r] = R.reg[r]
    BY <1>1, <1>8, <1>11, <1>12 DEF Shown
  <2> QED
    BY <1>1, <1>8, <2>1, <2>2 DEF Settled, Sim
<1>14. Goes(c, t, d, u)
  BY <1>8, <1>11 DEF Goes, Val
<1>15. u.reg[pc] = Val(t, x)
  BY <1>3, <1>8, <1>9
<1> QED
  BY <1>2, <1>13, <1>14, <1>15

(* The last op of a block.                                                 *)
LEMMA LastOpRuns ==
  ASSUME NEW c, NEW t, NEW R, NEW n \in Nat, Settled(c, t, R, n),
         NEW kind \in Kind, kind.name \in exitNames,
         NEW args \in Seq(VReg \cup Imm), \A j \in DOMAIN args : Known(c, args[j]),
         NEW y \in Word,
         Exec([kind |-> kind, dst |-> NoReg, args |-> args], t)
           = [t EXCEPT !.reg[pc] = y, !.status = "exit"]
  PROVE  Exits(c, t, Push(c, kind, args), JumpTo(R, y))
<1> DEFINE d  == Push(c, kind, args)
           op == [kind |-> kind, dst |-> NoReg, args |-> args]
           u  == [t EXCEPT !.reg[pc] = y, !.status = "exit"]
           S  == JumpTo(R, y)
<1>1. /\ Sim(c, t, R, n) /\ Ready(c, t, n) /\ t \in Machine /\ t.status = "run"
      /\ R \in Machine /\ R.mem = t.mem /\ c.at[cr] = NoReg
      /\ \A r \in CachedReg : Shown(c, t, r) = R.reg[r] /\ t.reg[r] = R.reg[r]
  BY DEF Settled, Sim, Ready
<1>2. pc \in GuestReg /\ pc \notin CachedReg /\ CachedReg \subseteq GuestReg
  BY RegIs
<1>3. kind.name \in effectNames
  BY DEF effectNames, exitNames
<1>4. /\ Leads(c, t, d, Exec(op, t))
      /\ d.at = c.at /\ AllOps(d.ops)
  BY <1>1, <1>3, PushRuns
<1>5. S \in Machine /\ S.reg = [R.reg EXCEPT ![pc] = y] /\ S.mem = R.mem
  BY <1>1, <1>2, RegSet DEF JumpTo
<1>6. /\ u \in Machine /\ u.reg = [t.reg EXCEPT ![pc] = y]
      /\ u.env = t.env /\ u.mem = t.mem /\ u.status = "exit"
  <2> DEFINE v == [t EXCEPT !.reg[pc] = y]
  <2>1. v \in Machine /\ v.reg = [t.reg EXCEPT ![pc] = y] /\ v.env = t.env /\ v.mem = t.mem
    BY <1>1, <1>2, RegSet
  <2>2. u = [v EXCEPT !.status = "exit"]
    OBVIOUS
  <2> HIDE DEF v, u
  <2>3. /\ u.reg = v.reg /\ u.env = v.env /\ u.mem = v.mem /\ u.status = "exit"
        /\ u \in Machine
    BY <2>1, <2>2 DEF Machine
  <2> QED
    BY <2>1, <2>3
<1>7. t.reg \in [GuestReg -> Word] /\ R.reg \in [GuestReg -> Word]
  BY <1>1, MachineFields
<1> HIDE DEF d, op, u, S
<1>8. Leads(c, t, d, u)
  BY <1>4 DEF op, u
<1>9. u.reg = S.reg
  <2>1. \A r \in GuestReg : u.reg[r] = S.reg[r]
    BY <1>1, <1>5, <1>6, <1>7 DEF GuestReg
  <2>2. u.reg \in [GuestReg -> Word] /\ S.reg \in [GuestReg -> Word]
    BY <1>5, <1>6, MachineFields
  <2> QED
    BY <2>1, <2>2
<1>10. \A r \in CachedReg : Shown(d, u, r) = S.reg[r]
  <2> TAKE r \in CachedReg
  <2>1. S.reg[r] = R.reg[r] /\ u.reg[r] = R.reg[r]
    BY <1>1, <1>2, <1>5, <1>7, <1>9
  <2>2. Shown(c, t, r) = R.reg[r]
    BY <1>1
  <2> QED
    BY <1>4, <1>6, <2>1, <2>2 DEF Shown
<1>11. Exits(c, t, d, S)
  BY <1>1, <1>4, <1>5, <1>6, <1>8, <1>9, <1>10 DEF Exits
<1> QED
  BY <1>11 DEF d, S

(* After the flush and, in most exits, the setting of the pc.              *)
LEMMA FlushedAndSet ==
  ASSUME NEW c, NEW t, NEW R, NEW n \in Nat, Sim(c, t, R, n),
         NEW x, Known(c, x), x \in Imm => x \in Word
  PROVE  LET f == flush_guest_state(c)
             p == emit_set_pc(f, x)
         IN  /\ \E u : /\ Settled(f, u, R, n) /\ Goes(c, t, f, u)
                       /\ Known(f, x) /\ Val(u, x) = Val(t, x)
             /\ \E u : /\ Settled(p, u, R, n) /\ Goes(c, t, p, u)
                       /\ Known(p, x) /\ Val(u, x) = Val(t, x)
                       /\ u.reg[pc] = Val(t, x)
             /\ Val(t, x) \in Word
<1> DEFINE f == flush_guest_state(c)
           p == emit_set_pc(f, x)
<1>1. PICK u : FlushedTo(c, t, f, u, R, n)
  BY FlushRuns
<1> HIDE DEF f
<1>2. Settled(f, u, R, n) /\ Goes(c, t, f, u) /\ Known(f, x) /\ Val(u, x) = Val(t, x)
  BY <1>1 DEF FlushedTo, Settled, Goes
<1>3. Val(t, x) \in Word
  BY ValIsWord DEF Sim, Ready
<1> HIDE DEF p
<1>4. PICK v : /\ Settled(p, v, R, n) /\ Goes(f, u, p, v)
               /\ v.reg[pc] = Val(u, x)
  BY <1>2, <1>3, SetPcRuns DEF p
<1>5. Goes(c, t, p, v)
  BY <1>2, <1>4, GoesOn
<1>6. Known(p, x) /\ Val(v, x) = Val(t, x)
  BY <1>2, <1>4 DEF Goes
<1> QED
  BY <1>2, <1>3, <1>4, <1>5, <1>6 DEF f, p

LEMMA NoArgs ==
  ASSUME NEW c
  PROVE  LET args == <<>>
         IN  args \in Seq(VReg \cup Imm) /\ \A j \in DOMAIN args : Known(c, args[j])
OBVIOUS

LEMMA OneArg ==
  ASSUME NEW c, NEW x, Known(c, x)
  PROVE  LET args == <<x>>
         IN  /\ args \in Seq(VReg \cup Imm) /\ args # <<>> /\ args[1] = x
             /\ \A j \in DOMAIN args : Known(c, args[j])
BY KnownIsOperand

LEMMA ExitKinds ==
  /\ \A x, y \in Word : Branch(x, y) \in Kind
  /\ [name |-> "indirect"] \in Kind /\ [name |-> "return"] \in Kind
  /\ {"branch", "indirect", "return"} \subseteq exitNames
<1>1. \A x, y \in Word : Branch(x, y) \in OpKinds
  BY DEF OpKinds, Branch
<1>2. [name |-> "indirect"] \in OpKinds /\ [name |-> "return"] \in OpKinds
  BY DEF OpKinds
<1> QED
  BY <1>1, <1>2, KindAssumption DEF exitNames

LEMMA ExitUncondRuns ==
  ASSUME NEW c, NEW t, NEW R, NEW n \in Nat, Sim(c, t, R, n), NEW x \in Word
  PROVE  Exits(c, t, emit_exit_uncond(c, x), JumpTo(R, x))
<1> DEFINE p    == emit_set_pc(flush_guest_state(c), x)
           kind == Branch(x, x)
           args == <<>>
           op   == [kind |-> kind, dst |-> NoReg, args |-> args]
<1>1. emit_exit_uncond(c, x) = Push(p, kind, args)
  BY DEF emit_exit_uncond
<1>2. Known(c, x) /\ Val(t, x) = x
  BY WordIsKnown
<1> HIDE DEF p
<1>3. PICK u : Settled(p, u, R, n) /\ Goes(c, t, p, u)
  BY <1>2, FlushedAndSet DEF p
<1>4. kind \in Kind /\ kind.name = "branch" /\ kind.taken = x /\ kind.name \in exitNames
  BY ExitKinds DEF Branch
<1>5. args = <<>> /\ args \in Seq(VReg \cup Imm) /\ \A j \in DOMAIN args : Known(p, args[j])
  BY NoArgs
<1>6. op.kind = kind /\ op.args = args
  OBVIOUS
<1> HIDE DEF kind, args, op
<1>7. Exec(op, u) = [u EXCEPT !.reg[pc] = x, !.status = "exit"]
  BY <1>4, <1>5, <1>6, ExecJump
<1>8. Exits(p, u, Push(p, kind, args), JumpTo(R, x))
  BY ONLY <1>3, <1>4, <1>5, <1>7, x \in Word, n \in Nat, LastOpRuns DEF op
<1> QED
  BY <1>1, <1>3, <1>8, ExitsOn

LEMMA ExitIndirectRuns ==
  ASSUME NEW c, NEW t, NEW R, NEW n \in Nat, Sim(c, t, R, n), NEW x \in VReg, Known(c, x)
  PROVE  Exits(c, t, emit_exit_indirect(c, x), JumpTo(R, Val(t, x)))
<1> DEFINE p    == emit_set_pc(flush_guest_state(c), x)
           kind == [name |-> "indirect"]
           args == <<x>>
           op   == [kind |-> kind, dst |-> NoReg, args |-> args]
           y    == Val(t, x)
<1>1. emit_exit_indirect(c, x) = Push(p, kind, args)
  BY DEF emit_exit_indirect
<1> HIDE DEF p, y
<1>2. PICK u : Settled(p, u, R, n) /\ Goes(c, t, p, u) /\ Known(p, x) /\ Val(u, x) = y
  BY VRegIsNoWord, FlushedAndSet DEF p, y
<1>3. y \in Word
  BY VRegIsNoWord, FlushedAndSet DEF y
<1>4. kind \in Kind /\ kind.name = "indirect" /\ kind.name \in exitNames
  BY ExitKinds
<1>5. /\ args \in Seq(VReg \cup Imm) /\ args # <<>> /\ args[1] = x
      /\ \A j \in DOMAIN args : Known(p, args[j])
  BY <1>2, OneArg
<1>6. op.kind = kind /\ op.args = args
  OBVIOUS
<1> HIDE DEF kind, args, op
<1>7. Exec(op, u) = [u EXCEPT !.reg[pc] = y, !.status = "exit"]
  BY <1>2, <1>4, <1>5, <1>6, ExecIndirect
<1>8. Exits(p, u, Push(p, kind, args), JumpTo(R, y))
  BY ONLY <1>2, <1>3, <1>4, <1>5, <1>7, n \in Nat, LastOpRuns DEF op
<1> QED
  BY <1>1, <1>2, <1>8, ExitsOn DEF y

LEMMA ExitCondRuns ==
  ASSUME NEW c, NEW t, NEW R, NEW n \in Nat, Sim(c, t, R, n), NEW x \in VReg, Known(c, x),
         NEW taken \in Word, NEW fall \in Word
  PROVE  Exits(c, t, emit_exit_cond(c, x, taken, fall),
               JumpTo(R, IF Val(t, x) # 0 THEN taken ELSE fall))
<1> DEFINE p    == flush_guest_state(c)
           kind == Branch(taken, fall)
           args == <<x>>
           op   == [kind |-> kind, dst |-> NoReg, args |-> args]
           y    == IF Val(t, x) # 0 THEN taken ELSE fall
<1>1. emit_exit_cond(c, x, taken, fall) = Push(p, kind, args)
  BY DEF emit_exit_cond
<1> HIDE DEF p
<1>2. PICK u : Settled(p, u, R, n) /\ Goes(c, t, p, u) /\ Known(p, x) /\ Val(u, x) = Val(t, x)
  BY VRegIsNoWord, FlushedAndSet DEF p
<1>3. y \in Word
  OBVIOUS
<1>4. /\ kind \in Kind /\ kind.name = "branch" /\ kind.name \in exitNames
      /\ kind.taken = taken /\ kind.fall = fall
  BY ExitKinds DEF Branch
<1>5. /\ args \in Seq(VReg \cup Imm) /\ args # <<>> /\ args[1] = x
      /\ \A j \in DOMAIN args : Known(p, args[j])
  BY <1>2, OneArg
<1>6. op.kind = kind /\ op.args = args
  OBVIOUS
<1> HIDE DEF kind, args, op
<1>7. Exec(op, u) = [u EXCEPT !.reg[pc] = y, !.status = "exit"]
  <2>1. Exec(op, u) = [u EXCEPT !.reg[pc] = IF Val(u, op.args[1]) # 0 THEN op.kind.taken
                                            ELSE op.kind.fall,
                                !.status = "exit"]
    BY <1>4, <1>5, <1>6, ExecBranch
  <2>2. y = IF Val(u, op.args[1]) # 0 THEN op.kind.taken ELSE op.kind.fall
    BY <1>2, <1>4, <1>5, <1>6
  <2> HIDE DEF y
  <2> QED
    BY <2>1, <2>2
<1> HIDE DEF y
<1>8. Exits(p, u, Push(p, kind, args), JumpTo(R, y))
  BY ONLY <1>2, <1>3, <1>4, <1>5, <1>7, n \in Nat, LastOpRuns DEF op
<1> QED
  BY <1>1, <1>2, <1>8, ExitsOn DEF y

LEMMA ExitToRuns ==
  ASSUME NEW c, NEW t, NEW R, NEW n \in Nat, Sim(c, t, R, n), NEW x \in Word
  PROVE  Exits(c, t, ExitTo(c, x), JumpTo(R, x))
<1> DEFINE p    == emit_set_pc(flush_guest_state(c), x)
           kind == [name |-> "return"]
           args == <<>>
           op   == [kind |-> kind, dst |-> NoReg, args |-> args]
<1>1. ExitTo(c, x) = Push(p, kind, args)
  BY DEF ExitTo
<1>2. Known(c, x) /\ Val(t, x) = x
  BY WordIsKnown
<1> HIDE DEF p
<1>3. PICK u : Settled(p, u, R, n) /\ Goes(c, t, p, u) /\ u.reg[pc] = x
  BY <1>2, FlushedAndSet DEF p
<1>4. kind \in Kind /\ kind.name = "return" /\ kind.name \in exitNames
  BY ExitKinds
<1>5. args = <<>> /\ args \in Seq(VReg \cup Imm) /\ \A j \in DOMAIN args : Known(p, args[j])
  BY NoArgs
<1>6. op.kind = kind /\ op.args = args
  OBVIOUS
<1> HIDE DEF kind, args, op
<1>7. Exec(op, u) = [u EXCEPT !.reg[pc] = x, !.status = "exit"]
  <2>1. Exec(op, u) = [u EXCEPT !.status = "exit"]
    BY <1>4, <1>6, ExecReturn
  <2>2. [u EXCEPT !.reg[pc] = u.reg[pc]] = u
    BY <1>3, RegIs, RegSame DEF Settled, Sim, Ready
  <2>3. [u EXCEPT !.reg[pc] = x, !.status = "exit"]
          = [[u EXCEPT !.reg[pc] = x] EXCEPT !.status = "exit"]
    OBVIOUS
  <2> QED
    BY <1>3, <2>1, <2>2, <2>3
<1>8. Exits(p, u, Push(p, kind, args), JumpTo(R, x))
  BY ONLY <1>3, <1>4, <1>5, <1>7, x \in Word, n \in Nat, LastOpRuns DEF op
<1> QED
  BY <1>1, <1>3, <1>8, ExitsOn

-----------------------------------------------------------------------------
(* The branches.                                                           *)

LinkedTo(R, w, next) == IF w.rc THEN [R EXCEPT !.reg[lr] = Low(next)] ELSE R

LEMMA WordIsInt == Word \subseteq Nat
BY Widths DEF Word

LEMMA AddZeroRuns ==
  ASSUME NEW c, NEW t, NEW R, NEW n \in 0..(VRegs - 1), Sim(c, t, R, n),
         NEW x \in Word, NEW wide \in BOOLEAN
  PROVE  \E u : Computes(c, t, emit_binary(c, "add", wide, x, 0), u, R, n + 1,
                         IF wide THEN x ELSE Low(x))
<1>1. 0 \in Word /\ x \in Int /\ 0 \in Int /\ x + 0 = x
  BY WordIsInt, SmallWords
<1>2. Known(c, x) /\ Val(t, x) = x
  BY WordIsKnown
<1>3. Known(c, 0) /\ Val(t, 0) = 0
  BY <1>1, WordIsKnown
<1>4. Emitted("add", FALSE, x, 0) = Low(x)
  <2>1. Emitted("add", FALSE, x, 0) = Low(x + 0)
    BY <1>1, AddIsLow
  <2> QED
    BY <1>1, <2>1
<1>5. Emitted("add", TRUE, x, 0) = x
  <2>1. Emitted("add", TRUE, x, 0) = Trunc(x, WideBits)
    BY <1>1, AluIs DEF Emitted
  <2>2. WideBits \in 0..WideBits
    BY BitsAssumption
  <2> QED
    BY <1>1, <2>1, <2>2, TruncFacts DEF Word
<1>6. Emitted("add", wide, x, 0) = IF wide THEN x ELSE Low(x)
  BY <1>4, <1>5
<1>7. "add" \in arithNames
  BY DEF arithNames
<1>8. \E u : Computes(c, t, emit_binary(c, "add", wide, x, 0), u, R, n + 1,
                      Emitted("add", wide, Val(t, x), Val(t, 0)))
  BY <1>1, <1>2, <1>3, <1>7, BinaryRuns
<1> QED
  BY <1>2, <1>3, <1>6, <1>8

LEMMA LinkRuns ==
  ASSUME NEW c, NEW t, NEW R, NEW n \in Nat, n + 1 <= VRegs, Sim(c, t, R, n),
         NEW w, NEW p, next_pc(p) \in Word
  PROVE  Does(c, t, Link(c, w, p), LinkedTo(R, w, next_pc(p)), n + 1)
<1> DEFINE x == next_pc(p)
           a == emit_binary(c, "add", FALSE, x, 0)
           d == Link(c, w, p)
<1>1. n \in 0..(VRegs - 1) /\ n + 1 \in Nat /\ n <= n + 1
  BY RegsLimited
<1>2. lr \in CachedReg \ {cr}
  BY RegIs
<1>3. d = IF w.rc THEN write_reg(a, lr, Result(a)) ELSE c
  BY DEF Link
<1> HIDE DEF x, a, d
<1>4. x \in Word
  BY DEF x
<1>5. PICK u : Computes(c, t, a, u, R, n + 1, Low(x))
  BY <1>1, <1>4, AddZeroRuns DEF a
<1>6. CASE w.rc
  <2>1. d = write_reg(a, lr, Result(a)) /\ LinkedTo(R, w, x) = [R EXCEPT !.reg[lr] = Low(x)]
    BY <1>3, <1>6 DEF LinkedTo
  <2>2. /\ Sim(write_reg(a, lr, Result(a)), u, [R EXCEPT !.reg[lr] = Low(x)], n + 1)
        /\ Goes(c, t, write_reg(a, lr, Result(a)), u)
    BY <1>2, <1>5, ResultWrites
  <2> QED
    BY <2>1, <2>2 DEF Does, d, x
<1>7. CASE ~w.rc
  <2>1. d = c /\ LinkedTo(R, w, x) = R
    BY <1>3, <1>7 DEF LinkedTo
  <2>2. Sim(c, t, R, n + 1)
    BY <1>1, SimGrows
  <2>3. Goes(c, t, c, t)
    BY SimGoes
  <2> QED
    BY <2>1, <2>2, <2>3 DEF Does, d, x
<1> QED
  BY <1>6, <1>7

(* What is left in the registers, in the order of the guest's machine.     *)
LEMMA JumpedIs ==
  ASSUME NEW R \in Machine, NEW w, NEW next \in Int, NEW x \in Word
  PROVE  /\ Jumped(R, w, next, x) = JumpTo(LinkedTo(R, w, next), x)
         /\ LinkedTo(R, w, next) \in Machine
         /\ LinkedTo(R, w, next).status = R.status
         /\ LinkedTo(R, w, next).reg[cr] = R.reg[cr]
         /\ LinkedTo(R, w, next).reg[lr] = IF w.rc THEN Low(next) ELSE R.reg[lr]
<1>1. pc \in GuestReg /\ lr \in GuestReg /\ cr \in GuestReg /\ pc # lr /\ cr # lr
  BY RegIs
<1>2. CASE w.rc
  <2> DEFINE g == R.reg
             y == Low(next)
             A == [R EXCEPT !.reg[lr] = y]
  <2>1. y \in Word
    BY LowIsNarrow
  <2>2. g \in [GuestReg -> Word]
    BY MachineFields
  <2> HIDE DEF y
  <2>3. A \in Machine /\ A.reg = [g EXCEPT ![lr] = y] /\ A.status = R.status
    BY <1>1, <2>1, RegSet
  <2>4. Jumped(R, w, next, x) = [R EXCEPT !.reg = [[g EXCEPT ![pc] = x] EXCEPT ![lr] = y]]
    BY <1>2 DEF Jumped, y
  <2>5. LinkedTo(R, w, next) = A
    BY <1>2 DEF LinkedTo, y
  <2>6. JumpTo(A, x) = [R EXCEPT !.reg = [[g EXCEPT ![lr] = y] EXCEPT ![pc] = x]]
    BY DEF JumpTo
  <2> HIDE DEF g
  <2>7. [[g EXCEPT ![pc] = x] EXCEPT ![lr] = y] = [[g EXCEPT ![lr] = y] EXCEPT ![pc] = x]
    BY <1>1, <2>2
  <2>8. A.reg[cr] = g[cr] /\ A.reg[lr] = y
    BY <1>1, <2>2, <2>3
  <2> HIDE DEF A
  <2> QED
    BY <1>2, <2>3, <2>4, <2>5, <2>6, <2>7, <2>8 DEF g, y
<1>3. CASE ~w.rc
  BY <1>3 DEF Jumped, JumpTo, LinkedTo
<1> QED
  BY <1>2, <1>3

LEMMA BRuns ==
  ASSUME NEW c, NEW t, NEW R, NEW n \in Nat, n + 3 <= VRegs, Sim(c, t, R, n),
         NEW w \in Words["ppc"], NEW p \in Word
  PROVE  Exits(c, t, emit_exit_uncond(Link(c, w, p), li_target(w, p)),
               Jumped(R, w, next_pc(p), li_target(w, p)))
<1> DEFINE l == Link(c, w, p)
           S == LinkedTo(R, w, next_pc(p))
           x == li_target(w, p)
<1>1. n + 1 \in Nat /\ n + 1 <= VRegs
  BY RegsLimited
<1>2. next_pc(p) \in Word /\ x \in Word /\ next_pc(p) \in Int /\ R \in Machine
  BY PpcLiterals, WordIsInt DEF Sim
<1> HIDE DEF l, S, x
<1>3. PICK u : Sim(l, u, S, n + 1) /\ Goes(c, t, l, u)
  BY <1>1, <1>2, LinkRuns DEF Does, l, S
<1>4. Exits(l, u, emit_exit_uncond(l, x), JumpTo(S, x))
  BY <1>1, <1>2, <1>3, ExitUncondRuns
<1>5. Jumped(R, w, next_pc(p), x) = JumpTo(S, x)
  BY <1>2, JumpedIs DEF S
<1> QED
  BY <1>3, <1>4, <1>5, ExitsOn DEF l, x

LEMMA BclrRuns ==
  ASSUME NEW c, NEW t, NEW R, NEW n \in Nat, n + 3 <= VRegs, Sim(c, t, R, n),
         NEW w \in Words["ppc"], NEW p \in Word
  PROVE  Exits(c, t, LowerBclr(c, w, p),
               Jumped(R, w, next_pc(p), IF w.rc THEN Low(next_pc(p)) ELSE R.reg[lr]))
<1> DEFINE l == Link(c, w, p)
           S == LinkedTo(R, w, next_pc(p))
           r == read_reg(l, lr)
           v == r.at[lr]
           x == IF w.rc THEN Low(next_pc(p)) ELSE R.reg[lr]
<1>1. n + 1 \in Nat /\ n + 1 <= VRegs /\ n + 1 \in 0..(VRegs - 1) /\ (n + 1) + 1 \in Nat
  BY RegsLimited
<1>2. next_pc(p) \in Word /\ next_pc(p) \in Int /\ R \in Machine
  BY PpcLiterals, WordIsInt DEF Sim
<1>3. lr \in CachedReg \ {cr} /\ lr \in GuestReg
  BY RegIs
<1>4. x \in Word
  BY <1>2, <1>3, LowIsNarrow, MachineFields
<1>5. LowerBclr(c, w, p) = emit_exit_indirect(r, v)
  BY DEF LowerBclr
<1> HIDE DEF l, S, r, v, x
<1>6. PICK u : Sim(l, u, S, n + 1) /\ Goes(c, t, l, u)
  BY <1>1, <1>2, LinkRuns DEF Does, l, S
<1>7. PICK u2 : RegKnown(l, u, r, u2, S, (n + 1) + 1, lr)
  BY <1>1, <1>3, <1>6, RegReadRuns DEF r
<1>8. /\ Sim(r, u2, S, (n + 1) + 1) /\ Goes(l, u, r, u2)
      /\ v \in VReg /\ Known(r, v) /\ Val(u2, v) = S.reg[lr]
  BY <1>7 DEF RegKnown, v
<1>9. Jumped(R, w, next_pc(p), x) = JumpTo(S, x) /\ S.reg[lr] = x
  <2>1. /\ Jumped(R, w, next_pc(p), x) = JumpTo(S, x)
        /\ S.reg[lr] = IF w.rc THEN Low(next_pc(p)) ELSE R.reg[lr]
    BY <1>2, <1>4, JumpedIs DEF S
  <2> QED
    BY <2>1 DEF x
<1>10. Exits(r, u2, emit_exit_indirect(r, v), JumpTo(S, x))
  <2>1. Exits(r, u2, emit_exit_indirect(r, v), JumpTo(S, Val(u2, v)))
    BY <1>1, <1>8, ExitIndirectRuns
  <2> QED
    BY <1>8, <1>9, <2>1
<1>11. Goes(c, t, r, u2)
  BY <1>6, <1>8, GoesOn
<1> QED
  BY <1>5, <1>9, <1>10, <1>11, ExitsOn DEF x

(* The condition: the bit, or its complement.                              *)
Condition(c, k, set) ==
  LET bit == emit_get_cr_bit(c, k)
  IN  IF set THEN bit ELSE emit_binary(bit, "xor", FALSE, Result(bit), 1)

LEMMA ConditionRuns ==
  ASSUME NEW c, NEW t, NEW R, NEW n \in Nat, n + 2 <= VRegs, Sim(c, t, R, n),
         NEW k \in 0..(CrBits - 1), NEW set \in BOOLEAN
  PROVE  LET d == Condition(c, k, set)
         IN  \E u : /\ Sim(d, u, R, n + 2)
                    /\ Goes(c, t, d, u)
                    /\ Result(d) \in VReg /\ Known(d, Result(d))
                    /\ Val(u, Result(d)) # 0 <=> (BitOf(R.reg[cr], HostBit(k)) = 1) = set
<1> DEFINE bit == emit_get_cr_bit(c, k)
           not == emit_binary(bit, "xor", FALSE, Result(bit), 1)
           X   == BitOf(R.reg[cr], HostBit(k))
<1>1. /\ n \in 0..(VRegs - 1) /\ n + 1 \in 0..(VRegs - 1) /\ (n + 1) + 1 = n + 2
      /\ n + 2 \in Nat /\ n + 1 <= n + 2 /\ n + 1 \in Nat
  BY RegsLimited
<1> HIDE DEF bit, not, X
<1>2. (\E u : Computes(c, t, bit, u, R, n + 1, X)) /\ X \in 0..1
  BY <1>1, CrBitRuns DEF bit, X
<1>3. PICK u : Computes(c, t, bit, u, R, n + 1, X)
  BY <1>2
<1>4. Sim(bit, u, R, n + 1) /\ Goes(c, t, bit, u)
      /\ Result(bit) \in VReg /\ Known(bit, Result(bit)) /\ Val(u, Result(bit)) = X
  BY <1>3 DEF Computes
<1>5. CASE set
  <2>1. Sim(bit, u, R, n + 2)
    BY <1>1, <1>4, SimGrows
  <2>2. X # 0 <=> (X = 1) = set
    <3>1. X # 0 <=> X = 1
      BY <1>2
    <3> QED
      BY <1>5, <3>1
  <2>3. Condition(c, k, set) = bit
    BY <1>5 DEF Condition, bit
  <2> QED
    BY <1>4, <2>1, <2>2, <2>3 DEF X
<1>6. CASE ~set
  <2>1. 1 \in Word /\ Known(bit, 1) /\ Val(u, 1) = 1
    BY SmallWords, WordIsKnown
  <2>2. "xor" \in arithNames /\ FALSE \in BOOLEAN /\ (Result(bit) \in Imm => Result(bit) \in Word)
    BY <1>4, VRegIsNoWord DEF arithNames
  <2>3. \E v : Computes(bit, u, not, v, R, (n + 1) + 1,
                        Emitted("xor", FALSE, Val(u, Result(bit)), Val(u, 1)))
    BY ONLY <1>1, <1>4, <2>1, <2>2, BinaryRuns DEF not
  <2>4. Emitted("xor", FALSE, X, 1) = 1 - X
    BY <1>2, BitOps
  <2>5. PICK v : Computes(bit, u, not, v, R, n + 2, 1 - X)
    BY <1>1, <1>4, <2>1, <2>3, <2>4
  <2>6. Sim(not, v, R, n + 2) /\ Goes(bit, u, not, v)
        /\ Result(not) \in VReg /\ Known(not, Result(not)) /\ Val(v, Result(not)) = 1 - X
    BY <2>5 DEF Computes
  <2>7. Goes(c, t, not, v)
    BY <1>4, <2>6, GoesOn
  <2>8. 1 - X # 0 <=> (X = 1) = set
    <3>1. 1 - X # 0 <=> ~(X = 1)
      BY <1>2
    <3> QED
      BY <1>6, <3>1
  <2>9. Condition(c, k, set) = not
    BY <1>6 DEF Condition, bit, not
  <2> QED
    BY <2>6, <2>7, <2>8, <2>9 DEF X
<1> QED
  BY <1>5, <1>6

LEMMA BcRuns ==
  ASSUME NEW c, NEW t, NEW R, NEW n \in Nat, n + 3 <= VRegs, Sim(c, t, R, n),
         NEW w \in Words["ppc"], w.ra \in 0..(CrBits - 1), NEW p \in Word
  PROVE  Exits(c, t, LowerBc(c, w, p),
               Jumped(R, w, next_pc(p), IF Taken(R, w) THEN bd_target(w, p) ELSE next_pc(p)))
<1> DEFINE l    == Link(c, w, p)
           S    == LinkedTo(R, w, next_pc(p))
           x    == bd_target(w, p)
           y    == next_pc(p)
           set  == BoBit(w, 8)
           d    == Condition(l, w.ra, set)
           goal == IF Taken(R, w) THEN x ELSE y
<1>1. n + 1 \in Nat /\ n + 1 <= VRegs /\ (n + 1) + 2 <= VRegs /\ (n + 1) + 2 \in Nat
  BY RegsLimited
<1>2. x \in Word /\ y \in Word /\ y \in Int /\ R \in Machine
  BY PpcLiterals, WordIsInt DEF Sim
<1>3. LowerBc(c, w, p) = IF BoBit(w, 16) THEN emit_exit_uncond(l, x)
                         ELSE emit_exit_cond(d, Result(d), x, y)
  BY DEF LowerBc, Condition
<1>4. set \in BOOLEAN
  BY DEF BoBit
<1> HIDE DEF l, S
<1>5. PICK u : Sim(l, u, S, n + 1) /\ Goes(c, t, l, u)
  BY <1>1, <1>2, LinkRuns DEF Does, l, S
<1>6. S.reg[cr] = R.reg[cr] /\ \A z \in Word : Jumped(R, w, y, z) = JumpTo(S, z)
  BY <1>2, JumpedIs DEF S
<1>7. CASE BoBit(w, 16)
  <2>1. goal = x
    BY <1>7 DEF Taken
  <2> HIDE DEF x, y
  <2>2. Exits(l, u, emit_exit_uncond(l, x), JumpTo(S, x))
    BY <1>1, <1>2, <1>5, ExitUncondRuns
  <2>3. Exits(c, t, emit_exit_uncond(l, x), JumpTo(S, x))
    BY <1>5, <2>2, ExitsOn
  <2>4. Jumped(R, w, y, goal) = JumpTo(S, x)
    BY <1>2, <1>6, <2>1
  <2> QED
    BY <1>3, <1>7, <2>3, <2>4 DEF x, y
<1>8. CASE ~BoBit(w, 16)
  <2> HIDE DEF x, y, set
  <2>1. PICK v : /\ Sim(d, v, S, (n + 1) + 2)
                 /\ Goes(l, u, d, v)
                 /\ Result(d) \in VReg /\ Known(d, Result(d))
                 /\ Val(v, Result(d)) # 0 <=> (BitOf(S.reg[cr], HostBit(w.ra)) = 1) = set
    BY <1>1, <1>4, <1>5, ConditionRuns
  <2>2. Val(v, Result(d)) # 0 <=> Taken(R, w)
    BY <1>6, <1>8, <2>1 DEF Taken, set
  <2> HIDE DEF d
  <2>3. Exits(d, v, emit_exit_cond(d, Result(d), x, y),
              JumpTo(S, IF Val(v, Result(d)) # 0 THEN x ELSE y))
    BY <1>1, <1>2, <2>1, ExitCondRuns
  <2>4. (IF Val(v, Result(d)) # 0 THEN x ELSE y) = goal
    BY <2>2
  <2>5. Exits(d, v, emit_exit_cond(d, Result(d), x, y), JumpTo(S, goal))
    BY <2>3, <2>4
  <2>6. Goes(c, t, d, v)
    BY <1>5, <2>1, GoesOn
  <2>7. Exits(c, t, emit_exit_cond(d, Result(d), x, y), JumpTo(S, goal))
    BY <2>5, <2>6, ExitsOn
  <2>8. goal \in Word
    BY <1>2
  <2>9. Jumped(R, w, y, goal) = JumpTo(S, goal)
    BY <1>6, <2>8
  <2> QED
    BY <1>3, <1>8, <2>7, <2>9 DEF x, y
<1> QED
  BY <1>7, <1>8

-----------------------------------------------------------------------------
(* The instructions of the PowerPC frontend.                               *)

(* What an instruction that does not branch leaves alone.                  *)
Kept(R, S) ==
  /\ S.status = R.status
  /\ S.reg[pc] = R.reg[pc]

Carries(c, t, d, R, S, n) == Does(c, t, d, S, n) /\ Kept(R, S)

LEMMA DoesGrows ==
  ASSUME NEW c, NEW t, NEW d, NEW S, NEW n \in Nat, NEW k \in Nat, n <= k,
         Does(c, t, d, S, n)
  PROVE  Does(c, t, d, S, k)
<1>1. PICK u : Sim(d, u, S, n) /\ Goes(c, t, d, u)
  BY DEF Does
<1>2. Sim(d, u, S, k)
  BY <1>1, SimGrows
<1> QED
  BY <1>1, <1>2 DEF Does

LEMMA RegSetKept ==
  ASSUME NEW R \in Machine, NEW r \in CachedReg, NEW x
  PROVE  Kept(R, [R EXCEPT !.reg[r] = x])
<1> DEFINE g == R.reg
           h == [g EXCEPT ![r] = x]
           S == [R EXCEPT !.reg = h]
<1>1. g \in [GuestReg -> Word] /\ r \in GuestReg /\ pc \in GuestReg /\ pc # r
      /\ CachedReg \subseteq GuestReg
  BY MachineFields, RegIs
<1>2. \A q \in GuestReg : h[q] = IF q = r THEN x ELSE g[q]
  BY <1>1
<1>3. [R EXCEPT !.reg[r] = x] = S
  OBVIOUS
<1>4. S.status = R.status /\ S.reg = h
  BY MachineFields
<1> HIDE DEF S, h
<1>5. S.reg[pc] = R.reg[pc]
  BY <1>1, <1>2, <1>4
<1> QED
  BY <1>3, <1>4, <1>5 DEF Kept

LEMMA KeptOn ==
  ASSUME NEW R, NEW S, NEW T, Kept(R, S), Kept(S, T)
  PROVE  Kept(R, T)
BY DEF Kept

LEMMA WrittenKept ==
  ASSUME NEW R \in Machine, NEW k \in Indices, NEW x \in Word, NEW record
  PROVE  Kept(R, Written(R, k, x, record))
<1> DEFINE r == Gpr(k)
           A == [R EXCEPT !.reg[r] = x]
           y == Cr0(R, x)
<1>1. r \in CachedReg /\ r \in GuestReg /\ cr \in CachedReg
  BY RegIs
<1>2. Written(R, k, x, record) = IF record THEN [A EXCEPT !.reg[cr] = y] ELSE A
  BY DEF Written
<1> HIDE DEF r, y
<1>3. A \in Machine /\ Kept(R, A)
  BY <1>1, RegSet, RegSetKept
<1> HIDE DEF A
<1>4. Kept(A, [A EXCEPT !.reg[cr] = y])
  BY <1>1, <1>3, RegSetKept
<1> QED
  BY <1>2, <1>3, <1>4, KeptOn

(* What fits a narrow register fits a register.                            *)
LEMMA NarrowIsWord ==
  ASSUME NEW x \in 0..(2 ^ NarrowBits - 1)
  PROVE  x \in Word
BY Widths DEF Word

LEMMA AddImmEffect ==
  ASSUME NEW c, NEW t, NEW R, NEW n \in Nat, n + 9 <= VRegs, Sim(c, t, R, n),
         NEW w, w.ra \in Indices, w.rd \in Indices, NEW x \in Word, NEW y \in Int,
         Low(x) = Low(y)
  PROVE  Carries(c, t, LowerAddImm(c, w, x), R,
                 Written(R, w.rd, Low(OrZero(R, w.ra) + y), FALSE), n + 9)
<1>1. n + 2 \in Nat /\ n + 2 <= VRegs /\ n + 2 <= n + 9 /\ n + 9 \in Nat
  BY RegsLimited
<1>2. R \in Machine /\ x \in Int
  BY WordIsInt DEF Sim
<1>3. OrZero(R, w.ra) \in Int
  <2> DEFINE base == OrZero(R, w.ra)
  <2>1. base \in Word
    BY <1>2, RegIsWord
  <2> HIDE DEF base
  <2>2. base \in Int
    BY <2>1, WordIsInt
  <2> QED
    BY <2>2 DEF base
<1>4. Emitted("add", FALSE, OrZero(R, w.ra), x) = Low(OrZero(R, w.ra) + y)
  BY <1>2, <1>3, AddIsLow
<1> DEFINE z == Low(OrZero(R, w.ra) + y)
           S == Written(R, w.rd, z, FALSE)
<1>5. z \in 0..(2 ^ NarrowBits - 1)
  BY <1>3, LowIsNarrow
<1>6. Does(c, t, LowerAddImm(c, w, x), S, n + 2)
  BY <1>1, <1>4, AddImmRuns
<1> HIDE DEF z
<1>7. Kept(R, S)
  BY <1>2, <1>5, WrittenKept, NarrowIsWord
<1> HIDE DEF S
<1>8. Does(c, t, LowerAddImm(c, w, x), S, n + 9)
  BY <1>1, <1>6, DoesGrows
<1> QED
  BY <1>7, <1>8 DEF Carries, S, z

LEMMA LogicIs ==
  ASSUME NEW name, NEW x, NEW y
  PROVE  Emitted(name, FALSE, x, y) = Logic(name, x, y)
BY DEF Emitted, Logic, Low

LEMMA LogicImmEffect ==
  ASSUME NEW c, NEW t, NEW R, NEW n \in Nat, n + 9 <= VRegs, Sim(c, t, R, n),
         NEW w, w.ra \in Indices, w.rd \in Indices, NEW name \in {"or", "xor", "and"},
         NEW x \in Word
  PROVE  LET a == LowerLogicImm(c, w, name, x)
             z == Logic(name, RegOf(R, w.rd), x)
         IN  /\ Carries(c, t, a, R, Written(R, w.ra, z, FALSE), n + 9)
             /\ Carries(c, t, emit_rc0_from_result(a, a.at[Gpr(w.ra)], FALSE), R,
                        Written(R, w.ra, z, TRUE), n + 9)
<1> DEFINE a == LowerLogicImm(c, w, name, x)
           z == Logic(name, RegOf(R, w.rd), x)
           e == emit_rc0_from_result(a, a.at[Gpr(w.ra)], FALSE)
           S == Written(R, w.ra, z, FALSE)
           T == Written(R, w.ra, z, TRUE)
<1>1. /\ n + 2 \in Nat /\ n + 2 <= VRegs /\ n + 2 <= n + 9 /\ n + 9 \in Nat
      /\ (n + 2) + 4 <= VRegs /\ (n + 2) + 4 \in Nat /\ (n + 2) + 4 <= n + 9
  BY RegsLimited
<1>2. R \in Machine
  BY DEF Sim
<1>3. name \in arithNames
  BY DEF arithNames
<1> HIDE DEF a
<1>4. /\ \E u : Sim(a, u, S, n + 2) /\ Goes(c, t, a, u) /\ Held(a, Gpr(w.ra))
      /\ z \in 0..(2 ^ NarrowBits - 1)
  <2>1. LET val == Emitted(name, FALSE, RegOf(R, w.rd), x)
        IN  /\ \E u : Sim(a, u, Written(R, w.ra, val, FALSE), n + 2) /\ Goes(c, t, a, u)
                      /\ Held(a, Gpr(w.ra))
            /\ val \in 0..(2 ^ NarrowBits - 1)
    BY <1>1, <1>3, LogicImmRuns DEF a
  <2> QED
    BY <2>1, LogicIs
<1> HIDE DEF z
<1>5. PICK u : Sim(a, u, S, n + 2) /\ Goes(c, t, a, u) /\ Held(a, Gpr(w.ra))
  BY <1>4
<1>6. Kept(R, S) /\ Kept(R, T)
  BY <1>2, <1>4, WrittenKept, NarrowIsWord
<1>7. Does(c, t, a, S, n + 9)
  <2>1. Does(c, t, a, S, n + 2)
    BY <1>5 DEF Does
  <2> HIDE DEF S
  <2> QED
    BY <1>1, <2>1, DoesGrows
<1>8. Does(c, t, e, T, n + 9)
  <2> DEFINE v == [rc |-> TRUE]
  <2>1. v.rc = TRUE
    OBVIOUS
  <2> HIDE DEF v
  <2>2. Does(a, u, Record(a, v, w.ra), Written(R, w.ra, z, v.rc), (n + 2) + 4)
    BY <1>1, <1>2, <1>4, <1>5, RecordedRuns
  <2>3. Record(a, v, w.ra) = e
    BY <2>1 DEF Record
  <2>4. Does(a, u, e, T, (n + 2) + 4)
    BY <2>1, <2>2, <2>3
  <2> HIDE DEF e, T
  <2>5. Does(c, t, e, T, (n + 2) + 4)
    BY <1>5, <2>4, DoesOn
  <2> QED
    BY <1>1, <2>5, DoesGrows
<1> QED
  BY <1>6, <1>7, <1>8 DEF Carries, a, z

LEMMA AluEffect ==
  ASSUME NEW c, NEW t, NEW R, NEW n \in Nat, n + 7 <= VRegs, Sim(c, t, R, n),
         NEW w, NEW name \in arithNames,
         NEW first \in Indices, NEW second \in Indices, NEW dst \in Indices
  PROVE  Carries(c, t, LowerAlu(c, w, name, first, second, dst), R,
                 Written(R, dst, Emitted(name, FALSE, RegOf(R, first), RegOf(R, second)), w.rc),
                 n + 7)
<1> DEFINE z == Emitted(name, FALSE, RegOf(R, first), RegOf(R, second))
           S == Written(R, dst, z, w.rc)
<1>1. R \in Machine
  BY DEF Sim
<1>2. z \in 0..(2 ^ NarrowBits - 1)
  BY <1>1, RegIsWord, EmittedRange
<1>3. Does(c, t, LowerAlu(c, w, name, first, second, dst), S, n + 7)
  BY AluRuns
<1> HIDE DEF z
<1>4. Kept(R, S)
  BY <1>1, <1>2, WrittenKept, NarrowIsWord
<1> QED
  BY <1>3, <1>4 DEF Carries, z

LEMMA CarriesGrows ==
  ASSUME NEW c, NEW t, NEW d, NEW R, NEW S, NEW n \in Nat, NEW k \in Nat, n <= k,
         Carries(c, t, d, R, S, n)
  PROVE  Carries(c, t, d, R, S, k)
BY DoesGrows DEF Carries

LEMMA AddEffect ==
  ASSUME NEW c, NEW t, NEW R, NEW n \in Nat, n + 9 <= VRegs, Sim(c, t, R, n),
         NEW w, w.ra \in Indices, w.rb \in Indices, w.rd \in Indices
  PROVE  Carries(c, t, LowerAlu(c, w, "add", w.ra, w.rb, w.rd), R,
                 Written(R, w.rd, Low(RegOf(R, w.ra) + RegOf(R, w.rb)), w.rc), n + 9)
<1> DEFINE x == RegOf(R, w.ra)
           y == RegOf(R, w.rb)
           d == LowerAlu(c, w, "add", w.ra, w.rb, w.rd)
<1>1. n + 7 \in Nat /\ n + 7 <= VRegs /\ n + 7 <= n + 9 /\ n + 9 \in Nat
  BY RegsLimited
<1>2. "add" \in arithNames
  BY DEF arithNames
<1>3. Carries(c, t, d, R, Written(R, w.rd, Emitted("add", FALSE, x, y), w.rc), n + 7)
  BY <1>1, <1>2, AluEffect
<1>4. x \in Word /\ y \in Word
  BY RegIsWord DEF Sim
<1> HIDE DEF x, y, d
<1>5. x \in Int /\ y \in Int
  BY <1>4, WordIsInt
<1>6. Emitted("add", FALSE, x, y) = Low(x + y)
  BY <1>5, AddIsLow
<1>7. Carries(c, t, d, R, Written(R, w.rd, Low(x + y), w.rc), n + 7)
  BY <1>3, <1>6
<1>8. Carries(c, t, d, R, Written(R, w.rd, Low(x + y), w.rc), n + 9)
  BY <1>1, <1>7, CarriesGrows
<1> QED
  BY <1>8 DEF x, y, d

(* The first of the two registers is read before the second, which makes   *)
(* no difference to the values.                                            *)
LEMMA SubfEffect ==
  ASSUME NEW c, NEW t, NEW R, NEW n \in Nat, n + 9 <= VRegs, Sim(c, t, R, n),
         NEW w, w.ra \in Indices, w.rb \in Indices, w.rd \in Indices
  PROVE  Carries(c, t, LowerAlu(read_reg(c, Gpr(w.ra)), w, "sub", w.rb, w.ra, w.rd), R,
                 Written(R, w.rd, Low(RegOf(R, w.rb) - RegOf(R, w.ra)), w.rc), n + 9)
<1> DEFINE x == RegOf(R, w.rb)
           y == RegOf(R, w.ra)
           r == read_reg(c, Gpr(w.ra))
           d == LowerAlu(r, w, "sub", w.rb, w.ra, w.rd)
<1>1. /\ n \in 0..(VRegs - 1) /\ n + 1 \in Nat
      /\ (n + 1) + 7 <= VRegs /\ (n + 1) + 7 <= n + 9 /\ n + 9 \in Nat /\ (n + 1) + 7 \in Nat
  BY RegsLimited
<1>2. "sub" \in arithNames
  BY DEF arithNames
<1>3. Gpr(w.ra) \in CachedReg \ {cr}
  BY RegIs
<1>4. PICK u : RegKnown(c, t, r, u, R, n + 1, Gpr(w.ra))
  BY <1>1, <1>3, RegReadRuns
<1> HIDE DEF r
<1>5. Sim(r, u, R, n + 1) /\ Goes(c, t, r, u)
  BY <1>4 DEF RegKnown
<1>6. Carries(r, u, d, R, Written(R, w.rd, Emitted("sub", FALSE, x, y), w.rc), (n + 1) + 7)
  BY <1>1, <1>2, <1>5, AluEffect
<1>7. x \in Word /\ y \in Word
  BY RegIsWord DEF Sim
<1> HIDE DEF x, y, d
<1>8. x \in Int /\ y \in Int
  BY <1>7, WordIsInt
<1>9. Emitted("sub", FALSE, x, y) = Low(x - y)
  BY <1>8, SubIsLow
<1>10. Carries(r, u, d, R, Written(R, w.rd, Low(x - y), w.rc), (n + 1) + 7)
  BY <1>6, <1>9
<1>11. Carries(c, t, d, R, Written(R, w.rd, Low(x - y), w.rc), (n + 1) + 7)
  BY <1>5, <1>10, DoesOn DEF Carries
<1>12. Carries(c, t, d, R, Written(R, w.rd, Low(x - y), w.rc), n + 9)
  BY <1>1, <1>11, CarriesGrows
<1> QED
  BY <1>12 DEF x, y, d, r

LEMMA LogicEffect ==
  ASSUME NEW c, NEW t, NEW R, NEW n \in Nat, n + 9 <= VRegs, Sim(c, t, R, n),
         NEW w, w.ra \in Indices, w.rb \in Indices, w.rd \in Indices,
         NEW name \in {"and", "or", "xor"}
  PROVE  Carries(c, t, LowerAlu(c, w, name, w.rd, w.rb, w.ra), R,
                 Written(R, w.ra, Logic(name, RegOf(R, w.rd), RegOf(R, w.rb)), w.rc), n + 9)
<1> DEFINE x == RegOf(R, w.rd)
           y == RegOf(R, w.rb)
           d == LowerAlu(c, w, name, w.rd, w.rb, w.ra)
<1>1. n + 7 \in Nat /\ n + 7 <= VRegs /\ n + 7 <= n + 9 /\ n + 9 \in Nat
  BY RegsLimited
<1>2. name \in arithNames
  BY DEF arithNames
<1>3. Carries(c, t, d, R, Written(R, w.ra, Emitted(name, FALSE, x, y), w.rc), n + 7)
  BY <1>1, <1>2, AluEffect
<1>4. Emitted(name, FALSE, x, y) = Logic(name, x, y)
  BY LogicIs
<1> HIDE DEF x, y, d
<1>5. Carries(c, t, d, R, Written(R, w.ra, Logic(name, x, y), w.rc), n + 7)
  BY <1>3, <1>4
<1>6. Carries(c, t, d, R, Written(R, w.ra, Logic(name, x, y), w.rc), n + 9)
  BY <1>1, <1>5, CarriesGrows
<1> QED
  BY <1>6 DEF x, y, d

LEMMA RlwinmEffect ==
  ASSUME NEW c, NEW t, NEW R, NEW n \in Nat, n + 9 <= VRegs, Sim(c, t, R, n),
         NEW w, w.ra \in Indices, w.rd \in Indices,
         {w.rb, w.mb, w.me} \subseteq 0..(NarrowBits - 1)
  PROVE  LET rot == RotatedLeft(Low(RegOf(R, w.rd)), w.rb)
         IN  Carries(c, t, LowerRlwinm(c, w), R,
                     Written(R, w.ra, Masked(rot, w.mb, w.me), w.rc), n + 9)
<1> DEFINE rot == RotatedLeft(Low(RegOf(R, w.rd)), w.rb)
           z == Masked(rot, w.mb, w.me)
           S == Written(R, w.ra, z, w.rc)
<1>1. Does(c, t, LowerRlwinm(c, w), S, n + 9) /\ z \in 0..(2 ^ NarrowBits - 1)
  BY RlwinmRuns
<1>2. R \in Machine
  BY DEF Sim
<1> HIDE DEF z, rot
<1>3. Kept(R, S)
  BY <1>1, <1>2, WrittenKept, NarrowIsWord
<1>4. Carries(c, t, LowerRlwinm(c, w), R, S, n + 9)
  BY <1>1, <1>3 DEF Carries
<1> QED
  BY <1>4 DEF z, rot

(* An access behind the map is a fault of both.                            *)
Follows(c, t, d, R, S, n) ==
  Carries(c, t, d, R, S, n) \/ (FaultsAt(c, t, d, R) /\ S = Fault(R))

LEMMA LoadEffect ==
  ASSUME NEW c, NEW t, NEW R, NEW n \in Nat, n + 9 <= VRegs, Sim(c, t, R, n),
         NEW w \in Words["ppc"], w.ra \in Indices, w.rd \in Indices,
         NEW bytes \in Sizes, NEW update \in BOOLEAN
  PROVE  Follows(c, t, LowerLoad(c, w, bytes, update), R, Loaded(R, w, bytes, update), n + 9)
<1> DEFINE d == LowerLoad(c, w, bytes, update)
           a == Ea(R, w)
           val == LoadBytes(R.mem, a, bytes, TRUE)
           S == Written(R, w.rd, val, FALSE)
           T == Loaded(R, w, bytes, update)
<1>1. n + 3 \in Nat /\ n + 3 <= VRegs /\ n + 3 <= n + 9 /\ n + 9 \in Nat /\ n + 2 <= VRegs
  BY RegsLimited
<1>2. R \in Machine
  BY DEF Sim
<1>3. a \in 0..(2 ^ NarrowBits - 1)
  BY <1>1, EaRuns
<1>4. val \in 0..(2 ^ NarrowBits - 1)
  BY LoadIsNarrow
<1>5. T = IF ~InMap(a, bytes) THEN Fault(R)
          ELSE IF update THEN Written(S, w.ra, a, FALSE) ELSE S
  BY DEF Loaded, Ea, Written
<1>6. /\ InMap(a, bytes) => Does(c, t, d, T, n + 3)
      /\ ~InMap(a, bytes) => FaultsAt(c, t, d, R)
  BY <1>1, LoadedRuns
<1> HIDE DEF d, a, val, T
<1>7. Kept(R, S) /\ S \in Machine
  <2> DEFINE r == Gpr(w.rd)
  <2>1. S = [R EXCEPT !.reg[r] = val] /\ r \in GuestReg /\ val \in Word
    BY <1>4, RegIs, Widths DEF Written, Word
  <2> HIDE DEF r, S
  <2>2. S \in Machine
    BY <1>2, <2>1, RegSet
  <2> QED
    BY <1>2, <1>4, <2>2, WrittenKept, NarrowIsWord DEF S
<1> HIDE DEF S
<1>8. Kept(S, Written(S, w.ra, a, FALSE))
  BY <1>3, <1>7, WrittenKept, NarrowIsWord
<1>9. CASE InMap(a, bytes)
  <2>1. Kept(R, T)
    BY <1>5, <1>7, <1>8, <1>9, KeptOn
  <2>2. Does(c, t, d, T, n + 9)
    BY <1>1, <1>6, <1>9, DoesGrows
  <2> QED
    BY <2>1, <2>2 DEF Follows, Carries, d, T
<1>10. CASE ~InMap(a, bytes)
  BY <1>5, <1>6, <1>10 DEF Follows, d, T
<1> QED
  BY <1>9, <1>10

LEMMA StoreEffect ==
  ASSUME NEW c, NEW t, NEW R, NEW n \in Nat, n + 9 <= VRegs, Sim(c, t, R, n),
         NEW w \in Words["ppc"], w.ra \in Indices, w.rd \in Indices,
         NEW bytes \in Sizes, NEW update \in BOOLEAN
  PROVE  Follows(c, t, LowerStore(c, w, bytes, update), R, Stored(R, w, bytes, update), n + 9)
<1> DEFINE d == LowerStore(c, w, bytes, update)
           a == Ea(R, w)
           mem == StoreBytes(R.mem, a, bytes, TRUE, RegOf(R, w.rd))
           S == [R EXCEPT !.mem = mem]
           T == Stored(R, w, bytes, update)
<1>1. n + 3 \in Nat /\ n + 3 <= VRegs /\ n + 3 <= n + 9 /\ n + 9 \in Nat /\ n + 2 <= VRegs
  BY RegsLimited
<1>2. R \in Machine
  BY DEF Sim
<1>3. a \in 0..(2 ^ NarrowBits - 1)
  BY <1>1, EaRuns
<1>4. T = IF ~InMap(a, bytes) THEN Fault(R)
          ELSE IF update THEN Written(S, w.ra, a, FALSE) ELSE S
  BY DEF Stored, Ea, Written
<1>5. /\ InMap(a, bytes) => Does(c, t, d, T, n + 3)
      /\ ~InMap(a, bytes) => FaultsAt(c, t, d, R)
  BY <1>1, StoredRuns
<1>6. mem \in [0..(MemSize - 1) -> Byte]
  <2>1. R.mem \in [0..(MemSize - 1) -> Byte] /\ a \in Nat /\ RegOf(R, w.rd) \in Word
    BY <1>2, <1>3, MachineFields, RegIsWord
  <2> HIDE DEF a
  <2> QED
    BY <2>1, StoreIsMemory
<1> HIDE DEF d, a, mem, T
<1>7. S \in Machine /\ S.status = R.status /\ S.reg = R.reg
  BY <1>2, <1>6 DEF Machine
<1> HIDE DEF S
<1>8. Kept(R, S) /\ Kept(S, Written(S, w.ra, a, FALSE))
  <2>1. Kept(R, S)
    BY <1>7 DEF Kept
  <2> DEFINE k == w.ra
  <2>2. k \in Indices
    OBVIOUS
  <2> HIDE DEF k
  <2>3. Kept(S, Written(S, k, a, FALSE))
    BY <1>3, <1>7, <2>2, WrittenKept, NarrowIsWord
  <2> QED
    BY <2>1, <2>3 DEF k
<1>9. CASE InMap(a, bytes)
  <2>1. Kept(R, T)
    BY <1>4, <1>8, <1>9, KeptOn
  <2>2. Does(c, t, d, T, n + 9)
    BY <1>1, <1>5, <1>9, DoesGrows
  <2> QED
    BY <2>1, <2>2 DEF Follows, Carries, d, T
<1>10. CASE ~InMap(a, bytes)
  BY <1>4, <1>5, <1>10 DEF Follows, d, T
<1> QED
  BY <1>9, <1>10

LEMMA MfsprEffect ==
  ASSUME NEW c, NEW t, NEW R, NEW n \in Nat, n + 9 <= VRegs, Sim(c, t, R, n),
         NEW w, SprKinds(w), w.rd \in Indices
  PROVE  LET s == SprReg(spr_field(w))
         IN  Carries(c, t, LowerMfspr(c, w), R,
                     Written(R, w.rd, IF s \in CachedReg THEN R.reg[s] ELSE 0, FALSE), n + 9)
<1> DEFINE s == SprReg(spr_field(w))
           z == IF s \in CachedReg THEN R.reg[s] ELSE 0
           S == Written(R, w.rd, z, FALSE)
<1>1. n + 1 \in Nat /\ n + 2 <= VRegs /\ n + 1 <= n + 9 /\ n + 9 \in Nat
  BY RegsLimited
<1>2. R \in Machine
  BY DEF Sim
<1>3. Does(c, t, LowerMfspr(c, w), S, n + 1)
  BY <1>1, MfsprRuns
<1>4. s \in CachedReg => s \in {xer, lr, ctr}
  BY DEF SprKinds
<1> HIDE DEF s
<1>5. z \in Word
  <2>1. CASE s \in CachedReg
    BY <1>2, <1>4, <2>1, RegIs, MachineFields
  <2>2. CASE s \notin CachedReg
    BY <2>2, SmallWords
  <2> QED
    BY <2>1, <2>2
<1> HIDE DEF z
<1>6. Kept(R, S)
  BY <1>2, <1>5, WrittenKept
<1> HIDE DEF S
<1>7. Does(c, t, LowerMfspr(c, w), S, n + 9)
  BY <1>1, <1>3, DoesGrows
<1> QED
  BY <1>6, <1>7 DEF Carries, S, z, s

LEMMA MtsprEffect ==
  ASSUME NEW c, NEW t, NEW R, NEW n \in Nat, n + 9 <= VRegs, Sim(c, t, R, n),
         NEW w, SprKinds(w), w.rd \in Indices
  PROVE  LET s == SprReg(spr_field(w))
         IN  Carries(c, t, LowerMtspr(c, w), R,
                     IF s \in CachedReg THEN [R EXCEPT !.reg[s] = RegOf(R, w.rd)] ELSE R, n + 9)
<1> DEFINE s == SprReg(spr_field(w))
           x == RegOf(R, w.rd)
           S == IF s \in CachedReg THEN [R EXCEPT !.reg[s] = x] ELSE R
<1>1. n + 1 \in Nat /\ n + 2 <= VRegs /\ n + 1 <= n + 9 /\ n + 9 \in Nat
  BY RegsLimited
<1>2. R \in Machine
  BY DEF Sim
<1>3. Does(c, t, LowerMtspr(c, w), S, n + 1)
  BY <1>1, MtsprRuns
<1> HIDE DEF s, x
<1>4. Kept(R, S)
  <2>1. CASE s \in CachedReg
    BY <1>2, <2>1, RegSetKept
  <2>2. CASE s \notin CachedReg
    BY <2>2 DEF Kept
  <2> QED
    BY <2>1, <2>2
<1> HIDE DEF S
<1>5. Does(c, t, LowerMtspr(c, w), S, n + 9)
  BY <1>1, <1>3, DoesGrows
<1> QED
  BY <1>4, <1>5 DEF Carries, S, s, x

LEMMA CrandEffect ==
  ASSUME NEW c, NEW t, NEW R, NEW n \in Nat, n + 9 <= VRegs, Sim(c, t, R, n),
         NEW w, {w.rd, w.ra, w.rb} \subseteq 0..(CrBits - 1)
  PROVE  Carries(c, t, LowerCrand(c, w), R,
                 [R EXCEPT !.reg[cr] = WithField(@, w.rd \div 4,
                                                 BitOf(@, HostBit(w.ra)) * BitOf(@, HostBit(w.rb)))],
                 n + 9)
<1> DEFINE f == WithField(R.reg[cr], w.rd \div 4,
                          BitOf(R.reg[cr], HostBit(w.ra)) * BitOf(R.reg[cr], HostBit(w.rb)))
           S == [R EXCEPT !.reg[cr] = f]
<1>1. n + 3 \in Nat /\ n + 3 <= VRegs /\ n + 3 <= n + 9 /\ n + 9 \in Nat
  BY RegsLimited
<1>2. R \in Machine /\ cr \in CachedReg
  BY RegIs DEF Sim
<1>3. Does(c, t, LowerCrand(c, w), S, n + 3)
  BY <1>1, CrandRuns
<1> HIDE DEF f
<1>4. Kept(R, S)
  BY <1>2, RegSetKept
<1> HIDE DEF S
<1>5. Does(c, t, LowerCrand(c, w), S, n + 9)
  BY <1>1, <1>3, DoesGrows
<1> QED
  BY <1>4, <1>5 DEF Carries, S, f

LEMMA PsAddEffect ==
  ASSUME NEW c, NEW t, NEW R, NEW n \in Nat, n + 9 <= VRegs, Sim(c, t, R, n),
         NEW w, w.ra \in Indices, w.rb \in Indices, w.rd \in Indices
  PROVE  Carries(c, t, LowerPsAdd(c, w), R,
                 [R EXCEPT !.reg[Vec(w.rd)] = VecSum(R.reg[Vec(w.ra)], R.reg[Vec(w.rb)])], n + 9)
<1> DEFINE r == Vec(w.rd)
           x == VecSum(R.reg[Vec(w.ra)], R.reg[Vec(w.rb)])
           S == [R EXCEPT !.reg[r] = x]
<1>1. n + 3 \in Nat /\ n + 3 <= VRegs /\ n + 3 <= n + 9 /\ n + 9 \in Nat
  BY RegsLimited
<1>2. R \in Machine /\ r \in CachedReg
  BY RegIs DEF Sim
<1>3. Does(c, t, LowerPsAdd(c, w), S, n + 3)
  BY <1>1, PsAddRuns
<1> HIDE DEF x, r
<1>4. Kept(R, S)
  BY <1>2, RegSetKept
<1> HIDE DEF S
<1>5. Does(c, t, LowerPsAdd(c, w), S, n + 9)
  BY <1>1, <1>3, DoesGrows
<1> QED
  BY <1>4, <1>5 DEF Carries, S, x, r

LEMMA UnimplementedEffect ==
  ASSUME NEW c, NEW t, NEW R, NEW n \in Nat, Sim(c, t, R, n)
  PROVE  Carries(c, t, emit_unimplemented(c), R, R, n + 9)
<1>1. Does(c, t, emit_unimplemented(c), R, n + 9)
  BY UnimplementedRuns, DoesGrows
<1> QED
  BY <1>1 DEF Carries, Kept

(* A jump leaves a machine that runs as before.                            *)
JumpKeeps(R, S) == S \in Machine /\ S.status = R.status

LEMMA JumpKept ==
  ASSUME NEW R \in Machine, NEW x \in Word
  PROVE  JumpKeeps(R, JumpTo(R, x))
BY RegIs, RegSet DEF JumpTo, JumpKeeps

LEMMA JumpedKept ==
  ASSUME NEW R \in Machine, NEW w, NEW next \in Word, NEW x \in Word
  PROVE  JumpKeeps(R, Jumped(R, w, next, x))
<1> DEFINE L == LinkedTo(R, w, next)
<1>1. next \in Int
  BY WordIsInt
<1>2. Jumped(R, w, next, x) = JumpTo(L, x) /\ L \in Machine /\ L.status = R.status
  BY <1>1, JumpedIs
<1> HIDE DEF L
<1>3. JumpKeeps(L, JumpTo(L, x))
  BY <1>2, JumpKept
<1> QED
  BY <1>2, <1>3 DEF JumpKeeps

(* The pc has moved on.                                                    *)
Moved(R) == [R EXCEPT !.reg[pc] = next_pc(R.reg[pc])]

LEMMA NextIsWord ==
  ASSUME NEW p \in Word
  PROVE  next_pc(p) \in Word
<1>1. p + InsnLen \in Int
  BY WordIsInt, WidthAssumption
<1> QED
  BY <1>1, TruncIsWord DEF next_pc

LEMMA MovedKept ==
  ASSUME NEW R \in Machine
  PROVE  /\ Moved(R) \in Machine
         /\ Moved(R).reg[pc] = next_pc(R.reg[pc])
         /\ Moved(R).status = R.status
         /\ Moved(R).mem = R.mem
         /\ \A r \in CachedReg : Moved(R).reg[r] = R.reg[r]
<1> DEFINE x == next_pc(R.reg[pc])
<1>1. R.reg[pc] \in Word
  BY MachineFields, RegIs
<1>2. x \in Word
  BY <1>1, NextIsWord
<1>3. Moved(R) = JumpTo(R, x)
  BY DEF Moved, JumpTo
<1> HIDE DEF x
<1>4. /\ JumpTo(R, x) \in Machine
      /\ JumpTo(R, x).reg = [R.reg EXCEPT ![pc] = x]
      /\ JumpTo(R, x).status = R.status
      /\ JumpTo(R, x).mem = R.mem
  BY <1>2, RegIs, RegSet DEF JumpTo
<1>5. /\ JumpTo(R, x).reg[pc] = x
      /\ \A r \in CachedReg : JumpTo(R, x).reg[r] = R.reg[r]
  BY <1>4, RegIs, MachineFields
<1> QED
  BY <1>3, <1>4, <1>5 DEF x

LEMMA SimMoved ==
  ASSUME NEW c, NEW t, NEW R, NEW n, Sim(c, t, R, n)
  PROVE  Sim(c, t, Moved(R), n)
<1>1. R \in Machine
  BY DEF Sim
<1> QED
  BY <1>1, MovedKept DEF Sim

(* What the ops of an instruction do, and how they leave the registers.    *)
Lowered(c, t, d, R, S, n, leaves) ==
  /\ ~leaves => Follows(c, t, d, R, S, n)
  /\ leaves => Exits(c, t, d, S) /\ JumpKeeps(R, S)

LEMMA PpcRuns ==
  ASSUME NEW c, NEW t, NEW before, NEW n \in Nat, n + 9 <= VRegs, Sim(c, t, before, n),
         NEW w \in Words["ppc"]
  PROVE  Lowered(c, t, PpcLower(c, w, before.reg[pc]), Moved(before), PpcEffect(w, before),
                 n + 9, Mnemonic(w) \in branchNames)
<1> DEFINE name == Mnemonic(w)
           p == before.reg[pc]
           R == Moved(before)
           d == PpcLower(c, w, p)
           S == PpcEffect(w, before)
           high == w.imm * 2 ^ HalfBits
           goal == Lowered(c, t, d, R, S, n + 9, name \in branchNames)
           next == next_pc(p)
<1>1. before \in Machine /\ p \in Word /\ next \in Word
  <2>1. before \in Machine
    BY DEF Sim
  <2>2. p \in Word
    BY <2>1, RegIs, MachineFields
  <2> QED
    BY <2>1, <2>2, NextIsWord
<1>2. Sim(c, t, R, n) /\ R \in Machine
  BY <1>1, SimMoved, MovedKept
<1>3. n + 3 <= VRegs
  BY RegsLimited
<1>4. /\ {simm(w), w.imm, high} \subseteq Word
      /\ SignExtend(high, NarrowBits) \in Word
      /\ li_target(w, p) \in Word /\ bd_target(w, p) \in Word
  BY <1>1, PpcLiterals
<1>5. /\ name \notin {"b", "bc", "bclr", "crand", "unknown"} => w.rd \in Indices
      /\ name \notin {"b", "bc", "bclr", "crand", "unknown", "mfspr", "mtspr"} =>
           w.ra \in Indices
      /\ name \in {"add", "and", "or", "xor", "subf", "ps_add"} => w.rb \in Indices
      /\ name = "rlwinm" => {w.rb, w.mb, w.me} \subseteq 0..(NarrowBits - 1)
      /\ name = "crand" => {w.rd, w.ra, w.rb} \subseteq 0..(CrBits - 1)
      /\ name = "bc" => w.ra \in 0..(CrBits - 1)
  BY FieldAssumption DEF PpcFields
<1>6. /\ Literal(w) \in Int /\ Low(simm(w)) = Low(Literal(w))
      /\ Low(SignExtend(high, NarrowBits)) = Low(high)
  BY PpcImmediates
<1>7. name \notin branchNames /\ Follows(c, t, d, R, S, n + 9) => goal
  BY DEF Lowered
<1>8. Carries(c, t, d, R, S, n + 9) => Follows(c, t, d, R, S, n + 9)
  BY DEF Follows
<1>9. name \in branchNames /\ Exits(c, t, d, S) /\ JumpKeeps(R, S) => goal
  BY DEF Lowered
<1>10. {1, WordBytes} \subseteq Sizes
  BY DEF Sizes
<1> SUFFICES goal
  OBVIOUS
<1> HIDE DEF goal
<1>11. CASE name = "addi"
  <2>1. d = LowerAddImm(c, w, simm(w))
    BY <1>11 DEF PpcLower
  <2>2. S = Written(R, w.rd, Low(OrZero(R, w.ra) + Literal(w)), FALSE)
    BY <1>11 DEF PpcEffect, Moved
  <2>3. w.ra \in Indices /\ w.rd \in Indices
    BY <1>5, <1>11
  <2> HIDE DEF d, S, R
  <2>4. Carries(c, t, d, R, S, n + 9)
    BY <1>2, <1>4, <1>6, <2>1, <2>2, <2>3, AddImmEffect
  <2> QED
    BY <1>7, <1>8, <1>11, <2>4 DEF branchNames
<1>12. CASE name = "addis"
  <2>1. d = LowerAddImm(c, w, SignExtend(high, NarrowBits))
    BY <1>12 DEF PpcLower
  <2>2. S = Written(R, w.rd, Low(OrZero(R, w.ra) + high), FALSE)
    BY <1>12 DEF PpcEffect, Moved
  <2>3. w.ra \in Indices /\ w.rd \in Indices
    BY <1>5, <1>12
  <2>4. high \in Word
    BY <1>4
  <2> HIDE DEF d, S, R, high
  <2>5. high \in Int
    BY <2>4, WordIsInt
  <2>6. Carries(c, t, d, R, S, n + 9)
    BY <1>2, <1>4, <1>6, <2>1, <2>2, <2>3, <2>5, AddImmEffect
  <2> QED
    BY <1>7, <1>8, <1>12, <2>6 DEF branchNames
<1>13. CASE name \in {"ori", "oris", "xori"}
  <2>1. \E x \in Word, alu \in {"or", "xor", "and"} :
          /\ d = LowerLogicImm(c, w, alu, x)
          /\ S = Written(R, w.ra, Logic(alu, RegOf(R, w.rd), x), FALSE)
    <3>1. CASE name = "ori"
      <4>1. d = LowerLogicImm(c, w, "or", w.imm)
        BY <3>1 DEF PpcLower
      <4>2. S = Written(R, w.ra, Logic("or", RegOf(R, w.rd), w.imm), FALSE)
        BY <3>1 DEF PpcEffect, Moved
      <4> QED
        BY <1>4, <4>1, <4>2
    <3>2. CASE name = "oris"
      <4>1. d = LowerLogicImm(c, w, "or", high)
        BY <3>2 DEF PpcLower
      <4>2. S = Written(R, w.ra, Logic("or", RegOf(R, w.rd), high), FALSE)
        BY <3>2 DEF PpcEffect, Moved
      <4> QED
        BY <1>4, <4>1, <4>2
    <3>3. CASE name = "xori"
      <4>1. d = LowerLogicImm(c, w, "xor", w.imm)
        BY <3>3 DEF PpcLower
      <4>2. S = Written(R, w.ra, Logic("xor", RegOf(R, w.rd), w.imm), FALSE)
        BY <3>3 DEF PpcEffect, Moved
      <4> QED
        BY <1>4, <4>1, <4>2
    <3> QED
      BY <1>13, <3>1, <3>2, <3>3
  <2>2. w.ra \in Indices /\ w.rd \in Indices
    BY <1>5, <1>13
  <2> HIDE DEF d, S, R
  <2>3. Carries(c, t, d, R, S, n + 9)
    BY <1>2, <2>1, <2>2, LogicImmEffect
  <2> QED
    BY <1>7, <1>8, <1>13, <2>3 DEF branchNames
<1>14. CASE name = "andi."
  <2> DEFINE a == LowerLogicImm(c, w, "and", w.imm)
  <2>1. d = emit_rc0_from_result(a, a.at[Gpr(w.ra)], FALSE)
    BY <1>14 DEF PpcLower
  <2>2. S = Written(R, w.ra, Logic("and", RegOf(R, w.rd), w.imm), TRUE)
    BY <1>14 DEF PpcEffect, Moved
  <2>3. w.ra \in Indices /\ w.rd \in Indices /\ w.imm \in Word
    BY <1>4, <1>5, <1>14
  <2> HIDE DEF d, S, R
  <2>4. Carries(c, t, d, R, S, n + 9)
    BY <1>2, <2>1, <2>2, <2>3, LogicImmEffect
  <2> QED
    BY <1>7, <1>8, <1>14, <2>4 DEF branchNames
<1>15. CASE name = "add"
  <2>1. d = LowerAlu(c, w, "add", w.ra, w.rb, w.rd)
    BY <1>15 DEF PpcLower
  <2>2. S = Written(R, w.rd, Low(RegOf(R, w.ra) + RegOf(R, w.rb)), w.rc)
    BY <1>15 DEF PpcEffect, Moved
  <2>3. w.ra \in Indices /\ w.rd \in Indices /\ w.rb \in Indices
    BY <1>5, <1>15
  <2> HIDE DEF d, S, R
  <2>4. Carries(c, t, d, R, S, n + 9)
    BY <1>2, <2>1, <2>2, <2>3, AddEffect
  <2> QED
    BY <1>7, <1>8, <1>15, <2>4 DEF branchNames
<1>16. CASE name \in {"and", "or", "xor"}
  <2>1. d = LowerAlu(c, w, name, w.rd, w.rb, w.ra)
    BY <1>16 DEF PpcLower
  <2>2. S = Written(R, w.ra, Logic(name, RegOf(R, w.rd), RegOf(R, w.rb)), w.rc)
    BY <1>16 DEF PpcEffect, Moved
  <2>3. w.ra \in Indices /\ w.rd \in Indices /\ w.rb \in Indices
    BY <1>5, <1>16
  <2> HIDE DEF d, S, R
  <2>4. Carries(c, t, d, R, S, n + 9)
    BY <1>2, <1>16, <2>1, <2>2, <2>3, LogicEffect
  <2> QED
    BY <1>7, <1>8, <1>16, <2>4 DEF branchNames
<1>17. CASE name = "subf"
  <2>1. d = LowerAlu(read_reg(c, Gpr(w.ra)), w, "sub", w.rb, w.ra, w.rd)
    BY <1>17 DEF PpcLower
  <2>2. S = Written(R, w.rd, Low(RegOf(R, w.rb) - RegOf(R, w.ra)), w.rc)
    BY <1>17 DEF PpcEffect, Moved
  <2>3. w.ra \in Indices /\ w.rd \in Indices /\ w.rb \in Indices
    BY <1>5, <1>17
  <2> HIDE DEF d, S, R
  <2>4. Carries(c, t, d, R, S, n + 9)
    BY <1>2, <2>1, <2>2, <2>3, SubfEffect
  <2> QED
    BY <1>7, <1>8, <1>17, <2>4 DEF branchNames
<1>18. CASE name \in {"lwz", "lwzu", "lbz"}
  <2>1. \E bytes \in Sizes, update \in BOOLEAN :
          d = LowerLoad(c, w, bytes, update) /\ S = Loaded(R, w, bytes, update)
    <3>1. CASE name = "lwz"
      <4>1. d = LowerLoad(c, w, WordBytes, FALSE) /\ S = Loaded(R, w, WordBytes, FALSE)
        BY <3>1 DEF PpcLower, PpcEffect, Moved
      <4> QED
        BY <1>10, <4>1
    <3>2. CASE name = "lwzu"
      <4>1. d = LowerLoad(c, w, WordBytes, TRUE) /\ S = Loaded(R, w, WordBytes, TRUE)
        BY <3>2 DEF PpcLower, PpcEffect, Moved
      <4> QED
        BY <1>10, <4>1
    <3>3. CASE name = "lbz"
      <4>1. d = LowerLoad(c, w, 1, FALSE) /\ S = Loaded(R, w, 1, FALSE)
        BY <3>3 DEF PpcLower, PpcEffect, Moved
      <4> QED
        BY <1>10, <4>1
    <3> QED
      BY <1>18, <3>1, <3>2, <3>3
  <2>2. w.ra \in Indices /\ w.rd \in Indices
    BY <1>5, <1>18
  <2> HIDE DEF d, S, R
  <2>3. Follows(c, t, d, R, S, n + 9)
    BY <1>2, <2>1, <2>2, LoadEffect
  <2> QED
    BY <1>7, <1>18, <2>3 DEF branchNames
<1>19. CASE name \in {"stw", "stwu", "stb"}
  <2>1. \E bytes \in Sizes, update \in BOOLEAN :
          d = LowerStore(c, w, bytes, update) /\ S = Stored(R, w, bytes, update)
    <3>1. CASE name = "stw"
      <4>1. d = LowerStore(c, w, WordBytes, FALSE) /\ S = Stored(R, w, WordBytes, FALSE)
        BY <3>1 DEF PpcLower, PpcEffect, Moved
      <4> QED
        BY <1>10, <4>1
    <3>2. CASE name = "stwu"
      <4>1. d = LowerStore(c, w, WordBytes, TRUE) /\ S = Stored(R, w, WordBytes, TRUE)
        BY <3>2 DEF PpcLower, PpcEffect, Moved
      <4> QED
        BY <1>10, <4>1
    <3>3. CASE name = "stb"
      <4>1. d = LowerStore(c, w, 1, FALSE) /\ S = Stored(R, w, 1, FALSE)
        BY <3>3 DEF PpcLower, PpcEffect, Moved
      <4> QED
        BY <1>10, <4>1
    <3> QED
      BY <1>19, <3>1, <3>2, <3>3
  <2>2. w.ra \in Indices /\ w.rd \in Indices
    BY <1>5, <1>19
  <2> HIDE DEF d, S, R
  <2>3. Follows(c, t, d, R, S, n + 9)
    BY <1>2, <2>1, <2>2, StoreEffect
  <2> QED
    BY <1>7, <1>19, <2>3 DEF branchNames
<1>20. CASE name = "rlwinm"
  <2> DEFINE rot == RotatedLeft(Low(RegOf(R, w.rd)), w.rb)
  <2>1. d = LowerRlwinm(c, w)
    BY <1>20 DEF PpcLower
  <2>2. S = Written(R, w.ra, Masked(rot, w.mb, w.me), w.rc)
    BY <1>20 DEF PpcEffect, Moved, Masked
  <2>3. w.ra \in Indices /\ w.rd \in Indices /\ {w.rb, w.mb, w.me} \subseteq 0..(NarrowBits - 1)
    BY <1>5, <1>20
  <2> HIDE DEF d, S, R
  <2>4. Carries(c, t, d, R, S, n + 9)
    BY <1>2, <2>1, <2>2, <2>3, RlwinmEffect
  <2> QED
    BY <1>7, <1>8, <1>20, <2>4 DEF branchNames
<1>21. CASE name = "mfspr"
  <2>1. d = LowerMfspr(c, w)
    BY <1>21 DEF PpcLower
  <2>2. S = Written(R, w.rd, IF SprReg(spr_field(w)) \in CachedReg THEN R.reg[SprReg(spr_field(w))]
                             ELSE 0, FALSE)
    BY <1>21 DEF PpcEffect, Moved
  <2>3. w.rd \in Indices /\ SprKinds(w)
    BY <1>5, <1>21, SprIs
  <2> HIDE DEF d, S, R
  <2>4. Carries(c, t, d, R, S, n + 9)
    BY <1>2, <2>1, <2>2, <2>3, MfsprEffect
  <2> QED
    BY <1>7, <1>8, <1>21, <2>4 DEF branchNames
<1>22. CASE name = "mtspr"
  <2>1. d = LowerMtspr(c, w)
    BY <1>22 DEF PpcLower
  <2>2. S = IF SprReg(spr_field(w)) \in CachedReg
            THEN [R EXCEPT !.reg[SprReg(spr_field(w))] = RegOf(R, w.rd)] ELSE R
    BY <1>22 DEF PpcEffect, Moved
  <2>3. w.rd \in Indices /\ SprKinds(w)
    BY <1>5, <1>22, SprIs
  <2> HIDE DEF d, S, R
  <2>4. Carries(c, t, d, R, S, n + 9)
    BY <1>2, <2>1, <2>2, <2>3, MtsprEffect
  <2> QED
    BY <1>7, <1>8, <1>22, <2>4 DEF branchNames
<1>23. CASE name = "b"
  <2>1. d = emit_exit_uncond(Link(c, w, p), li_target(w, p))
    BY <1>23 DEF PpcLower
  <2>2. S = Jumped(R, w, next, li_target(w, p))
    BY <1>23 DEF PpcEffect, Moved
  <2> HIDE DEF d, S, R
  <2>3. Exits(c, t, d, S)
    BY <1>1, <1>2, <1>3, <2>1, <2>2, BRuns
  <2>4. JumpKeeps(R, S)
    BY <1>1, <1>2, <1>4, <2>2, JumpedKept
  <2> QED
    BY <1>9, <1>23, <2>3, <2>4 DEF branchNames
<1>24. CASE name = "bclr"
  <2> DEFINE x == IF w.rc THEN Low(next) ELSE R.reg[lr]
  <2>1. d = LowerBclr(c, w, p)
    BY <1>24 DEF PpcLower
  <2>2. S = Jumped(R, w, next, x)
    BY <1>24 DEF PpcEffect, Moved
  <2>3. x \in Word
    <3>1. R.reg[lr] \in Word
      BY <1>2, RegIs, MachineFields
    <3>2. Low(next) \in Word
      <4> HIDE DEF next
      <4>1. next \in Int
        BY <1>1, WordIsInt
      <4> QED
        BY <4>1, LowIsNarrow
    <3> QED
      BY <3>1, <3>2
  <2> HIDE DEF d, S, R
  <2>4. Exits(c, t, d, S)
    BY <1>1, <1>2, <1>3, <2>1, <2>2, BclrRuns
  <2> HIDE DEF x
  <2>5. JumpKeeps(R, S)
    BY <1>1, <1>2, <2>2, <2>3, JumpedKept
  <2> QED
    BY <1>9, <1>24, <2>4, <2>5 DEF branchNames
<1>25. CASE name = "bc"
  <2> DEFINE x == IF Taken(R, w) THEN bd_target(w, p) ELSE next
  <2>1. d = LowerBc(c, w, p)
    BY <1>25 DEF PpcLower
  <2>2. S = Jumped(R, w, next, x)
    BY <1>25 DEF PpcEffect, Moved
  <2>3. x \in Word
    BY <1>1, <1>4
  <2>4. w.ra \in 0..(CrBits - 1)
    BY <1>5, <1>25
  <2> HIDE DEF d, S, R
  <2>5. Exits(c, t, d, S)
    BY <1>1, <1>2, <1>3, <2>1, <2>2, <2>4, BcRuns
  <2> HIDE DEF x
  <2>6. JumpKeeps(R, S)
    BY <1>1, <1>2, <2>2, <2>3, JumpedKept
  <2> QED
    BY <1>9, <1>25, <2>5, <2>6 DEF branchNames
<1>26. CASE name = "crand"
  <2>1. d = LowerCrand(c, w)
    BY <1>26 DEF PpcLower
  <2>2. S = [R EXCEPT !.reg[cr] = WithField(@, w.rd \div 4,
                                            BitOf(@, HostBit(w.ra)) * BitOf(@, HostBit(w.rb)))]
    BY <1>26 DEF PpcEffect, Moved
  <2>3. {w.rd, w.ra, w.rb} \subseteq 0..(CrBits - 1)
    BY <1>5, <1>26
  <2> HIDE DEF d, S, R
  <2>4. Carries(c, t, d, R, S, n + 9)
    BY <1>2, <2>1, <2>2, <2>3, CrandEffect
  <2> QED
    BY <1>7, <1>8, <1>26, <2>4 DEF branchNames
<1>27. CASE name = "ps_add"
  <2>1. d = LowerPsAdd(c, w)
    BY <1>27 DEF PpcLower
  <2>2. S = [R EXCEPT !.reg[Vec(w.rd)] = VecSum(R.reg[Vec(w.ra)], R.reg[Vec(w.rb)])]
    BY <1>27 DEF PpcEffect, Moved
  <2>3. w.ra \in Indices /\ w.rb \in Indices /\ w.rd \in Indices
    BY <1>5, <1>27
  <2> HIDE DEF d, S, R
  <2>4. Carries(c, t, d, R, S, n + 9)
    BY <1>2, <2>1, <2>2, <2>3, PsAddEffect
  <2> QED
    BY <1>7, <1>8, <1>27, <2>4 DEF branchNames
<1>28. CASE name \notin {"addi", "addis", "ori", "oris", "xori", "andi.", "add", "and", "or",
                         "xor", "subf", "lwz", "lwzu", "lbz", "stw", "stwu", "stb", "rlwinm",
                         "mfspr", "mtspr", "b", "bclr", "bc", "crand", "ps_add"}
  <2>1. d = emit_unimplemented(c)
    BY <1>28 DEF PpcLower
  <2>2. S = R
    BY <1>28 DEF PpcEffect, Moved
  <2> HIDE DEF d, S, R
  <2>3. Carries(c, t, d, R, S, n + 9)
    BY <1>2, <2>1, <2>2, UnimplementedEffect
  <2> QED
    BY <1>7, <1>8, <1>28, <2>3 DEF branchNames
<1> HIDE DEF name
<1> QED
  BY <1>11, <1>12, <1>13, <1>14, <1>15, <1>16, <1>17, <1>18, <1>19, <1>20, <1>21, <1>22,
     <1>23, <1>24, <1>25, <1>26, <1>27, <1>28

-----------------------------------------------------------------------------
(* The instructions of the AArch64 frontend.                               *)

(* The register that is zero.                                              *)
Zeroed(R) == R.reg[Gpr(ZeroReg)] = 0

SizeOf(wide) == IF wide THEN WideBits ELSE NarrowBits

LEMMA AddIsSized ==
  ASSUME NEW x \in Int, NEW y \in Int, NEW wide \in BOOLEAN
  PROVE  Emitted("add", wide, x, y) = Trunc(x + y, SizeOf(wide))
<1>1. CASE wide
  BY <1>1, AluIs DEF Emitted, SizeOf
<1>2. CASE ~wide
  <2>1. Emitted("add", FALSE, x, y) = Low(x + y)
    BY AddIsLow
  <2> QED
    BY <1>2, <2>1 DEF SizeOf, Low
<1> QED
  BY <1>1, <1>2

LEMMA OrIsSized ==
  ASSUME NEW x \in Int, NEW wide \in BOOLEAN
  PROVE  Emitted("or", wide, 0, Trunc(x, WideBits)) = Trunc(x, SizeOf(wide))
<1> DEFINE y == Trunc(x, WideBits)
           z == Trunc(x, NarrowBits)
<1>1. WideBits \in 0..WideBits /\ NarrowBits \in 0..WideBits
  BY Widths, BitsAssumption
<1>2. y \in 0..(2 ^ WideBits - 1) /\ z \in 0..(2 ^ NarrowBits - 1)
  BY <1>1, TruncFacts
<1>3. Trunc(y, NarrowBits) = z
  BY <1>1, TruncOfTrunc
<1>4. Trunc(0, NarrowBits) = 0
  <2>1. 0 \in 0..(2 ^ NarrowBits - 1)
    BY Widths
  <2> QED
    BY <1>1, <2>1, TruncFacts
<1> HIDE DEF y, z
<1>5. Alu("or", WideBits, 0, y) = y /\ Alu("or", NarrowBits, 0, z) = z
  BY <1>1, <1>2, OrOfZero
<1> QED
  BY <1>3, <1>4, <1>5 DEF Emitted, SizeOf, y, z

LEMMA GprsDiffer ==
  \A x, y : Gpr(x) = Gpr(y) => x = y
<1> TAKE x, y
<1>1. Gpr(x).n = x /\ Gpr(y).n = y
  BY DEF Gpr, Named
<1> QED
  BY <1>1

LEMMA XWrittenKept ==
  ASSUME NEW R \in Machine, Zeroed(R), NEW k \in Indices, NEW x \in Word
  PROVE  LET S == XWritten(R, k, x)
         IN  /\ S \in Machine
             /\ S.status = R.status
             /\ S.reg[pc] = R.reg[pc]
             /\ Zeroed(S)
<1> DEFINE r == Gpr(k)
           z == Gpr(ZeroReg)
           S == XWritten(R, k, x)
           T == [R EXCEPT !.reg[r] = x]
<1>1. r \in GuestReg /\ z \in GuestReg /\ pc \in GuestReg /\ r # pc
  BY RegIs, StartAssumption
<1>2. k # ZeroReg => r # z
  BY GprsDiffer
<1>3. S = IF k = ZeroReg THEN R ELSE T
  BY DEF XWritten
<1>4. R.reg[z] = 0 /\ R.reg \in [GuestReg -> Word]
  BY MachineFields DEF Zeroed
<1> HIDE DEF r, z, S
<1>5. /\ T \in Machine
      /\ T.reg = [R.reg EXCEPT ![r] = x]
      /\ T.status = R.status
  BY <1>1, RegSet
<1> HIDE DEF T
<1>6. T.reg[pc] = R.reg[pc] /\ (k # ZeroReg => T.reg[z] = 0)
  BY <1>1, <1>2, <1>4, <1>5
<1>7. S \in Machine /\ S.status = R.status /\ S.reg[pc] = R.reg[pc] /\ S.reg[z] = 0
  BY <1>3, <1>4, <1>5, <1>6
<1> QED
  BY <1>7 DEF Zeroed, S, z

LEMMA XWrites ==
  ASSUME NEW c, NEW t, NEW d, NEW u, NEW R, NEW n, NEW val, Computes(c, t, d, u, R, n, val),
         NEW k \in Indices
  PROVE  LET e == WriteUnlessZero(d, k)
         IN  Sim(e, u, XWritten(R, k, val), n) /\ Goes(c, t, e, u)
<1>1. CASE k = ZeroReg
  BY <1>1 DEF WriteUnlessZero, XWritten, Computes
<1>2. CASE k # ZeroReg
  <2> DEFINE r == Gpr(k)
             e == write_reg(d, r, Result(d))
  <2>1. r \in CachedReg \ {cr}
    BY RegIs
  <2> HIDE DEF r
  <2>2. Sim(e, u, [R EXCEPT !.reg[r] = val], n) /\ Goes(c, t, e, u)
    BY <2>1, ResultWrites
  <2>3. WriteUnlessZero(d, k) = e /\ XWritten(R, k, val) = [R EXCEPT !.reg[r] = val]
    BY <1>2 DEF WriteUnlessZero, XWritten, r
  <2> QED
    BY <2>2, <2>3
<1> QED
  BY <1>1, <1>2

(* What the instruction leaves alone.                                      *)
Stays(R, S) ==
  /\ S.status = R.status
  /\ S.reg[pc] = R.reg[pc]
  /\ Zeroed(S)

LEMMA A64AddRuns ==
  ASSUME NEW c, NEW t, NEW R, NEW n \in Nat, n + 9 <= VRegs, Sim(c, t, R, n), Zeroed(R),
         NEW w \in Words["a64"]
  PROVE  LET S == XWritten(R, w.rd, Sized(w, XOf(R, w.rn) + w.imm))
         IN  Does(c, t, LowerAdd(c, w), S, n + 9) /\ Stays(R, S)
<1> DEFINE g == Gpr(w.rn)
           r == IF w.rn = ZeroReg THEN c ELSE read_reg(c, g)
           x == IF w.rn = ZeroReg THEN 0 ELSE r.at[g]
           top == TopBit(w)
           e == emit_binary(r, "add", top, x, w.imm)
           d == LowerAdd(c, w)
           y == XOf(R, w.rn)
           val == Sized(w, y + w.imm)
<1>1. /\ n \in 0..(VRegs - 1) /\ n + 1 \in 0..(VRegs - 1) /\ n + 1 \in Nat
      /\ (n + 1) + 1 \in Nat /\ (n + 1) + 1 <= n + 9 /\ n + 9 \in Nat /\ n <= n + 1
  BY RegsLimited
<1>2. R \in Machine
  BY DEF Sim
<1>3. w.rd \in Indices /\ w.rn \in Indices /\ w.imm \in Word
  <2>1. w.imm \in Word
    <3>1. 0 \in Word
      BY SmallWords
    <3> QED
      BY <3>1, A64Literals
  <2> QED
    BY <2>1, FieldAssumption DEF A64Fields
<1>4. g \in CachedReg \ {cr}
  BY <1>3, RegIs
<1>5. d = WriteUnlessZero(e, w.rd)
  BY DEF LowerAdd
<1>6. top \in BOOLEAN
  BY DEF TopBit
<1> HIDE DEF top
<1>7. PICK u : /\ Sim(r, u, R, n + 1) /\ Goes(c, t, r, u)
               /\ Known(r, x) /\ (x \in Imm => x \in Word) /\ Val(u, x) = y
  <2>1. CASE w.rn = ZeroReg
    <3>1. r = c /\ x = 0 /\ y = 0
      BY <2>1 DEF XOf
    <3>2. 0 \in Word
      BY SmallWords
    <3>3. Known(c, 0) /\ Val(t, 0) = 0
      BY <3>2, WordIsKnown
    <3>4. Sim(c, t, R, n + 1) /\ Goes(c, t, c, t)
      BY <1>1, SimGrows, SimGoes
    <3> QED
      BY <3>1, <3>2, <3>3, <3>4
  <2>2. CASE w.rn # ZeroReg
    <3>1. r = read_reg(c, g) /\ x = r.at[g] /\ y = R.reg[g]
      BY <2>2 DEF XOf
    <3> HIDE DEF g, r, x, y
    <3>2. PICK u : RegKnown(c, t, r, u, R, n + 1, g)
      BY <1>1, <1>4, <3>1, RegReadRuns
    <3> QED
      BY <3>1, <3>2, VRegIsNoWord DEF RegKnown
  <2> QED
    BY <2>1, <2>2
<1>8. y \in Word
  <2>1. 0 \in Word
    BY SmallWords
  <2>2. R.reg[g] \in Word
    BY <1>2, <1>4, RegIs, MachineFields
  <2> QED
    BY <2>1, <2>2 DEF XOf
<1> HIDE DEF r, x, y, g
<1>9. Known(r, w.imm) /\ Val(u, w.imm) = w.imm
  BY <1>3, WordIsKnown
<1>10. "add" \in arithNames
  BY DEF arithNames
<1>11. \E v : Computes(r, u, e, v, R, (n + 1) + 1, Emitted("add", top, Val(u, x), Val(u, w.imm)))
  BY <1>1, <1>3, <1>6, <1>7, <1>9, <1>10, BinaryRuns
<1>12. y \in Int /\ w.imm \in Int
  <2> DEFINE i == w.imm
  <2>1. i \in Word
    BY <1>3
  <2> HIDE DEF i
  <2>2. y \in Int /\ i \in Int
    BY <1>8, <2>1, WordIsInt
  <2> QED
    BY <2>2 DEF i
<1>13. Emitted("add", top, y, w.imm) = val /\ val \in Word
  <2> DEFINE i == w.imm
  <2>1. i \in Int
    BY <1>12
  <2>2. val = Trunc(y + i, SizeOf(top))
    BY DEF Sized, SizeOf, top
  <2> HIDE DEF val, i
  <2>3. Emitted("add", top, y, i) = Trunc(y + i, SizeOf(top))
    BY <1>6, <1>12, <2>1, AddIsSized
  <2>4. y + i \in Int
    BY <1>12, <2>1
  <2>5. Trunc(y + i, SizeOf(top)) \in Word
    BY <2>4, TruncIsWord DEF SizeOf
  <2> QED
    BY <2>2, <2>3, <2>5 DEF i
<1> HIDE DEF val, e
<1>14. PICK v : Computes(r, u, e, v, R, (n + 1) + 1, val)
  BY <1>7, <1>9, <1>11, <1>13
<1>15. Sim(d, v, XWritten(R, w.rd, val), (n + 1) + 1) /\ Goes(r, u, d, v)
  BY <1>3, <1>5, <1>14, XWrites
<1> DEFINE S == XWritten(R, w.rd, val)
<1>16. Stays(R, S)
  BY <1>2, <1>3, <1>13, XWrittenKept DEF Stays
<1> HIDE DEF S, d
<1>17. Goes(c, t, d, v)
  BY <1>7, <1>15, GoesOn
<1>18. Does(c, t, d, S, (n + 1) + 1)
  BY <1>15, <1>17 DEF Does, S
<1>19. Does(c, t, d, S, n + 9)
  BY <1>1, <1>18, DoesGrows
<1> QED
  BY <1>16, <1>19 DEF S, d, val, y

LEMMA A64MovzRuns ==
  ASSUME NEW c, NEW t, NEW R, NEW n \in Nat, n + 9 <= VRegs, Sim(c, t, R, n), Zeroed(R),
         NEW w \in Words["a64"]
  PROVE  LET S == XWritten(R, w.rd, Sized(w, w.imm * 2 ^ (w.hw * HalfBits)))
         IN  Does(c, t, LowerMovz(c, w), S, n + 9) /\ Stays(R, S)
<1> DEFINE y == w.imm * 2 ^ (w.hw * HalfBits)
           x == Trunc(y, WideBits)
           top == TopBit(w)
           e == emit_binary(c, "or", top, 0, x)
           d == LowerMovz(c, w)
           val == Sized(w, y)
           S == XWritten(R, w.rd, val)
<1>1. n \in 0..(VRegs - 1) /\ n + 1 \in Nat /\ n + 1 <= n + 9 /\ n + 9 \in Nat
  BY RegsLimited
<1>2. R \in Machine
  BY DEF Sim
<1>3. 0 \in Word /\ x \in Word
  <2>1. 0 \in Word
    BY SmallWords
  <2> QED
    BY <2>1, A64Literals
<1>4. y \in Int /\ w.rd \in Indices
  <2>1. w.imm \in Int /\ w.hw \in 0..3 /\ w.rd \in Indices
    <3>1. A64Fields(w)
      BY FieldAssumption
    <3> QED
      BY <3>1 DEF A64Fields
  <2> DEFINE f == 2 ^ (w.hw * HalfBits)
  <2>2. f \in Int
    <3>1. w.hw * HalfBits \in 0..(WideBits + 1)
      BY <2>1, WidthAssumption
    <3> QED
      BY <3>1, Power
  <2> HIDE DEF f
  <2>3. w.imm * f \in Int
    BY <2>1, <2>2
  <2> QED
    BY <2>1, <2>3 DEF f
<1>5. top \in BOOLEAN
  BY DEF TopBit
<1>6. d = WriteUnlessZero(e, w.rd)
  BY DEF LowerMovz
<1>7. val = Trunc(y, SizeOf(top))
  BY DEF Sized, SizeOf
<1> HIDE DEF y, top, val, d
<1>8. Emitted("or", top, 0, x) = val
  BY <1>4, <1>5, <1>7, OrIsSized
<1>9. val \in Word
  BY <1>4, <1>7, TruncIsWord DEF SizeOf
<1> HIDE DEF x
<1>10. Known(c, 0) /\ Val(t, 0) = 0
  BY <1>3, WordIsKnown
<1>11. Known(c, x) /\ Val(t, x) = x
  BY <1>3, WordIsKnown
<1>12. "or" \in arithNames
  BY DEF arithNames
<1>13. \E u : Computes(c, t, e, u, R, n + 1, Emitted("or", top, Val(t, 0), Val(t, x)))
  BY <1>1, <1>3, <1>5, <1>10, <1>11, <1>12, BinaryRuns
<1> HIDE DEF e
<1>14. PICK u : Computes(c, t, e, u, R, n + 1, val)
  BY <1>8, <1>10, <1>11, <1>13
<1>15. Sim(d, u, S, n + 1) /\ Goes(c, t, d, u)
  BY <1>4, <1>6, <1>14, XWrites
<1>16. Stays(R, S)
  BY <1>2, <1>4, <1>9, XWrittenKept DEF Stays
<1> HIDE DEF S
<1>17. Does(c, t, d, S, n + 9)
  BY <1>1, <1>15, DoesGrows DEF Does
<1> QED
  BY <1>16, <1>17 DEF S, d, val, y

(* How a branch leaves the registers.                                      *)
Leaves(R, S) ==
  /\ S \in Machine
  /\ S.status = R.status
  /\ Zeroed(S)

LEMMA LeavesByJump ==
  ASSUME NEW R \in Machine, Zeroed(R), NEW x \in Word
  PROVE  Leaves(R, JumpTo(R, x))
<1> DEFINE z == Gpr(ZeroReg)
<1>1. z \in GuestReg /\ z # pc /\ pc \in GuestReg
  BY RegIs, StartAssumption
<1>2. R.reg[z] = 0 /\ R.reg \in [GuestReg -> Word]
  BY MachineFields DEF Zeroed
<1> HIDE DEF z
<1>3. /\ JumpTo(R, x) \in Machine
      /\ JumpTo(R, x).reg = [R.reg EXCEPT ![pc] = x]
      /\ JumpTo(R, x).status = R.status
  BY <1>1, RegSet DEF JumpTo
<1>4. JumpTo(R, x).reg[z] = 0
  BY <1>1, <1>2, <1>3
<1> QED
  BY <1>3, <1>4 DEF Leaves, Zeroed, z

LEMMA A64BRuns ==
  ASSUME NEW c, NEW t, NEW R, NEW n \in Nat, n + 9 <= VRegs, Sim(c, t, R, n), Zeroed(R),
         NEW w \in Words["a64"], NEW p \in Word
  PROVE  LET L == IF TopBit(w) THEN XWritten(R, LinkReg, next_pc(p)) ELSE R
             S == JumpTo(L, A64Target(w, p))
         IN  Exits(c, t, LowerB(c, w, p), S) /\ Leaves(R, S)
<1> DEFINE next == next_pc(p)
           goal == A64Target(w, p)
           e == emit_binary(c, "add", TRUE, next, 0)
           r == Gpr(LinkReg)
           l == write_reg(e, r, Result(e))
           a == IF TopBit(w) THEN l ELSE c
           P == [R EXCEPT !.reg[r] = next]
           L == IF TopBit(w) THEN XWritten(R, LinkReg, next) ELSE R
<1>1. n \in 0..(VRegs - 1) /\ n + 1 \in Nat /\ n <= n + 1
  BY RegsLimited
<1>2. R \in Machine
  BY DEF Sim
<1>3. next \in Word /\ goal \in Word
  BY A64Literals
<1>4. LinkReg \in Indices /\ LinkReg # ZeroReg
  BY FieldAssumption
<1>5. r \in CachedReg \ {cr}
  BY <1>4, RegIs
<1>6. LowerB(c, w, p) = emit_exit_uncond(a, goal)
  BY DEF LowerB
<1>7. XWritten(R, LinkReg, next) = P
  BY <1>4 DEF XWritten
<1>8. /\ XWritten(R, LinkReg, next) \in Machine
      /\ XWritten(R, LinkReg, next).status = R.status
      /\ Zeroed(XWritten(R, LinkReg, next))
  BY <1>2, <1>3, <1>4, XWrittenKept
<1> HIDE DEF next, goal
<1>9. PICK u : Computes(c, t, e, u, R, n + 1, next)
  <2>1. \E u : Computes(c, t, e, u, R, n + 1, IF TRUE THEN next ELSE Low(next))
    BY <1>1, <1>3, AddZeroRuns
  <2> QED
    BY <2>1
<1> HIDE DEF e, r
<1>10. Sim(l, u, P, n + 1) /\ Goes(c, t, l, u)
  BY <1>5, <1>9, ResultWrites
<1>11. Sim(c, t, R, n + 1) /\ Goes(c, t, c, t)
  BY <1>1, SimGrows, SimGoes
<1> HIDE DEF l
<1>12. \E v : Sim(a, v, L, n + 1) /\ Goes(c, t, a, v)
  BY <1>7, <1>10, <1>11
<1>13. L \in Machine /\ L.status = R.status /\ Zeroed(L)
  BY <1>2, <1>8
<1> HIDE DEF a, L
<1>14. PICK v : Sim(a, v, L, n + 1) /\ Goes(c, t, a, v)
  BY <1>12
<1>15. Exits(a, v, emit_exit_uncond(a, goal), JumpTo(L, goal))
  BY <1>1, <1>3, <1>14, ExitUncondRuns
<1>16. Exits(c, t, LowerB(c, w, p), JumpTo(L, goal))
  BY <1>6, <1>14, <1>15, ExitsOn
<1>17. Leaves(L, JumpTo(L, goal))
  BY <1>3, <1>13, LeavesByJump
<1>18. Leaves(R, JumpTo(L, goal))
  BY <1>13, <1>17 DEF Leaves
<1> QED
  BY <1>16, <1>18 DEF L, goal, next

LEMMA A64BrRuns ==
  ASSUME NEW c, NEW t, NEW R, NEW n \in Nat, n + 9 <= VRegs, Sim(c, t, R, n), Zeroed(R),
         NEW w \in Words["a64"]
  PROVE  LET S == JumpTo(R, XOf(R, w.rn))
         IN  Exits(c, t, LowerBr(c, w), S) /\ Leaves(R, S)
<1> DEFINE g == Gpr(w.rn)
           r == read_reg(c, g)
           x == r.at[g]
           y == XOf(R, w.rn)
<1>1. n \in 0..(VRegs - 1) /\ n + 1 \in Nat
  BY RegsLimited
<1>2. R \in Machine
  BY DEF Sim
<1>3. w.rn \in Indices
  <2>1. A64Fields(w)
    BY FieldAssumption
  <2> QED
    BY <2>1 DEF A64Fields
<1>4. g \in CachedReg \ {cr} /\ g \in GuestReg
  BY <1>3, RegIs
<1>5. y = R.reg[g]
  BY DEF XOf, Zeroed
<1>6. R.reg[g] \in Word
  BY <1>2, <1>4, MachineFields
<1>7. LowerBr(c, w) = emit_exit_indirect(r, x)
  BY DEF LowerBr
<1> HIDE DEF g, r, y
<1>8. PICK u : RegKnown(c, t, r, u, R, n + 1, g)
  BY <1>1, <1>4, RegReadRuns DEF r
<1>9. Sim(r, u, R, n + 1) /\ Goes(c, t, r, u) /\ x \in VReg /\ Known(r, x) /\ Val(u, x) = y
  BY <1>5, <1>8 DEF RegKnown
<1> HIDE DEF x
<1>10. Exits(r, u, emit_exit_indirect(r, x), JumpTo(R, y))
  BY <1>1, <1>9, ExitIndirectRuns
<1>11. Exits(c, t, LowerBr(c, w), JumpTo(R, y))
  BY <1>7, <1>9, <1>10, ExitsOn
<1>12. Leaves(R, JumpTo(R, y))
  BY <1>2, <1>5, <1>6, LeavesByJump
<1> QED
  BY <1>11, <1>12 DEF y

LEMMA A64Runs ==
  ASSUME NEW c, NEW t, NEW before, NEW n \in Nat, n + 9 <= VRegs, Sim(c, t, before, n),
         Zeroed(before), NEW w \in Words["a64"]
  PROVE  LET R == Moved(before)
             d == A64Lower(c, w, before.reg[pc])
             S == A64Effect(w, before)
         IN  /\ A64Mnemonic(w) \notin {"b", "br"} => Does(c, t, d, S, n + 9) /\ Stays(R, S)
             /\ A64Mnemonic(w) \in {"b", "br"} => Exits(c, t, d, S) /\ Leaves(R, S)
<1> DEFINE name == A64Mnemonic(w)
           p == before.reg[pc]
           R == Moved(before)
           d == A64Lower(c, w, p)
           S == A64Effect(w, before)
<1>1. before \in Machine /\ p \in Word
  <2>1. before \in Machine
    BY DEF Sim
  <2> QED
    BY <2>1, RegIs, MachineFields
<1>2. Sim(c, t, R, n) /\ R \in Machine
  BY <1>1, SimMoved, MovedKept
<1>3. Zeroed(R)
  BY <1>1, MovedKept, RegIs, StartAssumption DEF Zeroed
<1>4. name \in {"add", "movz", "b", "br", "nop", "unknown"}
  BY DEF A64Mnemonic
<1>5. CASE name = "add"
  <2>1. d = LowerAdd(c, w)
    BY <1>5 DEF A64Lower
  <2>2. S = XWritten(R, w.rd, Sized(w, XOf(R, w.rn) + w.imm))
    BY <1>5 DEF A64Effect, Moved
  <2> HIDE DEF d, S, R
  <2>3. Does(c, t, d, S, n + 9) /\ Stays(R, S)
    BY <1>2, <1>3, <2>1, <2>2, A64AddRuns
  <2> QED
    BY <1>5, <2>3 DEF d, S, R
<1>6. CASE name = "movz"
  <2>1. d = LowerMovz(c, w)
    BY <1>6 DEF A64Lower
  <2>2. S = XWritten(R, w.rd, Sized(w, w.imm * 2 ^ (w.hw * HalfBits)))
    BY <1>6 DEF A64Effect, Moved
  <2> HIDE DEF d, S, R
  <2>3. Does(c, t, d, S, n + 9) /\ Stays(R, S)
    BY <1>2, <1>3, <2>1, <2>2, A64MovzRuns
  <2> QED
    BY <1>6, <2>3 DEF d, S, R
<1>7. CASE name = "b"
  <2> DEFINE L == IF TopBit(w) THEN XWritten(R, LinkReg, next_pc(p)) ELSE R
  <2>1. d = LowerB(c, w, p)
    BY <1>7 DEF A64Lower
  <2>2. S = JumpTo(L, A64Target(w, p))
    BY <1>7 DEF A64Effect, Moved, JumpTo
  <2> HIDE DEF d, S, R
  <2>3. Exits(c, t, d, S) /\ Leaves(R, S)
    BY <1>1, <1>2, <1>3, <2>1, <2>2, A64BRuns
  <2> QED
    BY <1>7, <2>3 DEF d, S, R
<1>8. CASE name = "br"
  <2>1. d = LowerBr(c, w)
    BY <1>8 DEF A64Lower
  <2>2. S = JumpTo(R, XOf(R, w.rn))
    BY <1>8 DEF A64Effect, Moved, JumpTo
  <2> HIDE DEF d, S, R
  <2>3. Exits(c, t, d, S) /\ Leaves(R, S)
    BY <1>2, <1>3, <2>1, <2>2, A64BrRuns
  <2> QED
    BY <1>8, <2>3 DEF d, S, R
<1>9. CASE name \in {"nop", "unknown"}
  <2>1. d = c \/ d = emit_unimplemented(c)
    BY <1>9 DEF A64Lower
  <2>2. S = R
    BY <1>9 DEF A64Effect, Moved
  <2> HIDE DEF d, S, R
  <2>3. Does(c, t, c, R, n)
    BY <1>2, SimGoes DEF Does
  <2>4. Does(c, t, emit_unimplemented(c), R, n)
    BY <1>2, UnimplementedRuns
  <2>5. Does(c, t, d, S, n + 9)
    <3>1. Does(c, t, d, S, n)
      BY <2>1, <2>2, <2>3, <2>4
    <3> QED
      BY <3>1, DoesGrows
  <2>6. Stays(R, S)
    BY <1>3, <2>2 DEF Stays
  <2> QED
    BY <1>9, <2>5, <2>6 DEF d, S, R
<1> QED
  BY <1>4, <1>5, <1>6, <1>7, <1>8, <1>9

-----------------------------------------------------------------------------
(* The loop of translate_block_at, with its machine and its guest.         *)

(* What each frontend needs of the registers.                              *)
Fits(f, R) == f # "ppc" => Zeroed(R)

(* The machine u that ran the ops of d knows the guest S: each register is *)
(* in its vreg or else in the CPU state, unless both were stopped by the   *)
(* same access.                                                            *)
Tracks(f, d, u, S) ==
  /\ u \in Machine /\ S \in Machine
  /\ u.mem = S.mem
  /\ u.status = "fault" <=> S.status = "fault"
  /\ S.status \in {"run", "fault"}
  /\ AllOps(d.ops)
  /\ d.at[cr] = NoReg
  /\ S.status = "run" => Fits(f, S) /\ \A r \in CachedReg : Shown(d, u, r) = S.reg[r]

(* While the machine runs, the guest is at the next word and the block has *)
(* no exit; once it has left, everything is in the CPU state.              *)
TrackingInv ==
  LET n == InsnRegs * (MaxInsns - left)
  IN  /\ Tracks(frontend, b, m, ref)
      /\ m.status = "run" => ref.reg[pc] = cursor /\ Open(b, n)
      /\ m.status = "exit" => m.reg = ref.reg /\ Ended(b, n)
      /\ phase = "insn" => m.status # "exit"
      /\ phase = "done" => m.status # "run"

(* What the ops of one more word come to.                                  *)
Outcome(c, t, d, S, f, p, leaves) ==
  \E u : /\ Leads(c, t, d, u)
         /\ Tracks(f, d, u, S)
         /\ u.status = "run" => ~leaves /\ S.reg[pc] = p
         /\ u.status = "exit" => leaves /\ u.reg = S.reg

LEMMA DoesOutcome ==
  ASSUME NEW c, NEW t, NEW d, NEW S, NEW n, Does(c, t, d, S, n),
         NEW f, Fits(f, S), S.status = "run"
  PROVE  Outcome(c, t, d, S, f, S.reg[pc], FALSE)
<1>1. PICK u : Sim(d, u, S, n) /\ Goes(c, t, d, u)
  BY DEF Does
<1>2. Leads(c, t, d, u) /\ u.status = "run"
  BY <1>1 DEF Goes, Sim, Ready
<1>3. Tracks(f, d, u, S)
  BY <1>1, <1>2 DEF Tracks, Sim, Ready
<1> QED
  BY <1>2, <1>3 DEF Outcome

LEMMA FaultsOutcome ==
  ASSUME NEW c, NEW t, NEW d, NEW R \in Machine, FaultsAt(c, t, d, R), NEW f, NEW p, NEW leaves
  PROVE  Outcome(c, t, d, Fault(R), f, p, leaves)
<1>1. PICK u : /\ Leads(c, t, d, Fault(u))
               /\ u \in Machine
               /\ u.mem = R.mem
               /\ AllOps(d.ops)
               /\ d.at[cr] = NoReg
  BY DEF FaultsAt
<1>2. /\ Fault(u) \in Machine /\ Fault(u).status = "fault" /\ Fault(u).mem = u.mem
      /\ Fault(R) \in Machine /\ Fault(R).status = "fault" /\ Fault(R).mem = R.mem
  BY <1>1 DEF Machine, Fault
<1>3. Tracks(f, d, Fault(u), Fault(R))
  BY <1>1, <1>2 DEF Tracks
<1> QED
  BY <1>1, <1>2, <1>3 DEF Outcome

LEMMA ExitsOutcome ==
  ASSUME NEW c, NEW t, NEW d, NEW S \in Machine, Exits(c, t, d, S),
         NEW f, Fits(f, S), S.status = "run", NEW p
  PROVE  Outcome(c, t, d, S, f, p, TRUE)
<1>1. PICK u : /\ Leads(c, t, d, u)
               /\ u \in Machine
               /\ u.status = "exit"
               /\ u.mem = S.mem
               /\ u.reg = S.reg
               /\ \A r \in CachedReg : Shown(d, u, r) = S.reg[r]
               /\ AllOps(d.ops)
               /\ d.at[cr] = NoReg
  BY DEF Exits
<1>2. Tracks(f, d, u, S)
  BY <1>1 DEF Tracks
<1> QED
  BY <1>1, <1>2 DEF Outcome

(* The frontends.                                                          *)
LowerFor(f, c, w, p) == IF f = "ppc" THEN PpcLower(c, w, p) ELSE A64Lower(c, w, p)

EffectFor(f, w, R) == IF f = "ppc" THEN PpcEffect(w, R) ELSE A64Effect(w, R)

LeavesFor(f, w) ==
  IF f = "ppc" THEN Mnemonic(w) \in branchNames ELSE A64Mnemonic(w) \in {"b", "br"}

LEMMA InsnRuns ==
  ASSUME NEW c, NEW t, NEW R, NEW n \in Nat, n + 9 <= VRegs, Sim(c, t, R, n),
         R.status = "run", NEW f \in frontends, Fits(f, R), NEW w \in Words[f]
  PROVE  LET p == R.reg[pc]
         IN  Outcome(c, t, LowerFor(f, c, w, p), EffectFor(f, w, R), f, next_pc(p),
                     LeavesFor(f, w))
<1> DEFINE p == R.reg[pc]
           d == LowerFor(f, c, w, p)
           S == EffectFor(f, w, R)
           P == Moved(R)
           leaves == LeavesFor(f, w)
<1>1. R \in Machine
  BY DEF Sim
<1>2. P \in Machine /\ P.status = "run" /\ P.reg[pc] = next_pc(p)
  BY <1>1, MovedKept
<1>3. CASE f = "ppc"
  <2>1. d = PpcLower(c, w, p) /\ S = PpcEffect(w, R) /\ w \in Words["ppc"]
    BY <1>3 DEF LowerFor, EffectFor
  <2>2. leaves = (Mnemonic(w) \in branchNames) /\ leaves \in BOOLEAN
    BY <1>3 DEF LeavesFor
  <2>3. Fits(f, S)
    BY <1>3 DEF Fits
  <2>4. Lowered(c, t, d, P, S, n + 9, leaves)
    BY <2>1, <2>2, PpcRuns
  <2> HIDE DEF d, S, P, leaves
  <2>5. CASE leaves
    <3>1. Exits(c, t, d, S) /\ S \in Machine /\ S.status = "run"
      BY <1>2, <2>4, <2>5 DEF Lowered, JumpKeeps
    <3>2. Outcome(c, t, d, S, f, next_pc(p), TRUE)
      BY <2>3, <3>1, ExitsOutcome
    <3> QED
      BY <2>2, <2>5, <3>2 DEF d, S, leaves
  <2>6. CASE ~leaves
    <3>1. Follows(c, t, d, P, S, n + 9)
      BY <2>4, <2>6 DEF Lowered
    <3>2. CASE Carries(c, t, d, P, S, n + 9)
      <4>1. Does(c, t, d, S, n + 9) /\ S.status = "run" /\ S.reg[pc] = next_pc(p)
        BY <1>2, <3>2 DEF Carries, Kept
      <4>2. Outcome(c, t, d, S, f, next_pc(p), FALSE)
        BY <2>3, <4>1, DoesOutcome
      <4> QED
        BY <2>2, <2>6, <4>2 DEF d, S, leaves
    <3>3. CASE FaultsAt(c, t, d, P) /\ S = Fault(P)
      <4>1. Outcome(c, t, d, S, f, next_pc(p), leaves)
        BY <1>2, <3>3, FaultsOutcome
      <4> QED
        BY <4>1 DEF d, S, leaves
    <3> QED
      BY <3>1, <3>2, <3>3 DEF Follows
  <2> QED
    BY <2>5, <2>6
<1>4. CASE f # "ppc"
  <2>1. d = A64Lower(c, w, p) /\ S = A64Effect(w, R) /\ w \in Words["a64"] /\ Zeroed(R)
    BY <1>4 DEF LowerFor, EffectFor, Fits, frontends
  <2>2. leaves = (A64Mnemonic(w) \in {"b", "br"}) /\ leaves \in BOOLEAN
    BY <1>4 DEF LeavesFor
  <2>3. /\ ~leaves => Does(c, t, d, S, n + 9) /\ Stays(P, S)
        /\ leaves => Exits(c, t, d, S) /\ Leaves(P, S)
    BY <2>1, <2>2, A64Runs
  <2> HIDE DEF d, S, P, leaves
  <2>4. CASE leaves
    <3>1. Exits(c, t, d, S) /\ S \in Machine /\ S.status = "run" /\ Zeroed(S)
      BY <1>2, <2>3, <2>4 DEF Leaves
    <3>2. Fits(f, S)
      BY <1>4, <3>1 DEF Fits
    <3>3. Outcome(c, t, d, S, f, next_pc(p), TRUE)
      BY <3>1, <3>2, ExitsOutcome
    <3> QED
      BY <2>2, <2>4, <3>3 DEF d, S, leaves
  <2>5. CASE ~leaves
    <3>1. Does(c, t, d, S, n + 9) /\ S.status = "run" /\ S.reg[pc] = next_pc(p) /\ Zeroed(S)
      BY <1>2, <2>3, <2>5 DEF Stays
    <3>2. Fits(f, S)
      BY <1>4, <3>1 DEF Fits
    <3>3. Outcome(c, t, d, S, f, next_pc(p), FALSE)
      BY <3>1, <3>2, DoesOutcome
    <3> QED
      BY <2>2, <2>5, <3>3 DEF d, S, leaves
  <2> QED
    BY <2>4, <2>5
<1> QED
  BY <1>3, <1>4

(* A guest at p with nothing in its registers.                             *)
Blank(p) ==
  [reg |-> [r \in GuestReg |-> IF r = pc THEN p ELSE 0],
   mem |-> [a \in 0..(MemSize - 1) |-> 0], zero |-> 0, negative |-> 0,
   env |-> [v \in VReg |-> 0], status |-> "run"]

LEMMA BlankIs ==
  ASSUME NEW p \in Word
  PROVE  /\ Blank(p) \in Machine
         /\ Blank(p).status = "run"
         /\ Blank(p).reg[pc] = p
         /\ \A f \in frontends : Fits(f, Blank(p))
         /\ \A c : \A n : /\ Open(c, n)
                          /\ AllOps(c.ops)
                          /\ c.at[cr] = NoReg
                          => Sim(c, Blank(p), Blank(p), n)
<1> DEFINE Z == Blank(p)
<1>1. 0 \in Word /\ 0 \in Byte
  <2>1. ByteBits \in 1..NarrowBits
    BY SizesFit DEF Sizes
  <2>2. ByteBits \in 0..(WideBits + 1)
    BY <2>1, Widths, BitsAssumption
  <2>3. 2 ^ ByteBits \in Nat \ {0}
    BY <2>2, Power
  <2>4. 0 \in Byte
    BY <2>3 DEF Byte
  <2> QED
    BY <2>4, SmallWords
<1>2. /\ Z \in Machine
      /\ Z.status = "run"
      /\ Z.reg[pc] = p
      /\ \A r \in CachedReg : Z.reg[r] = 0
      /\ \A v \in VReg : Z.env[v] = 0
  BY <1>1, RegIs DEF Blank, Machine
<1> HIDE DEF Z
<1>3. Zeroed(Z)
  BY <1>2, RegIs, StartAssumption DEF Zeroed
<1>4. ASSUME NEW c, NEW n, Open(c, n), AllOps(c.ops), c.at[cr] = NoReg
      PROVE  Sim(c, Z, Z, n)
  <2>1. c.at \in [CachedReg -> VReg \cup {NoReg}]
    BY <1>4 DEF Open, Built
  <2>2. \A r \in CachedReg : Shown(c, Z, r) = Z.reg[r]
    BY <1>2, <2>1 DEF Shown
  <2> QED
    BY <1>2, <1>4, <2>2 DEF Sim, Ready
<1> QED
  BY <1>2, <1>3, <1>4 DEF Fits, Z

(* A machine that was stopped stays as it is.                              *)
LEMMA StoppedLeads ==
  ASSUME NEW c, NEW d, Len(c.ops) \in Nat, Len(d.ops) \in Nat, Len(c.ops) <= Len(d.ops),
         NEW t, t.status # "run"
  PROVE  RunFrom(d.ops, Len(c.ops) + 1, t) = t
<1>1. Len(c.ops) + 1 \in 1..(Len(d.ops) + 1)
  OBVIOUS
<1> QED
  BY <1>1, StoppedStays

(* What the frontends make of an open builder.                             *)
LEMMA LoweredFor ==
  ASSUME NEW f \in frontends, NEW c, NEW n \in Nat, n + InsnRegs <= VRegs, Open(c, n),
         NEW w \in Words[f], NEW p \in Word
  PROVE  LET d == LowerFor(f, c, w, p)
         IN  /\ ~LeavesFor(f, w) => Open(d, n + InsnRegs)
             /\ LeavesFor(f, w) => Ended(d, n + InsnRegs)
<1>1. CASE f = "ppc"
  BY <1>1, PpcLowered DEF LowerFor, LeavesFor
<1>2. CASE f # "ppc"
  <2>1. w \in Words["a64"]
    BY <1>2 DEF frontends
  <2>2. /\ A64Mnemonic(w) \notin branchNames \cup {"br"} => Open(A64Lower(c, w, p), n + InsnRegs)
        /\ A64Mnemonic(w) \in {"b", "br"} => Ended(A64Lower(c, w, p), n + InsnRegs)
        /\ A64Mnemonic(w) \notin {"bclr", "bc"}
    BY <2>1, A64Lowered
  <2> QED
    BY <1>2, <2>2 DEF LowerFor, LeavesFor, branchNames
<1> QED
  BY <1>1, <1>2

(* The ops grow, whatever the machine that runs them.                      *)
Grows(c, d) ==
  /\ Len(c.ops) \in Nat
  /\ Len(d.ops) \in Nat
  /\ Len(c.ops) <= Len(d.ops)
  /\ AllOps(d.ops)
  /\ d.at[cr] = NoReg

LEMMA LoweringGrows ==
  ASSUME NEW f \in frontends, NEW c, NEW n \in Nat, n + 9 <= VRegs, Open(c, n),
         AllOps(c.ops), c.at[cr] = NoReg, NEW w \in Words[f], NEW p \in Word
  PROVE  Grows(c, LowerFor(f, c, w, p))
<1> DEFINE Z == Blank(p)
           d == LowerFor(f, c, w, p)
           S == EffectFor(f, w, Z)
<1>1. Sim(c, Z, Z, n) /\ Z.status = "run" /\ Fits(f, Z) /\ Z.reg[pc] = p
  BY BlankIs
<1> HIDE DEF Z
<1>2. Outcome(c, Z, d, S, f, next_pc(p), LeavesFor(f, w))
  BY <1>1, InsnRuns
<1> HIDE DEF d, S
<1> QED
  BY <1>2 DEF Outcome, Leads, Tracks, Grows, d

LEMMA ExitGrows ==
  ASSUME NEW c, NEW n \in Nat, Open(c, n), AllOps(c.ops), c.at[cr] = NoReg, NEW x \in Word
  PROVE  Grows(c, ExitTo(c, x))
<1> DEFINE Z == Blank(x)
<1>1. Sim(c, Z, Z, n)
  BY BlankIs
<1> HIDE DEF Z
<1>2. Exits(c, Z, ExitTo(c, x), JumpTo(Z, x))
  BY <1>1, ExitToRuns
<1> QED
  BY <1>2 DEF Exits, Leads, Grows

LEMMA TrackingInit ==
  ASSUME Init
  PROVE  TrackingInv
<1>1. /\ MaxInsns \in Nat \ {0} /\ m \in Starts[frontend]
      /\ m \in Machine /\ m.status = "run" /\ ref = m
      /\ frontend \in frontends /\ b = new_block /\ cursor = m.reg[pc]
      /\ left = MaxInsns /\ phase = "insn"
  BY TranslationAssumption DEF Init
<1>2. Fits(frontend, m)
  BY <1>1, StartAssumption, RegIs DEF Fits, Zeroed, frontends
<1>3. /\ b.ops = <<>>
      /\ \A r \in CachedReg : b.at[r] = NoReg
      /\ b.at[cr] = NoReg
  BY <1>1, RegIs DEF new_block
<1>4. \A r \in CachedReg : Shown(b, m, r) = ref.reg[r]
  BY <1>1, <1>3 DEF Shown
<1>5. AllOps(b.ops)
  BY <1>3 DEF AllOps
<1>6. Tracks(frontend, b, m, ref)
  BY <1>1, <1>2, <1>3, <1>4, <1>5 DEF Tracks
<1>7. InsnRegs * (MaxInsns - left) = 0
  BY <1>1 DEF InsnRegs
<1>8. Open(b, 0)
  BY <1>1, NewBlockIsOpen
<1> QED
  BY <1>1, <1>6, <1>7, <1>8 DEF TrackingInv

(* The machine that knows the guest, in the form of the lemmas above.      *)
LEMMA TracksIsSim ==
  ASSUME NEW f, NEW c, NEW t, NEW R, NEW n, Tracks(f, c, t, R), t.status = "run", Open(c, n)
  PROVE  Sim(c, t, R, n) /\ R.status = "run" /\ Fits(f, R)
BY DEF Tracks, Sim, Ready

LEMMA InsnTracked ==
  ASSUME BuilderInv, TrackingInv, TranslateInsn
  PROVE  TrackingInv'
<1> DEFINE n == InsnRegs * (MaxInsns - left)
<1>1. PICK w \in Words[frontend] :
        /\ b' = lower_to_ir(w)
        /\ ref' = IF ref.status = "run" THEN Effect(w) ELSE ref
        /\ phase' = IF is_block_terminator(w) \/ left = 1 THEN "end" ELSE "insn"
  BY DEF TranslateInsn
<1>2. /\ m' = RunFrom(b'.ops, Len(b.ops) + 1, m)
      /\ cursor' = next_pc(cursor) /\ left' = left - 1 /\ frontend' = frontend
      /\ phase = "insn"
  BY DEF TranslateInsn, Appended
<1>3. /\ left \in 1..MaxInsns /\ frontend \in frontends /\ cursor \in Word
      /\ Open(b, n)
  BY <1>2 DEF BuilderInv
<1>4. /\ n \in Nat /\ n + 9 <= VRegs /\ n + InsnRegs = n + 9
      /\ InsnRegs * (MaxInsns - left') = n + 9
  BY <1>2, <1>3, TranslationAssumption DEF InsnRegs, VRegs
<1>5. /\ Tracks(frontend, b, m, ref)
      /\ m.status = "run" => ref.reg[pc] = cursor
      /\ m.status \in {"run", "fault"}
  <2>1. Tracks(frontend, b, m, ref) /\ m.status # "exit"
        /\ (m.status = "run" => ref.reg[pc] = cursor)
    BY <1>2 DEF TrackingInv
  <2>2. m.status \in {"run", "exit", "fault"}
    BY <2>1 DEF Tracks, Machine
  <2> QED
    BY <2>1, <2>2
<1> HIDE DEF n
<1> DEFINE leaves == LeavesFor(frontend, w)
           d == LowerFor(frontend, b, w, cursor)
<1>6. b' = d
  BY <1>1 DEF lower_to_ir, LowerFor
<1>7. /\ ~leaves => Open(d, n + 9)
      /\ leaves => Ended(d, n + 9)
  <2>1. n + InsnRegs <= VRegs
    BY <1>4
  <2>2. /\ ~leaves => Open(d, n + InsnRegs)
        /\ leaves => Ended(d, n + InsnRegs)
    BY <1>3, <1>4, <2>1, LoweredFor
  <2> QED
    BY <1>4, <2>2
<1>8. leaves => is_block_terminator(w)
  BY DEF LeavesFor, is_block_terminator, PpcTerminator, A64Terminator, branchNames
<1>9. phase' = "insn" => ~leaves
  BY <1>1, <1>8
<1>10. phase' # "done"
  BY <1>1
<1> HIDE DEF d, leaves
<1>11. CASE m.status = "run"
  <2>1. Sim(b, m, ref, n) /\ ref.status = "run" /\ Fits(frontend, ref)
    BY <1>3, <1>5, <1>11, TracksIsSim
  <2>2. ref.reg[pc] = cursor
    BY <1>5, <1>11
  <2>3. ref' = EffectFor(frontend, w, ref)
    BY <1>1, <2>1 DEF Effect, EffectFor
  <2>4. Outcome(b, m, d, ref', frontend, next_pc(cursor), leaves)
    BY <1>3, <1>4, <2>1, <2>2, <2>3, InsnRuns DEF d, leaves
  <2>5. PICK u : /\ Leads(b, m, d, u)
                 /\ Tracks(frontend, d, u, ref')
                 /\ u.status = "run" => ~leaves /\ ref'.reg[pc] = next_pc(cursor)
                 /\ u.status = "exit" => leaves /\ u.reg = ref'.reg
    BY <2>4 DEF Outcome
  <2>6. m' = u
    BY <1>2, <1>6, <2>5, LeadsFromEnd
  <2>7. Tracks(frontend', b', m', ref')
    BY <1>2, <1>6, <2>5, <2>6
  <2>8. m'.status = "run" => ref'.reg[pc] = cursor' /\ Open(b', n + 9)
    BY <1>2, <1>6, <1>7, <2>5, <2>6
  <2>9. m'.status = "exit" => m'.reg = ref'.reg /\ Ended(b', n + 9)
    BY <1>6, <1>7, <2>5, <2>6
  <2>10. phase' = "insn" => m'.status # "exit"
    BY <1>9, <2>5, <2>6
  <2> QED
    BY <1>4, <1>10, <2>7, <2>8, <2>9, <2>10 DEF TrackingInv
<1>12. CASE m.status = "fault"
  <2>1. ref.status = "fault" /\ AllOps(b.ops) /\ b.at[cr] = NoReg
    BY <1>5, <1>12 DEF Tracks
  <2>2. Grows(b, d)
    BY <1>3, <1>4, <2>1, LoweringGrows DEF d
  <2>3. m' = m
    BY <1>2, <1>6, <1>12, <2>2, StoppedLeads DEF Grows
  <2>4. ref' = ref
    BY <1>1, <2>1
  <2>5. Tracks(frontend', b', m', ref')
    BY <1>2, <1>5, <1>6, <2>1, <2>2, <2>3, <2>4 DEF Tracks, Grows
  <2> QED
    BY <1>10, <1>12, <2>3, <2>5 DEF TrackingInv
<1> QED
  BY <1>5, <1>11, <1>12

LEMMA EndTracked ==
  ASSUME BuilderInv, BuilderInv', TrackingInv, EndBlock
  PROVE  TrackingInv'
<1> DEFINE n == InsnRegs * (MaxInsns - left)
<1>1. /\ phase = "end" /\ phase' = "done"
      /\ b' = IF b.ops # <<>> /\ is_control_flow(Last(b.ops)) THEN b ELSE ExitTo(b, cursor)
      /\ m' = RunFrom(b'.ops, Len(b.ops) + 1, m)
      /\ frontend' = frontend /\ cursor' = cursor /\ left' = left /\ ref' = ref
  BY DEF EndBlock, Appended
<1>2. /\ left \in 0..MaxInsns /\ cursor \in Word
      /\ Open(b, n) \/ Ended(b, n)
      /\ Ended(b', n)
  BY <1>1 DEF BuilderInv
<1>3. n \in Nat /\ InsnRegs * (MaxInsns - left') = n
  BY <1>1, <1>2, TranslationAssumption DEF InsnRegs
<1>4. /\ Tracks(frontend, b, m, ref)
      /\ m.status = "run" => ref.reg[pc] = cursor /\ Open(b, n)
      /\ m.status = "exit" => m.reg = ref.reg /\ Ended(b, n)
  BY DEF TrackingInv
<1>5. m.status \in {"run", "exit", "fault"}
  BY <1>4 DEF Tracks, Machine
<1> HIDE DEF n
<1>6. ASSUME Ended(b, n)
      PROVE  b' = b
  BY <1>1, <1>6 DEF Ended
<1>7. ASSUME Open(b, n)
      PROVE  b' = ExitTo(b, cursor)
  <2> SUFFICES ASSUME b.ops # <<>>
               PROVE  ~is_control_flow(Last(b.ops))
    BY <1>1
  <2>1. Len(b.ops) \in 1..Len(b.ops)
    BY <1>7, EmptySeq DEF Open, Built, IsSeq
  <2> QED
    BY <1>7, <2>1 DEF Open, Last
<1>8. CASE m.status = "run"
  <2>1. Sim(b, m, ref, n) /\ b' = ExitTo(b, cursor) /\ ref.reg[pc] = cursor /\ ref.status = "run"
        /\ Fits(frontend, ref)
    BY <1>4, <1>7, <1>8, TracksIsSim
  <2>2. JumpTo(ref, cursor) = ref
    BY <2>1, RegSame, RegIs DEF JumpTo, Sim
  <2>3. Exits(b, m, b', ref)
    BY <1>2, <1>3, <2>1, <2>2, ExitToRuns
  <2>4. PICK u : /\ Leads(b, m, b', u)
                 /\ u \in Machine
                 /\ u.status = "exit"
                 /\ u.mem = ref.mem
                 /\ u.reg = ref.reg
                 /\ \A r \in CachedReg : Shown(b', u, r) = ref.reg[r]
                 /\ AllOps(b'.ops)
                 /\ b'.at[cr] = NoReg
    BY <2>3 DEF Exits
  <2>5. m' = u
    BY <1>1, <2>4, LeadsFromEnd
  <2>6. Tracks(frontend', b', m', ref')
    BY <1>1, <2>1, <2>4, <2>5 DEF Tracks, Sim
  <2> QED
    BY <1>1, <1>2, <1>3, <2>4, <2>5, <2>6 DEF TrackingInv
<1>9. CASE m.status # "run"
  <2>1. AllOps(b.ops) /\ b.at[cr] = NoReg
    BY <1>4 DEF Tracks
  <2>2. Grows(b, b')
    <3>1. CASE Open(b, n)
      BY <1>2, <1>3, <1>7, <2>1, <3>1, ExitGrows
    <3>2. CASE Ended(b, n)
      <4>1. Len(b.ops) \in Nat
        BY <3>2 DEF Ended, Built, IsSeq
      <4> QED
        BY <1>6, <2>1, <3>2, <4>1 DEF Grows
    <3> QED
      BY <1>2, <3>1, <3>2
  <2>3. m' = m
    BY <1>1, <1>9, <2>2, StoppedLeads DEF Grows
  <2>4. m.status = "exit" => b' = b
    BY <1>4, <1>6
  <2>5. Tracks(frontend', b', m', ref')
    BY <1>1, <1>4, <1>5, <1>9, <2>2, <2>3, <2>4 DEF Tracks, Grows
  <2> QED
    BY <1>1, <1>2, <1>3, <1>4, <1>9, <2>3, <2>5 DEF TrackingInv
<1> QED
  BY <1>8, <1>9

LEMMA TrackingStep ==
  ASSUME BuilderInv, BuilderInv', TrackingInv, [Next]_vars
  PROVE  TrackingInv'
<1>1. CASE Done \/ UNCHANGED vars
  BY <1>1 DEF Done, vars, TrackingInv
<1> QED
  BY <1>1, InsnTracked, EndTracked DEF Next

LEMMA TrackingHolds == Spec => [](BuilderInv /\ TrackingInv)
<1>1. Init => BuilderInv /\ TrackingInv
  BY BuilderInit, TrackingInit
<1>2. BuilderInv /\ TrackingInv /\ [Next]_vars => (BuilderInv /\ TrackingInv)'
  BY BuilderStep, TrackingStep
<1> QED
  BY <1>1, <1>2, PTL DEF Spec

(* After every word, the machine that ran the ops and the guest that       *)
(* executed the words have the same memory and, register by register, the  *)
(* same values: those that the builder holds in vregs included.            *)
THEOREM LoweringTracksRegisters == Spec => []RegistersTracked
<1>1. TrackingInv => RegistersTracked
  BY DEF TrackingInv, Tracks, RegistersTracked, View, Shown
<1> QED
  BY <1>1, TrackingHolds, PTL

(* A translated block does to registers, memory and pc what its words do   *)
(* one at a time, or stops at the access at which they do.                 *)
THEOREM BlockDoesItsWords == Spec => []BlockIsSequence
<1>1. BuilderInv /\ TrackingInv => BlockIsSequence
  <2> SUFFICES ASSUME BuilderInv, TrackingInv, phase = "done"
               PROVE  GuestState(m) = GuestState(ref)
    BY DEF BlockIsSequence
  <2>1. /\ m \in Machine
        /\ m.mem = ref.mem
        /\ m.status = "fault" <=> ref.status = "fault"
        /\ m.status = "exit" => m.reg = ref.reg
        /\ m.status # "run"
    BY DEF TrackingInv, Tracks
  <2>2. m.status \in {"exit", "fault"}
    BY <2>1 DEF Machine
  <2> QED
    BY <2>1, <2>2 DEF GuestState
<1> QED
  BY <1>1, TrackingHolds, PTL

(* The builder, the machine and the guest keep their types through the     *)
(* lowering of every word of both frontends.                               *)
THEOREM TranslationTyped == Spec => []TranslationTypeOK
<1>1. BuilderInv /\ TrackingInv => TranslationTypeOK
  <2> SUFFICES ASSUME BuilderInv, TrackingInv
               PROVE  TranslationTypeOK
    OBVIOUS
  <2>1. \E n : Built(b, n)
    BY DEF BuilderInv, Open, Ended
  <2>2. IsSeq(b.ops) /\ b.at \in [CachedReg -> VReg \cup {NoReg}]
    BY <2>1 DEF Built
  <2>3. b.ops \in Seq(Op)
    BY <2>2 DEF TrackingInv, Tracks, AllOps, IsSeq
  <2> QED
    BY <2>2, <2>3 DEF TranslationTypeOK, BuilderInv, TrackingInv, Tracks
<1> QED
  BY <1>1, TrackingHolds, PTL
=============================================================================
