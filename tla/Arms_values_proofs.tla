------------------------- MODULE Arms_values_proofs -------------------------
(***************************************************************************)
(* Every instruction reads its operands from registers that hold them:     *)
(* proved for every instance of Arms in which no label is placed while a   *)
(* pending temporary is on the stack.  The argument follows each temporary *)
(* through the helpers, in the descriptor and in the mirror of the stack.  *)
(***************************************************************************)
EXTENDS Arms_proofs

\* The registers and the mirrored words that are t's.
Covered(c, t) == Holding(c, t) # {} \/ Mirrors(c, t) # {}
Absent(c, t)  == Holding(c, t) = {} /\ Mirrors(c, t) = {}

\* What the descriptor says of t is true.
RegRight(c, t) == \A r \in Regs : c.desc[r] = t => c.reg[r] = t

\* ... and the copy that fillReg would read has t's value,
TopRight(c, t) ==
    /\ RegRight(c, t)
    /\ Holding(c, t) = {} => \A i \in Final(Mirrors(c, t)) : Beneath(c, i) = t

\* or every copy that the mirror lists.
AllRight(c, t) ==
    /\ RegRight(c, t)
    /\ \A i \in Mirrors(c, t) : Beneath(c, i) = t

\* A helper that is not about t: it does not map t anew, it loses no copy of t, and what
\* was true of t's copies stays true.
Keeps(c, d, t) ==
    /\ \A r \in Regs : d.desc[r] = t => c.desc[r] = t
    /\ Absent(c, t) => Absent(d, t)
    /\ Covered(c, t) => Covered(d, t)
    /\ TopRight(c, t) => TopRight(d, t)
    /\ AllRight(c, t) => AllRight(d, t)

LEMMA KeepsSelf == \A c, t : Keeps(c, c, t)
  BY DEF Keeps

LEMMA KeepsThrough ==
    ASSUME NEW c, NEW d, NEW e, NEW t, Keeps(c, d, t), Keeps(d, e, t)
    PROVE  Keeps(c, e, t)
  BY DEF Keeps

-----------------------------------------------------------------------------
(* Positions on the stack *)

LEMMA FinalIs ==
    ASSUME NEW n \in Nat, NEW S \in SUBSET (1 .. n), S # {}
    PROVE  \E m \in S : Final(S) = {m}
<1> DEFINE T == {m .. n : m \in S}
<1>1. T \subseteq FiniteSubsetsOf(Nat) /\ T # {}
  <2>1. ASSUME NEW m \in S PROVE m .. n \in FiniteSubsetsOf(Nat)
    <3>1. m .. n \in SUBSET Nat
      OBVIOUS
    <3>2. IsFiniteSet(m .. n)
      BY FS_Interval
    <3> QED
      BY <3>1, <3>2 DEF FiniteSubsetsOf
  <2> QED
    BY <2>1
<1>2. PICK x \in T : \A y \in T : ~(<<y, x>> \in StrictSubsetOrdering(Nat))
  <2> HIDE DEF T
  <2> QED
    BY <1>1, FS_StrictSubsetOrderingWellFounded, WFMin
<1>3. PICK m \in S : x = m .. n
  OBVIOUS
<1>4. ASSUME NEW k \in S PROVE m >= k
  <2> SUFFICES ASSUME k > m PROVE FALSE
    OBVIOUS
  <2>1. k .. n \in SUBSET Nat /\ m .. n \in SUBSET Nat /\ k .. n \in T
    OBVIOUS
  <2>2. k .. n \subseteq m .. n /\ k .. n # m .. n
    OBVIOUS
  <2>3. <<k .. n, m .. n>> \in StrictSubsetOrdering(Nat)
    BY <2>1, <2>2 DEF StrictSubsetOrdering
  <2> QED
    BY <1>2, <1>3, <2>1, <2>3
<1>5. \A s \in S : s \in Int
  OBVIOUS
<1>6. m \in Final(S) /\ \A s \in Final(S) : s = m
  BY <1>4, <1>5 DEF Final
<1>7. Final(S) = {m}
  BY <1>6
<1> QED
  BY <1>7

LEMMA FirstIs ==
    ASSUME NEW n \in Nat, NEW S \in SUBSET (1 .. n), S # {}
    PROVE  \E m \in S : First(S) = {m}
<1> DEFINE R == {n + 1 - m : m \in S}
<1>0. \A x \in S : x \in Int /\ n + 1 - x \in 1 .. n
  OBVIOUS
<1>1. R \in SUBSET (1 .. n) /\ R # {}
  <2>1. PICK x \in S : TRUE
    OBVIOUS
  <2>2. n + 1 - x \in R
    OBVIOUS
  <2> QED
    BY <1>0, <2>2
<1>2. PICK k \in R : Final(R) = {k}
  BY <1>1, FinalIs
<1>3. PICK m \in S : k = n + 1 - m
  OBVIOUS
<1>4. ASSUME NEW x \in S PROVE m <= x
  <2>1. n + 1 - x \in R
    OBVIOUS
  <2>2. n + 1 - x <= n + 1 - m
    BY <1>2, <1>3, <2>1 DEF Final
  <2> QED
    BY <1>0, <2>2
<1>5. m \in First(S) /\ \A x \in First(S) : x = m
  BY <1>0, <1>4 DEF First
<1>6. First(S) = {m}
  BY <1>5
<1> QED
  BY <1>6

\* The two stacks of a good configuration.
LEMMA StacksAre ==
    ASSUME NEW c, Good(c)
    PROVE  /\ c.stack \in Seq(Places) /\ c.stk \in Seq(Tags)
           /\ Len(c.stack) \in Nat /\ DOMAIN c.stack = 1 .. Len(c.stack)
           /\ Len(c.stk) \in Nat /\ DOMAIN c.stk = 1 .. Len(c.stk)
  BY DEF Good, Config

\* The copy of a temporary at position i of the mirror is right.
LEMMA BeneathIs ==
    ASSUME NEW c, Good(c), NEW t \in Temps, NEW i
    PROVE  Beneath(c, i) = t <=> LET at == Len(c.stk) - (Len(c.stack) - i)
                                 IN  at \in 1 .. Len(c.stk) /\ c.stk[at] = t
<1>1. t # Junk
  BY VarsAssumption DEF Vars
<1> QED
  BY <1>1, StacksAre DEF Beneath, At

LEMMA MirrorsIn ==
    ASSUME NEW c, Good(c), NEW t
    PROVE  Mirrors(c, t) \in SUBSET (1 .. Len(c.stack)) /\ Len(c.stack) \in Nat
  BY StacksAre DEF Mirrors

\* A helper that moves nothing of t.
LEMMA KeepsFrame ==
    ASSUME NEW c, Good(c), NEW d, Good(d), NEW t \in Temps,
           \A r \in Regs : d.desc[r] = t <=> c.desc[r] = t,
           \A r \in Regs : c.desc[r] = t /\ c.reg[r] = t => d.reg[r] = t,
           Len(d.stack) = Len(c.stack),
           \A i \in 1 .. Len(c.stack) : d.stack[i] = t <=> c.stack[i] = t,
           Len(d.stk) = Len(c.stk),
           \A i \in 1 .. Len(c.stk) : c.stk[i] = t => d.stk[i] = t
    PROVE  Keeps(c, d, t) /\ Holding(d, t) = Holding(c, t) /\ Mirrors(d, t) = Mirrors(c, t)
<1>1. Holding(d, t) = Holding(c, t)
  BY DEF Holding
<1>2. Mirrors(d, t) = Mirrors(c, t)
  BY StacksAre DEF Mirrors
<1>3. ASSUME NEW i, Beneath(c, i) = t PROVE Beneath(d, i) = t
  BY <1>3, BeneathIs
<1>4. RegRight(c, t) => RegRight(d, t)
  BY DEF RegRight
<1> QED
  BY <1>1, <1>2, <1>3, <1>4 DEF Keeps, Absent, Covered, TopRight, AllRight

\* The same for a helper that leaves both stacks alone.
LEMMA KeepsRegs ==
    ASSUME NEW c, Good(c), NEW d, Good(d), NEW t \in Temps,
           \A r \in Regs : d.desc[r] = t <=> c.desc[r] = t,
           \A r \in Regs : c.desc[r] = t /\ c.reg[r] = t => d.reg[r] = t,
           d.stack = c.stack, d.stk = c.stk
    PROVE  Keeps(c, d, t) /\ Holding(d, t) = Holding(c, t) /\ Mirrors(d, t) = Mirrors(c, t)
  BY KeepsFrame

-----------------------------------------------------------------------------
(* Helpers that move nothing of t *)

LEMMA UnmapKeeps ==
    ASSUME NEW c, Good(c), NEW R, NEW t \in Temps, \A r \in Regs : r \in R => c.desc[r] # t
    PROVE  /\ Keeps(c, Unmap(c, R), t)
           /\ Holding(Unmap(c, R), t) = Holding(c, t)
           /\ Mirrors(Unmap(c, R), t) = Mirrors(c, t)
<1> DEFINE d == Unmap(c, R)
<1>1. Good(d)
  BY UnmapGood
<1>2. /\ \A r \in Regs : d.desc[r] = IF r \in R THEN NoVar ELSE c.desc[r]
      /\ \A r \in Regs : d.reg[r] = IF r \in R THEN Junk ELSE c.reg[r]
      /\ d.stack = c.stack /\ d.stk = c.stk
  BY DEF Unmap, Good, Config
<1>3. t # NoVar
  BY VarsAssumption DEF Vars
<1> HIDE DEF d
<1>4. Keeps(c, d, t) /\ Holding(d, t) = Holding(c, t) /\ Mirrors(d, t) = Mirrors(c, t)
  BY <1>1, <1>2, <1>3, KeepsRegs
<1> QED
  BY <1>4 DEF d

LEMMA FlushKeeps ==
    ASSUME NEW c, Good(c), NEW R, NEW t \in Temps, \A r \in Regs : r \in R => c.desc[r] # t
    PROVE  /\ Keeps(c, Flush(c, R), t)
           /\ Holding(Flush(c, R), t) = Holding(c, t)
           /\ Mirrors(Flush(c, R), t) = Mirrors(c, t)
<1> DEFINE d == Flush(c, R)
<1>1. Good(d)
  BY FlushGood
<1>2. /\ \A r \in Regs : d.desc[r] = IF r \in R THEN NoVar ELSE c.desc[r]
      /\ \A r \in Regs : d.reg[r] = IF r \in R THEN Junk ELSE c.reg[r]
      /\ d.stack = c.stack /\ d.stk = c.stk
  BY DEF Flush, Unmap, Good, Config
<1>3. t # NoVar
  BY VarsAssumption DEF Vars
<1> HIDE DEF d
<1>4. Keeps(c, d, t) /\ Holding(d, t) = Holding(c, t) /\ Mirrors(d, t) = Mirrors(c, t)
  BY <1>1, <1>2, <1>3, KeepsRegs
<1> QED
  BY <1>4 DEF d

LEMMA LockKeeps ==
    ASSUME NEW c, Good(c), NEW r \in Regs, NEW R, NEW t \in Temps
    PROVE  Keeps(c, Lock(c, r), t) /\ Keeps(c, Unlock(c, R), t)
           /\ Mirrors(Lock(c, r), t) = Mirrors(c, t)
           /\ Holding(Unlock(c, R), t) = Holding(c, t)
           /\ Mirrors(Unlock(c, R), t) = Mirrors(c, t)
<1>1. Good(Lock(c, r)) /\ Good(Unlock(c, R))
  BY LockGood
<1>2. /\ Lock(c, r).desc = c.desc /\ Lock(c, r).reg = c.reg
      /\ Lock(c, r).stack = c.stack /\ Lock(c, r).stk = c.stk
      /\ Unlock(c, R).desc = c.desc /\ Unlock(c, R).reg = c.reg
      /\ Unlock(c, R).stack = c.stack /\ Unlock(c, R).stk = c.stk
  BY DEF Lock, Unlock, Good, Config
<1> QED
  BY <1>1, <1>2, KeepsRegs

\* Mapping another variable to a register that does not hold t.
LEMMA InsertKeeps ==
    ASSUME NEW c, Good(c), NEW v \in Vars, NEW r \in Regs, Holding(c, v) \subseteq {r},
           NEW t \in Temps, t # v, c.desc[r] # t
    PROVE  Keeps(c, Insert(c, v, r), t)
<1>1. Good(Insert(c, v, r))
  BY InsertGood
<1>2. /\ Insert(c, v, r).desc = [c.desc EXCEPT ![r] = v] /\ Insert(c, v, r).reg = c.reg
      /\ Insert(c, v, r).stack = c.stack /\ Insert(c, v, r).stk = c.stk
      /\ c.desc \in [Regs -> Vars \cup {NoVar}]
  BY DEF Insert, Good, Config
<1> QED
  BY <1>1, <1>2, KeepsRegs

LEMMA LoadedKeeps ==
    ASSUME NEW c, Good(c), NEW v \in Vars, NEW r \in Regs, NEW ok \in BOOLEAN,
           NEW t \in Temps, c.desc[r] # t
    PROVE  /\ Keeps(c, Loaded(c, v, r, ok), t)
           /\ Mirrors(Loaded(c, v, r, ok), t) = Mirrors(c, t)
<1> DEFINE d == Loaded(c, v, r, ok)
<1>1. /\ Good(d) /\ d.desc = c.desc /\ \A x \in Regs : x # r => d.reg[x] = c.reg[x]
      /\ d.stack = c.stack /\ d.stk = c.stk
  BY DEF Loaded, Good, Config, Coherent, Tags
<1> HIDE DEF d
<1>2. Keeps(c, d, t) /\ Mirrors(d, t) = Mirrors(c, t)
  BY <1>1, KeepsRegs
<1> QED
  BY <1>2 DEF d

\* A definition of another variable.
LEMMA DefineKeeps ==
    ASSUME NEW c, Good(c), NEW v \in Vars, NEW r \in Regs, c.desc[r] = v,
           NEW t \in Temps, t # v
    PROVE  Keeps(c, Define(c, v, r), t)
<1> DEFINE d == Define(c, v, r)
<1>1. /\ Good(d) /\ d.desc = c.desc /\ d.stack = c.stack
      /\ \A x \in Regs : d.reg[x] = IF x = r THEN v ELSE IF c.reg[x] = v THEN Junk ELSE c.reg[x]
      /\ Len(d.stk) = Len(c.stk)
      /\ \A i \in 1 .. Len(c.stk) : d.stk[i] = IF c.stk[i] = v THEN Junk ELSE c.stk[i]
  <2>1. Good(d)
    BY DefineGood
  <2>2. /\ d.desc = c.desc /\ d.stack = c.stack
        /\ d.reg = [x \in Regs |-> IF x = r THEN v ELSE IF c.reg[x] = v THEN Junk ELSE c.reg[x]]
        /\ d.stk = [i \in DOMAIN c.stk |-> IF c.stk[i] = v THEN Junk ELSE c.stk[i]]
    BY DEF Define, Good, Config
  <2> HIDE DEF d
  <2>3. DOMAIN d.stk = 1 .. Len(d.stk) /\ DOMAIN c.stk = 1 .. Len(c.stk)
        /\ Len(d.stk) \in Nat /\ Len(c.stk) \in Nat
    BY <2>1, StacksAre
  <2>4. 1 .. Len(d.stk) = 1 .. Len(c.stk)
    BY <2>2, <2>3
  <2>5. Len(d.stk) = Len(c.stk)
    BY <2>3, <2>4
  <2> QED
    BY <2>1, <2>2, <2>3, <2>5
<1> HIDE DEF d
<1>2. Keeps(c, d, t)
  BY <1>1, KeepsFrame
<1> QED
  BY <1>2 DEF d

LEMMA DiscardIs ==
    ASSUME NEW c, Good(c), NEW T, NEW d, d = Discard(c, T)
    PROVE  /\ Good(d) /\ d.stk = c.stk
           /\ \A r \in Regs : /\ d.desc[r] = IF c.desc[r] \in T THEN NoVar ELSE c.desc[r]
                              /\ c.desc[r] \notin T => d.reg[r] = c.reg[r]
           /\ Len(d.stack) = Len(c.stack)
           /\ \A i \in 1 .. Len(c.stack) :
                 d.stack[i] = IF c.stack[i] \in T THEN Stale ELSE c.stack[i]
<1> DEFINE dead == {r \in Regs : c.desc[r] \in T /\ r \in Final(Holding(c, c.desc[r]))}
           u == Unmap(c, dead)
<1>1. Good(d)
  BY DiscardGood
<1>2. /\ \A r \in Regs : /\ u.desc[r] = IF r \in dead THEN NoVar ELSE c.desc[r]
                         /\ r \notin dead => u.reg[r] = c.reg[r]
      /\ u.stack = c.stack /\ u.stk = c.stk
  BY DEF Unmap, Good, Config
<1>3. ASSUME NEW r \in Regs, c.desc[r] \in T, c.desc[r] # NoVar PROVE r \in dead
  <2>1. Holding(c, c.desc[r]) = {r}
    BY <1>3 DEF Holding, Good, Coherent
  <2>2. r \in Final(Holding(c, c.desc[r]))
    BY <2>1 DEF Final, Regs
  <2> QED
    BY <1>3, <2>2
<1>4. \A r \in dead : c.desc[r] \in T
  OBVIOUS
<1>5. /\ d.desc = u.desc /\ d.reg = u.reg /\ d.stk = u.stk
      /\ d.stack = [i \in DOMAIN u.stack |-> IF u.stack[i] \in T THEN Stale ELSE u.stack[i]]
  BY DEF Discard, Unmap, Good, Config
<1> HIDE DEF u, dead
<1>6. /\ \A r \in Regs : /\ d.desc[r] = IF c.desc[r] \in T THEN NoVar ELSE c.desc[r]
                         /\ c.desc[r] \notin T => d.reg[r] = c.reg[r]
  BY <1>2, <1>3, <1>4, <1>5
<1>7. DOMAIN d.stack = 1 .. Len(d.stack) /\ DOMAIN c.stack = 1 .. Len(c.stack)
      /\ Len(d.stack) \in Nat /\ Len(c.stack) \in Nat
  BY <1>1, StacksAre
<1>8. 1 .. Len(d.stack) = 1 .. Len(c.stack)
  BY <1>2, <1>5, <1>7
<1>9. Len(d.stack) = Len(c.stack)
  BY <1>7, <1>8
<1> QED
  BY <1>1, <1>2, <1>5, <1>6, <1>7, <1>9

LEMMA DiscardKeeps ==
    ASSUME NEW c, Good(c), NEW T, NEW t \in Temps, t \notin T
    PROVE  Keeps(c, Discard(c, T), t) /\ Mirrors(Discard(c, T), t) = Mirrors(c, t)
<1> DEFINE d == Discard(c, T)
<1>1. d = Discard(c, T)
  OBVIOUS
<1> HIDE DEF d
<1>2. /\ Good(d) /\ d.stk = c.stk
      /\ \A r \in Regs : /\ d.desc[r] = IF c.desc[r] \in T THEN NoVar ELSE c.desc[r]
                         /\ c.desc[r] \notin T => d.reg[r] = c.reg[r]
      /\ Len(d.stack) = Len(c.stack)
      /\ \A i \in 1 .. Len(c.stack) :
            d.stack[i] = IF c.stack[i] \in T THEN Stale ELSE c.stack[i]
  BY <1>1, DiscardIs
<1>3. t # Stale /\ t # NoVar
  BY VarsAssumption DEF Vars
<1> QED
  BY <1>1, <1>2, <1>3, KeepsFrame

\* The temporaries that are discarded are gone.
LEMMA DiscardDrops ==
    ASSUME NEW c, Good(c), NEW T, NEW t \in Temps, t \in T
    PROVE  Absent(Discard(c, T), t)
<1> DEFINE d == Discard(c, T)
<1>1. d = Discard(c, T)
  OBVIOUS
<1> HIDE DEF d
<1>2. /\ Good(d)
      /\ \A r \in Regs : d.desc[r] = IF c.desc[r] \in T THEN NoVar ELSE c.desc[r]
      /\ Len(d.stack) = Len(c.stack)
      /\ \A i \in 1 .. Len(c.stack) :
            d.stack[i] = IF c.stack[i] \in T THEN Stale ELSE c.stack[i]
  BY <1>1, DiscardIs
<1>3. t # Stale /\ t # NoVar
  BY VarsAssumption DEF Vars
<1>4. DOMAIN d.stack = 1 .. Len(d.stack)
  BY <1>2, StacksAre
<1> QED
  BY <1>1, <1>2, <1>3, <1>4 DEF Absent, Holding, Mirrors

LEMMA ForgetKeeps ==
    ASSUME NEW c, Good(c), NEW T, NEW t \in Temps
    PROVE  /\ t \notin T => Keeps(c, Forget(c, T), t)
           /\ Absent(c, t) => Absent(Forget(c, T), t)
           /\ Mirrors(Forget(c, T), t) = Mirrors(c, t)
<1> DEFINE d == Forget(c, T)
<1>1. Good(d)
  BY ForgetGood
<1>2. /\ d.desc = c.desc /\ d.stack = c.stack
      /\ d.reg = [r \in Regs |-> IF c.reg[r] \in T THEN Junk ELSE c.reg[r]]
      /\ d.stk = [i \in DOMAIN c.stk |-> IF c.stk[i] \in T THEN Junk ELSE c.stk[i]]
  BY DEF Forget, Good, Config
<1> HIDE DEF d
<1>3. DOMAIN d.stk = 1 .. Len(d.stk) /\ DOMAIN c.stk = 1 .. Len(c.stk)
      /\ Len(d.stk) \in Nat /\ Len(c.stk) \in Nat
  BY <1>1, StacksAre
<1>4. 1 .. Len(d.stk) = 1 .. Len(c.stk)
  BY <1>2, <1>3
<1>5. Len(d.stk) = Len(c.stk)
  BY <1>3, <1>4
<1>6. t \notin T => Keeps(c, d, t)
  <2> SUFFICES ASSUME t \notin T PROVE Keeps(c, d, t)
    OBVIOUS
  <2>1. \A i \in 1 .. Len(c.stk) : c.stk[i] = t => d.stk[i] = t
    BY <1>2, <1>3
  <2>2. \A r \in Regs : c.desc[r] = t /\ c.reg[r] = t => d.reg[r] = t
    BY <1>2
  <2> QED
    BY <1>1, <1>2, <1>5, <2>1, <2>2, KeepsFrame
<1>7. Absent(c, t) => Absent(d, t)
  BY <1>2 DEF Absent, Holding, Mirrors
<1>8. Mirrors(d, t) = Mirrors(c, t)
  BY <1>2 DEF Mirrors
<1> QED
  BY <1>6, <1>7, <1>8 DEF d

LEMMA RetireKeeps ==
    ASSUME NEW c, Good(c), NEW T, NEW t \in Temps
    PROVE  /\ t \notin T => Keeps(c, Retire(c, T), t)
           /\ t \in T => Absent(Retire(c, T), t)
<1> DEFINE d == Discard(c, T)
<1>1. Good(d)
  BY DiscardGood
<1>2. t \notin T => Keeps(c, d, t)
  BY DiscardKeeps
<1>3. t \in T => Absent(d, t)
  BY DiscardDrops
<1> HIDE DEF d
<1>4. /\ t \notin T => Keeps(d, Forget(d, T), t)
      /\ Absent(d, t) => Absent(Forget(d, T), t)
  BY <1>1, ForgetKeeps
<1>5. Retire(c, T) = Forget(d, T)
  BY DEF Retire, d
<1> QED
  BY <1>2, <1>3, <1>4, <1>5, KeepsThrough

LEMMA SpillDstKeeps ==
    ASSUME NEW c, Good(c), NEW v, NEW r, c.desc[r] = v, NEW t \in Temps
    PROVE  Keeps(c, SpillDst(c, v, r), t)
<1>1. CASE v \in Scalars
  <2>1. \A x \in Regs : x \in {r} => c.desc[x] # t
    BY <1>1, NamedVars DEF Named
  <2> QED
    BY <1>1, <2>1, FlushKeeps DEF SpillDst
<1>2. CASE v \notin Scalars
  BY <1>2, KeepsSelf DEF SpillDst
<1> QED
  BY <1>1, <1>2

\* The register of a constant, or one that is not mapped any more.
LEMMA DiscardConstKeeps ==
    ASSUME NEW c, Good(c), NEW v, NEW r, v \in Consts => c.desc[r] \notin Temps,
           NEW t \in Temps
    PROVE  Keeps(c, DiscardConst(c, v, r), t)
<1>1. CASE v \in Consts
  <2>1. \A x \in Regs : x \in {r} => c.desc[x] # t
    BY <1>1
  <2> QED
    BY <1>1, <2>1, UnmapKeeps DEF DiscardConst
<1>2. CASE v \notin Consts
  BY <1>2, KeepsSelf DEF DiscardConst
<1> QED
  BY <1>1, <1>2

LEMMA CleanForBranchKeeps ==
    ASSUME NEW c, Good(c), NEW t \in Temps
    PROVE  /\ Keeps(c, CleanForBranch(c), t)
           /\ Holding(CleanForBranch(c), t) = Holding(c, t)
           /\ Mirrors(CleanForBranch(c), t) = Mirrors(c, t)
<1> DEFINE R == {r \in Regs : c.dirty[r] /\ c.desc[r] \in Scalars \cup Arrays}
<1>1. \A r \in Regs : r \in R => c.desc[r] # t
  BY NamedVars DEF Named
<1>2. CleanForBranch(c) = Flush(c, R)
  BY DEF CleanForBranch
<1> HIDE DEF R
<1> QED
  BY <1>1, <1>2, FlushKeeps

-----------------------------------------------------------------------------
(* The stacks grow and shrink together *)

\* n words were pushed.
Grown(c, d, n) ==
    /\ Len(d.stack) = Len(c.stack) + n /\ Len(d.stk) = Len(c.stk) + n
    /\ \A i \in 1 .. Len(c.stack) : d.stack[i] = c.stack[i]
    /\ \A i \in 1 .. Len(c.stk) : d.stk[i] = c.stk[i]

\* What lay beneath still does, and a pushed word lies where its mirror is.
LEMMA BeneathGrown ==
    ASSUME NEW c, Good(c), NEW d, Good(d), NEW n \in Nat, Grown(c, d, n), NEW t \in Temps
    PROVE  /\ \A i \in 1 .. Len(c.stack) : Beneath(c, i) = t => Beneath(d, i) = t
           /\ \A j \in 1 .. n : d.stk[Len(c.stk) + j] = t
                                   => Beneath(d, Len(c.stack) + j) = t
<1>1. Len(c.stack) \in Nat /\ Len(c.stk) \in Nat
  BY StacksAre
<1>2. ASSUME NEW i \in 1 .. Len(c.stack), Beneath(c, i) = t PROVE Beneath(d, i) = t
  <2> DEFINE at == Len(c.stk) - (Len(c.stack) - i)
  <2>1. at \in 1 .. Len(c.stk) /\ c.stk[at] = t
    BY <1>2, BeneathIs
  <2>2. Len(d.stk) - (Len(d.stack) - i) = at /\ at \in 1 .. Len(d.stk)
    <3>1. \A a, b \in Nat : (b + n) - ((a + n) - i) = b - (a - i) /\ 1 .. b \subseteq 1 .. b + n
      OBVIOUS
    <3> HIDE DEF at
    <3>2. at = Len(c.stk) - (Len(c.stack) - i)
      BY DEF at
    <3> QED
      BY <1>1, <2>1, <3>1, <3>2 DEF Grown
  <2>3. d.stk[at] = t
    BY <2>1 DEF Grown
  <2> QED
    BY <2>2, <2>3, BeneathIs
<1>3. ASSUME NEW j \in 1 .. n, d.stk[Len(c.stk) + j] = t
      PROVE  Beneath(d, Len(c.stack) + j) = t
  <2>1. Len(d.stk) - (Len(d.stack) - (Len(c.stack) + j)) = Len(c.stk) + j
        /\ Len(c.stk) + j \in 1 .. Len(d.stk)
    BY <1>1 DEF Grown
  <2> QED
    BY <1>3, <2>1, BeneathIs
<1> QED
  BY <1>2, <1>3

\* Pushing other variables.
LEMMA GrownKeeps ==
    ASSUME NEW c, Good(c), NEW d, Good(d), NEW n \in Nat, Grown(c, d, n), NEW t \in Temps,
           \A r \in Regs : d.desc[r] = t <=> c.desc[r] = t,
           \A r \in Regs : c.desc[r] = t /\ c.reg[r] = t => d.reg[r] = t,
           \A j \in 1 .. n : d.stack[Len(c.stack) + j] # t
    PROVE  Keeps(c, d, t)
<1>1. Holding(d, t) = Holding(c, t)
  BY DEF Holding
<1>2. Mirrors(d, t) = Mirrors(c, t)
  <2>1. /\ Len(c.stack) \in Nat /\ DOMAIN c.stack = 1 .. Len(c.stack)
        /\ DOMAIN d.stack = 1 .. Len(c.stack) + n
    BY StacksAre DEF Grown
  <2>2. ASSUME NEW i \in 1 .. Len(c.stack) + n, d.stack[i] = t PROVE i \in 1 .. Len(c.stack)
    <3> SUFFICES ASSUME i \notin 1 .. Len(c.stack) PROVE FALSE
      OBVIOUS
    <3>1. i - Len(c.stack) \in 1 .. n /\ Len(c.stack) + (i - Len(c.stack)) = i
      BY <2>1
    <3> QED
      BY <2>2, <3>1
  <2>3. \A i \in 1 .. Len(c.stack) : i \in 1 .. Len(c.stack) + n
    BY <2>1
  <2> QED
    BY <2>1, <2>2, <2>3 DEF Mirrors, Grown
<1>3. ASSUME NEW i \in Mirrors(c, t), Beneath(c, i) = t PROVE Beneath(d, i) = t
  BY <1>3, BeneathGrown, MirrorsIn
<1>4. RegRight(c, t) => RegRight(d, t)
  BY DEF RegRight
<1>5. Final(Mirrors(c, t)) \subseteq Mirrors(c, t)
  BY DEF Final
<1> QED
  BY <1>1, <1>2, <1>3, <1>4, <1>5 DEF Keeps, Absent, Covered, TopRight, AllRight

\* Pushing t once, from the register it leaves.
LEMMA PushedKeeps ==
    ASSUME NEW c, Good(c), NEW d, Good(d), NEW n \in Nat, Grown(c, d, n), NEW t \in Temps,
           \A r \in Regs : d.desc[r] # t,
           NEW p \in Regs, c.desc[p] = t,
           NEW k \in 1 .. n, \A j \in 1 .. n : d.stack[Len(c.stack) + j] = t <=> j = k,
           d.stk[Len(c.stk) + k] = c.reg[p]
    PROVE  Keeps(c, d, t)
<1>1. Holding(d, t) = {} /\ Holding(c, t) # {}
  BY DEF Holding
<1>2. /\ Len(c.stack) \in Nat /\ DOMAIN c.stack = 1 .. Len(c.stack)
      /\ DOMAIN d.stack = 1 .. Len(c.stack) + n
  BY StacksAre DEF Grown
<1> DEFINE at == Len(c.stack) + k
<1>3. at \in Mirrors(d, t)
  <2>1. at \in 1 .. Len(c.stack) + n
    BY <1>2
  <2> QED
    BY <1>2, <2>1 DEF Mirrors
<1>4. ASSUME NEW i \in Mirrors(d, t), i # at PROVE i \in Mirrors(c, t) /\ i < at
  <2>1. i \in 1 .. Len(c.stack) + n /\ d.stack[i] = t
    BY <1>2 DEF Mirrors
  <2>2. i \in 1 .. Len(c.stack)
    <3> SUFFICES ASSUME i \notin 1 .. Len(c.stack) PROVE FALSE
      OBVIOUS
    <3>1. i - Len(c.stack) \in 1 .. n /\ Len(c.stack) + (i - Len(c.stack)) = i
      BY <1>2, <2>1
    <3>2. i - Len(c.stack) = k
      BY <2>1, <3>1
    <3> QED
      BY <1>4, <3>1, <3>2
  <2>3. i < at
    BY <1>2, <2>2
  <2>4. c.stack[i] = t
    BY <2>1, <2>2 DEF Grown
  <2> QED
    BY <1>2, <2>2, <2>3, <2>4 DEF Mirrors
<1>5. Final(Mirrors(d, t)) \subseteq {at}
  <2> SUFFICES ASSUME NEW i \in Final(Mirrors(d, t)), i # at PROVE FALSE
    OBVIOUS
  <2>1. i \in Mirrors(d, t) /\ at <= i
    BY <1>3 DEF Final
  <2>2. i < at /\ i \in 1 .. Len(c.stack)
    BY <1>2, <1>4, <2>1, MirrorsIn
  <2> QED
    BY <1>2, <2>1, <2>2
<1>6. RegRight(c, t) => Beneath(d, at) = t
  BY BeneathGrown DEF RegRight
<1>7. RegRight(d, t)
  BY DEF RegRight
<1>8. ASSUME NEW i \in Mirrors(c, t), Beneath(c, i) = t PROVE Beneath(d, i) = t
  BY <1>8, BeneathGrown, MirrorsIn
<1> HIDE DEF at
<1> QED
  BY <1>1, <1>3, <1>4, <1>5, <1>6, <1>7, <1>8 DEF Keeps, Absent, Covered, TopRight, AllRight
\* The words pushed are those of the registers q.
Copied(c, d, n, q) ==
    \A j \in 1 .. n : /\ d.stack[Len(c.stack) + j] = c.desc[q[j]]
                      /\ d.stk[Len(c.stk) + j] = c.reg[q[j]]

LEMMA PushIs ==
    ASSUME NEW c, Good(c), NEW n \in Nat, NEW q \in [1 .. n -> Regs],
           \A i \in 1 .. n : c.desc[q[i]] \in Temps, NEW d, d = Push(c, q)
    PROVE  /\ Good(d) /\ Grown(c, d, n) /\ d.desc = c.desc /\ d.reg = c.reg
           /\ d.dirty = c.dirty /\ Copied(c, d, n, q)
<1>1. Good(d)
  BY PushGood
<1>2. PICK names, tags : names = [i \in 1 .. n |-> c.desc[q[i]]]
                         /\ tags = [i \in 1 .. n |-> c.reg[q[i]]]
  OBVIOUS
<1>3. /\ d.stack = c.stack \o names /\ d.stk = c.stk \o tags
      /\ d.desc = c.desc /\ d.reg = c.reg /\ d.dirty = c.dirty
  BY <1>2 DEF Push, Good, Config
<1>4. \A j \in 1 .. n : names[j] = c.desc[q[j]] /\ tags[j] = c.reg[q[j]]
  BY <1>2
<1>5. names \in Seq(Places) /\ tags \in Seq(Tags) /\ Len(names) = n /\ Len(tags) = n
  <2>1. names \in [1 .. n -> Places] /\ tags \in [1 .. n -> Tags]
    BY <1>2 DEF Good, Config, Places
  <2> QED
    BY <2>1
<1>6. c.stack \in Seq(Places) /\ c.stk \in Seq(Tags)
  BY StacksAre
<1>7. /\ Len(c.stack \o names) = Len(c.stack) + n
      /\ \A i \in 1 .. Len(c.stack) : (c.stack \o names)[i] = c.stack[i]
      /\ \A j \in 1 .. n : (c.stack \o names)[Len(c.stack) + j] = names[j]
  <2>1. names \in Seq(Places) /\ c.stack \in Seq(Places) /\ Len(names) = n
    BY <1>5, <1>6
  <2> QED
    BY <2>1, SMTT(60)
<1>8. /\ Len(c.stk \o tags) = Len(c.stk) + n
      /\ \A i \in 1 .. Len(c.stk) : (c.stk \o tags)[i] = c.stk[i]
      /\ \A j \in 1 .. n : (c.stk \o tags)[Len(c.stk) + j] = tags[j]
  <2>1. tags \in Seq(Tags) /\ c.stk \in Seq(Tags) /\ Len(tags) = n
    BY <1>5, <1>6
  <2> QED
    BY <2>1, SMTT(60)
<1> QED
  BY <1>1, <1>3, <1>4, <1>7, <1>8 DEF Grown, Copied

LEMMA PushOneIs ==
    ASSUME NEW c, Good(c), NEW r \in Regs, c.desc[r] \in Temps, NEW d, d = Push(c, <<r>>)
    PROVE  /\ Good(d) /\ Grown(c, d, 1) /\ d.desc = c.desc /\ d.reg = c.reg
           /\ d.stack[Len(c.stack) + 1] = c.desc[r] /\ d.stk[Len(c.stk) + 1] = c.reg[r]
<1>1. PICK n : n = 1
  OBVIOUS
<1>2. PICK q : q = <<r>>
  OBVIOUS
<1>3. n \in Nat /\ q \in [1 .. n -> Regs] /\ \A i \in 1 .. n : c.desc[q[i]] \in Temps
  BY <1>1, <1>2
<1>4. d = Push(c, q) /\ q[1] = r /\ 1 \in 1 .. n
  BY <1>1, <1>2
<1>5. /\ Good(d) /\ Grown(c, d, n) /\ d.desc = c.desc /\ d.reg = c.reg
      /\ Copied(c, d, n, q)
  BY <1>3, <1>4, PushIs
<1> QED
  BY <1>1, <1>4, <1>5 DEF Copied

LEMMA FlushIs ==
    ASSUME NEW c, Good(c), NEW R, NEW d, d = Flush(c, R)
    PROVE  /\ Good(d) /\ d.stack = c.stack /\ d.stk = c.stk
           /\ \A r \in Regs : d.desc[r] = IF r \in R THEN NoVar ELSE c.desc[r]
           /\ \A r \in Regs : d.reg[r] = IF r \in R THEN Junk ELSE c.reg[r]
<1>1. Good(d)
  BY FlushGood
<1> QED
  BY <1>1 DEF Flush, Unmap, Good, Config

\* Evicting a register moves the temporary it holds to the top of the stack.
LEMMA EvictKeeps ==
    ASSUME NEW c, Good(c), NEW r \in Regs, NEW t \in Temps
    PROVE  Keeps(c, Evict(c, r), t)
<1>1. CASE c.desc[r] \notin Temps
  <2>1. \A x \in Regs : x \in {r} => c.desc[x] # t
    BY <1>1
  <2> QED
    BY <1>1, <2>1, FlushKeeps DEF Evict
<1>2. CASE c.desc[r] \in Temps
  <2> DEFINE e == Push(c, <<r>>)
             d == Flush(e, {r})
  <2>1. /\ Good(e) /\ Grown(c, e, 1) /\ e.desc = c.desc /\ e.reg = c.reg
        /\ e.stack[Len(c.stack) + 1] = c.desc[r] /\ e.stk[Len(c.stk) + 1] = c.reg[r]
    BY <1>2, PushOneIs
  <2>2. d = Flush(e, {r})
    OBVIOUS
  <2>3. Evict(c, r) = d
    BY <1>2 DEF Evict
  <2> HIDE DEF e, d
  <2>4. /\ Good(d) /\ d.stack = e.stack /\ d.stk = e.stk
        /\ \A x \in Regs : d.desc[x] = IF x \in {r} THEN NoVar ELSE e.desc[x]
        /\ \A x \in Regs : d.reg[x] = IF x \in {r} THEN Junk ELSE e.reg[x]
    BY <2>1, <2>2, FlushIs
  <2>5. Grown(c, d, 1)
    BY <2>1, <2>4 DEF Grown
  <2>6. t # NoVar
    BY NamedVars
  <2>7. CASE c.desc[r] # t
    <3>1. \A x \in Regs : d.desc[x] = t <=> c.desc[x] = t
      BY <2>1, <2>4, <2>6, <2>7
    <3>2. \A x \in Regs : c.desc[x] = t /\ c.reg[x] = t => d.reg[x] = t
      BY <2>1, <2>4, <2>7
    <3>3. \A j \in 1 .. 1 : d.stack[Len(c.stack) + j] # t
      BY <2>1, <2>4, <2>7
    <3> QED
      BY <2>3, <2>4, <2>5, <3>1, <3>2, <3>3, GrownKeeps
  <2>8. CASE c.desc[r] = t
    <3>1. \A x \in Regs : d.desc[x] # t
      BY <2>1, <2>4, <2>6, <2>8 DEF Good, Coherent
    <3>2. \A j \in 1 .. 1 : d.stack[Len(c.stack) + j] = t <=> j = 1
      BY <2>1, <2>4, <2>8
    <3>3. d.stk[Len(c.stk) + 1] = c.reg[r] /\ 1 \in 1 .. 1
      BY <2>1, <2>4
    <3> QED
      BY <2>3, <2>4, <2>5, <2>8, <3>1, <3>2, <3>3, PushedKeeps
  <2> QED
    BY <2>7, <2>8
<1> QED
  BY <1>1, <1>2

\* The cleaning for a call pushes every temporary that is in a register, once.
LEMMA CleanForCallKeeps ==
    ASSUME NEW c, Good(c), NEW d \in CleanForCall(c), NEW t \in Temps
    PROVE  Keeps(c, d, t)
<1> DEFINE held == {r \in Regs : c.dirty[r] /\ c.desc[r] \in Temps}
           R == {r \in Regs : c.dirty[r] /\ c.desc[r] # NoVar}
           n == Cardinality(held)
<1>1. PICK q \in [1 .. n -> held] : /\ \A i, j \in DOMAIN q : i < j => q[i] < q[j]
                                    /\ d = Flush(Push(c, q), R)
  BY DEF CleanForCall, PushOrders
<1>2. n \in Nat /\ IsFiniteSet(held)
  <2>1. 0 \in Int /\ NumRegs - 1 \in Int
    BY RegsAssumption
  <2>2. IsFiniteSet(Regs)
    BY <2>1, FS_Interval DEF Regs
  <2>3. held \in SUBSET Regs
    OBVIOUS
  <2> HIDE DEF held
  <2> QED
    BY <2>2, <2>3, RegsCount, FS_Subset
<1>3. held \in SUBSET Regs /\ \A r \in Regs : r \in held <=> c.desc[r] \in Temps
  BY NamedVars DEF Good, Coherent
<1>4. \A r \in Regs : r \in R <=> c.desc[r] # NoVar
  BY DEF Good, Coherent
<1>5. DOMAIN q = 1 .. n
  OBVIOUS
<1> HIDE DEF held, R, n
<1>6. ASSUME NEW i \in 1 .. n, NEW j \in 1 .. n, q[i] = q[j] PROVE i = j
  <2>1. q[i] \in Int /\ q[j] \in Int
    <3>1. q[i] \in held /\ q[j] \in held
      OBVIOUS
    <3>2. \A r \in Regs : r \in Int
      BY DEF Regs
    <3> QED
      BY <1>3, <3>1, <3>2
  <2>2. ~(i < j) /\ ~(j < i)
    BY <1>1, <1>5, <1>6, <2>1
  <2> QED
    BY <1>2, <2>2
<1>7. \A r \in held : \E i \in 1 .. n : q[i] = r
  <2>1. q \in Injection(1 .. n, held)
    BY <1>6 DEF Injection, IsInjective
  <2>2. Cardinality(1 .. n) = Cardinality(held)
    <3>1. Cardinality(1 .. n) = n
      BY <1>2, FS_Interval
    <3> QED
      BY <3>1 DEF n
  <2>3. q \in Surjection(1 .. n, held)
    BY <1>2, <2>1, <2>2, FS_Injection
  <2> QED
    BY <2>3 DEF Surjection
<1> DEFINE e == Push(c, q)
<1>8. q \in [1 .. n -> Regs] /\ \A i \in 1 .. n : c.desc[q[i]] \in Temps
  BY <1>3
<1>9. e = Push(c, q) /\ d = Flush(e, R)
  BY <1>1
<1> HIDE DEF e
<1>10. /\ Good(e) /\ Grown(c, e, n) /\ e.desc = c.desc /\ e.reg = c.reg
       /\ Copied(c, e, n, q)
  BY <1>2, <1>8, <1>9, PushIs
<1>11. /\ Good(d) /\ d.stack = e.stack /\ d.stk = e.stk
       /\ \A r \in Regs : d.desc[r] = IF r \in R THEN NoVar ELSE e.desc[r]
  BY <1>9, <1>10, FlushIs
<1>12. Grown(c, d, n)
  BY <1>10, <1>11 DEF Grown
<1>13. t # NoVar
  BY NamedVars
<1>14. \A x \in Regs : d.desc[x] # t
  BY <1>4, <1>10, <1>11, <1>13
<1>15. CASE Holding(c, t) = {}
  <2>1. \A x \in Regs : c.desc[x] # t
    BY <1>15 DEF Holding
  <2>2. \A j \in 1 .. n : d.stack[Len(c.stack) + j] # t
    BY <1>8, <1>10, <1>11, <2>1 DEF Copied
  <2> QED
    BY <1>2, <1>11, <1>12, <1>14, <2>1, <2>2, GrownKeeps
<1>16. CASE Holding(c, t) # {}
  <2>1. PICK p \in Regs : c.desc[p] = t
    BY <1>16 DEF Holding
  <2>2. PICK k \in 1 .. n : q[k] = p
    BY <1>3, <1>7, <2>1
  <2>3. \A j \in 1 .. n : c.desc[q[j]] = t <=> j = k
    BY <1>6, <1>8, <1>13, <2>1, <2>2 DEF Good, Coherent
  <2>4. \A j \in 1 .. n : d.stack[Len(c.stack) + j] = t <=> j = k
    BY <1>10, <1>11, <2>3 DEF Copied
  <2>5. d.stk[Len(c.stk) + k] = c.reg[p]
    BY <1>10, <1>11, <2>2 DEF Copied
  <2> QED
    BY <1>2, <1>11, <1>12, <1>14, <2>1, <2>4, <2>5, PushedKeeps
<1> QED
  BY <1>15, <1>16

\* The word popped is the one on top.
LEMMA PopIs ==
    ASSUME NEW c, Good(c), NEW v \in Vars, NEW r \in Regs, Len(c.stack) # 0,
           NEW d, d = Pop(c, v, r)
    PROVE  /\ Good(d) /\ d.desc = c.desc /\ \A x \in Regs : x # r => d.reg[x] = c.reg[x]
           /\ Beneath(c, Len(c.stack)) = v => d.reg[r] = v
           /\ Len(d.stack) = Len(c.stack) - 1
           /\ Len(d.stk) = IF Len(c.stk) = 0 THEN 0 ELSE Len(c.stk) - 1
           /\ \A i \in 1 .. Len(c.stack) - 1 : d.stack[i] = c.stack[i]
           /\ \A i \in 1 .. Len(c.stk) - 1 : d.stk[i] = c.stk[i]
<1>1. Good(d) /\ d.desc = c.desc
  BY PopGood
<1>2. /\ \A x \in Regs : x # r => d.reg[x] = c.reg[x]
      /\ d.reg[r] = IF At(c.stk, Len(c.stk)) = v THEN v ELSE Junk
      /\ d.stack = Front(c.stack) /\ d.stk = Front(c.stk)
  BY DEF Pop, Loaded, Good, Config
<1>3. Len(c.stack) \in Nat /\ Len(c.stk) \in Nat
  BY StacksAre
<1>4. Beneath(c, Len(c.stack)) = At(c.stk, Len(c.stk))
  <2>1. Len(c.stk) - (Len(c.stack) - Len(c.stack)) = Len(c.stk)
    BY <1>3
  <2> QED
    BY <2>1 DEF Beneath
<1>5. \A s : \A q \in Seq(s) :
         /\ Len(Front(q)) = IF Len(q) = 0 THEN 0 ELSE Len(q) - 1
         /\ \A i \in 1 .. Len(q) - 1 : Front(q)[i] = q[i]
  BY DEF Front
<1>6. c.stack \in Seq(Places) /\ c.stk \in Seq(Tags)
  BY StacksAre
<1>7. /\ Len(Front(c.stack)) = Len(c.stack) - 1
      /\ \A i \in 1 .. Len(c.stack) - 1 : Front(c.stack)[i] = c.stack[i]
  BY <1>5, <1>6
<1>8. /\ Len(Front(c.stk)) = IF Len(c.stk) = 0 THEN 0 ELSE Len(c.stk) - 1
      /\ \A i \in 1 .. Len(c.stk) - 1 : Front(c.stk)[i] = c.stk[i]
  BY <1>5, <1>6
<1> QED
  BY <1>1, <1>2, <1>4, <1>7, <1>8

\* What lies beneath the word popped still does.
LEMMA BeneathPopped ==
    ASSUME NEW c, Good(c), NEW v \in Vars, NEW r \in Regs, Len(c.stack) # 0,
           NEW d, d = Pop(c, v, r), NEW t \in Temps
    PROVE  /\ Mirrors(d, t) = Mirrors(c, t) \ {Len(c.stack)}
           /\ \A i \in Mirrors(d, t) : Beneath(c, i) = t => Beneath(d, i) = t
<1>1. /\ Good(d) /\ Len(d.stack) = Len(c.stack) - 1
      /\ Len(d.stk) = IF Len(c.stk) = 0 THEN 0 ELSE Len(c.stk) - 1
      /\ \A i \in 1 .. Len(c.stack) - 1 : d.stack[i] = c.stack[i]
      /\ \A i \in 1 .. Len(c.stk) - 1 : d.stk[i] = c.stk[i]
  BY PopIs
<1>2. /\ Len(c.stack) \in Nat /\ Len(c.stk) \in Nat
      /\ DOMAIN c.stack = 1 .. Len(c.stack) /\ DOMAIN d.stack = 1 .. Len(d.stack)
  BY <1>1, StacksAre
<1>3. Mirrors(d, t) = Mirrors(c, t) \ {Len(c.stack)}
  <2>1. \A a \in Nat : a # 0 => \A i : i \in 1 .. a - 1 <=> i \in 1 .. a /\ i # a
    OBVIOUS
  <2>2. \A i : i \in 1 .. Len(c.stack) - 1 <=> i \in 1 .. Len(c.stack) /\ i # Len(c.stack)
    BY <1>2, <2>1
  <2> QED
    BY <1>1, <1>2, <2>2 DEF Mirrors
<1>4. ASSUME NEW i \in Mirrors(d, t), Beneath(c, i) = t PROVE Beneath(d, i) = t
  <2>1. i \in 1 .. Len(c.stack) - 1
    BY <1>1, <1>2 DEF Mirrors
  <2> DEFINE at == Len(c.stk) - (Len(c.stack) - i)
  <2>2. at \in 1 .. Len(c.stk) /\ c.stk[at] = t
    BY <1>4, BeneathIs
  <2>3. \A a, b \in Nat : a # 0 /\ i \in 1 .. a - 1 /\ b - (a - i) \in 1 .. b
           => /\ b # 0 /\ (b - 1) - ((a - 1) - i) = b - (a - i)
              /\ b - (a - i) \in 1 .. b - 1
    OBVIOUS
  <2>4. /\ Len(c.stk) # 0
        /\ (Len(c.stk) - 1) - ((Len(c.stack) - 1) - i) = at
        /\ at \in 1 .. Len(c.stk) - 1
    BY <1>2, <2>1, <2>2, <2>3
  <2> HIDE DEF at
  <2>5. Len(d.stk) - (Len(d.stack) - i) = at /\ at \in 1 .. Len(d.stk) /\ d.stk[at] = t
    BY <1>1, <2>2, <2>4
  <2>6. LET z == Len(d.stk) - (Len(d.stack) - i) IN z \in 1 .. Len(d.stk) /\ d.stk[z] = t
    BY <2>5
  <2>7. Good(d)
    BY <1>1
  <2> QED
    BY <2>6, <2>7, BeneathIs
<1> QED
  BY <1>3, <1>4

-----------------------------------------------------------------------------
(* Gathering operands *)

\* A register that has v, or one that is free.
LEMMA PickIs ==
    ASSUME NEW c, Good(c), NEW v \in Vars, NEW p \in Pick(c, v)
    PROVE  /\ Good(p.c) /\ p.r \in Regs /\ p.c.lock = c.lock
           /\ p.c = c \/ \E r \in Regs \ c.lock : p.c = Evict(c, r) /\ p.r = r
           /\ Holding(c, v) # {} => p.c = c /\ c.desc[p.r] = v
           /\ Holding(c, v) = {} => p.c.desc[p.r] = NoVar /\ p.r \notin c.lock
           /\ Holding(p.c, v) \subseteq {p.r}
<1> DEFINE clean == {r \in Regs : ~c.dirty[r] /\ r \notin c.lock}
<1>1. Good(p.c) /\ p.r \in Regs /\ p.c.lock = c.lock /\ Holding(p.c, v) \subseteq {p.r}
  BY PickGood
<1>2. CASE Holding(c, v) # {}
  <2>1. p.c = c /\ p.r \in Final(Holding(c, v))
    BY <1>2 DEF Pick
  <2>2. c.desc[p.r] = v
    BY <2>1 DEF Final, Holding
  <2> QED
    BY <1>1, <1>2, <2>1, <2>2
<1>3. CASE Holding(c, v) = {} /\ clean # {}
  <2>1. p.c = c /\ p.r \in First(clean)
    BY <1>3 DEF Pick
  <2>2. ~c.dirty[p.r] /\ p.r \notin c.lock
    BY <2>1 DEF First
  <2> QED
    BY <1>1, <1>3, <2>1, <2>2 DEF Good, Coherent
<1>4. CASE Holding(c, v) = {} /\ clean = {}
  <2>1. PICK r \in Regs \ c.lock : p = [r |-> r, c |-> Evict(c, r)]
    BY <1>4 DEF Pick
  <2>2. p.c = Evict(c, r) /\ p.r = r
    BY <2>1
  <2>3. Evict(c, r).desc[r] = NoVar
    BY DEF Evict, Flush, Unmap, Push, Good, Config
  <2> QED
    BY <1>1, <1>4, <2>1, <2>2, <2>3
<1> QED
  BY <1>2, <1>3, <1>4

LEMMA PickKeeps ==
    ASSUME NEW c, Good(c), NEW v \in Vars, NEW p \in Pick(c, v), NEW t \in Temps
    PROVE  Keeps(c, p.c, t)
<1>1. p.c = c \/ \E r \in Regs \ c.lock : p.c = Evict(c, r)
  BY PickIs
<1>2. \A r \in Regs : Keeps(c, Evict(c, r), t)
  BY EvictKeeps
<1> QED
  BY <1>1, <1>2, KeepsSelf

\* What picking leaves alone: the registers that are locked.
LEMMA PickLocked ==
    ASSUME NEW c, Good(c), NEW v \in Vars, NEW p \in Pick(c, v), NEW x \in c.lock
    PROVE  p.c.desc[x] = c.desc[x] /\ p.c.reg[x] = c.reg[x]
<1>0. x \in Regs
  BY DEF Good, Config
<1>1. p.c = c \/ \E r \in Regs \ c.lock : p.c = Evict(c, r)
  BY PickIs
<1>2. ASSUME NEW r \in Regs \ c.lock
      PROVE  Evict(c, r).desc[x] = c.desc[x] /\ Evict(c, r).reg[x] = c.reg[x]
  BY <1>0 DEF Evict, Flush, Unmap, Push, Good, Config
<1> QED
  BY <1>1, <1>2

\* fillReg of a temporary that is in no register finds it in the mirror.
LEMMA FillTempIs ==
    ASSUME NEW c, Good(c), NEW v \in Temps, NEW r \in Regs, Holding(c, v) = {},
           NEW d, d = FillTemp(c, v, r)
    PROVE  /\ Good(d) /\ d.desc = c.desc /\ \A x \in Regs : x # r => d.reg[x] = c.reg[x]
           /\ Mirrors(d, v) \subseteq Mirrors(c, v)
           /\ AllRight(c, v) => \A i \in Mirrors(d, v) : Beneath(d, i) = v
           /\ TopRight(c, v) /\ Mirrors(c, v) # {} => d.reg[r] = v
           /\ \A t \in Temps : t # v /\ c.desc[r] # t => Keeps(c, d, t)
<1>1. v \in Vars
  BY NamedVars
<1>4. \A ok \in BOOLEAN : Good(Loaded(c, v, r, ok))
  BY <1>1 DEF Loaded, Good, Config, Coherent, Tags
<1>2. CASE Mirrors(c, v) = {}
  <2>1. d = c
    BY <1>2 DEF FillTemp
  <2> QED
    BY <1>2, <2>1, KeepsSelf
<1>3. CASE Mirrors(c, v) # {}
  <2>1. PICK m \in Mirrors(c, v) : Final(Mirrors(c, v)) = {m}
    BY <1>3, MirrorsIn, FinalIs
  <2>2. TopRight(c, v) => Beneath(c, m) = v
    BY <2>1 DEF TopRight
  <2>3. CASE Len(c.stack) \in Mirrors(c, v)
    <3>1. d = Pop(c, v, r)
      BY <1>3, <2>3 DEF FillTemp
    <3>2. Len(c.stack) # 0
      BY <2>3, MirrorsIn
    <3>3. m = Len(c.stack)
      <4>1. Len(c.stack) <= m
        BY <2>1, <2>3 DEF Final
      <4>2. m \in 1 .. Len(c.stack) /\ Len(c.stack) \in Nat
        BY <2>1, MirrorsIn
      <4> QED
        BY <4>1, <4>2
    <3>4. /\ Good(d) /\ d.desc = c.desc /\ \A x \in Regs : x # r => d.reg[x] = c.reg[x]
          /\ Beneath(c, Len(c.stack)) = v => d.reg[r] = v
      BY <1>1, <3>1, <3>2, PopIs
    <3>5. \A t \in Temps :
             /\ Mirrors(d, t) = Mirrors(c, t) \ {Len(c.stack)}
             /\ \A i \in Mirrors(d, t) : Beneath(c, i) = t => Beneath(d, i) = t
      BY <1>1, <3>1, <3>2, BeneathPopped
    <3>6. \A i \in Mirrors(c, v) : AllRight(c, v) => Beneath(c, i) = v
      BY DEF AllRight
    <3>7. ASSUME NEW t \in Temps, t # v, c.desc[r] # t
          PROVE  Keeps(c, d, t)
      <4>1. Mirrors(d, t) = Mirrors(c, t)
        <5>1. Len(c.stack) \notin Mirrors(c, t)
          BY <2>3, <3>7 DEF Mirrors
        <5>2. Mirrors(d, t) = Mirrors(c, t) \ {Len(c.stack)}
          BY <3>5
        <5> QED
          BY <5>1, <5>2
      <4>2. Holding(d, t) = Holding(c, t)
        BY <3>4 DEF Holding
      <4>3. RegRight(c, t) => RegRight(d, t)
        BY <3>4, <3>7 DEF RegRight
      <4>4. Final(Mirrors(c, t)) \subseteq Mirrors(c, t)
        BY DEF Final
      <4>5. \A i \in Mirrors(c, t) : Beneath(c, i) = t => Beneath(d, i) = t
        BY <3>5, <4>1
      <4> QED
        BY <3>4, <4>1, <4>2, <4>3, <4>4, <4>5
           DEF Keeps, Absent, Covered, TopRight, AllRight
    <3> QED
      BY <2>2, <3>3, <3>4, <3>5, <3>6, <3>7
  <2>4. CASE Len(c.stack) \notin Mirrors(c, v)
    <3> DEFINE ok == \E i \in Final(Mirrors(c, v)) : Beneath(c, i) = v
    <3>1. d = Loaded(c, v, r, ok) /\ ok \in BOOLEAN
      BY <1>3, <2>4 DEF FillTemp
    <3>2. TopRight(c, v) => ok
      BY <2>1, <2>2
    <3> HIDE DEF ok
    <3>3. /\ d.desc = c.desc /\ \A x \in Regs : x # r => d.reg[x] = c.reg[x]
          /\ d.stack = c.stack /\ d.stk = c.stk /\ (ok => d.reg[r] = v)
      BY <3>1 DEF Loaded, Good, Config
    <3>4. Good(d)
      BY <3>1, <1>4
    <3>5. Mirrors(d, v) = Mirrors(c, v) /\ \A i : Beneath(d, i) = Beneath(c, i)
      BY <3>3 DEF Mirrors, Beneath
    <3>6. AllRight(c, v) => \A i \in Mirrors(d, v) : Beneath(d, i) = v
      BY <3>5 DEF AllRight
    <3>7. \A t \in Temps : t # v /\ c.desc[r] # t => Keeps(c, d, t)
      BY <1>1, <3>1, LoadedKeeps
    <3> QED
      BY <3>2, <3>3, <3>4, <3>5, <3>6, <3>7
  <2> QED
    BY <2>3, <2>4
<1> QED
  BY <1>2, <1>3

\* fillReg of r, where v is or where nothing is mapped.
LEMMA FillIs ==
    ASSUME NEW c, Good(c), NEW v \in Vars, NEW r \in Regs,
           c.desc[r] \in {v, NoVar}, Holding(c, v) \subseteq {r},
           NEW d, d = Fill(c, v, r)
    PROVE  /\ Good(d) /\ d.desc = c.desc /\ \A x \in Regs : x # r => d.reg[x] = c.reg[x]
           /\ v \in Consts => d.reg[r] = v
           /\ Holding(c, v) # {} /\ c.reg[r] = v => d.reg[r] = v
           /\ \A t \in Temps : t # v => Keeps(c, d, t)
           /\ v \in Temps =>
                 /\ Mirrors(d, v) \subseteq Mirrors(c, v)
                 /\ AllRight(c, v) => \A i \in Mirrors(d, v) : Beneath(d, i) = v
                 /\ TopRight(c, v) /\ Covered(c, v) => d.reg[r] = v
<1>1. Good(d) /\ d.desc = c.desc
  BY FillGood
<1>2. \A t \in Temps : t # v => c.desc[r] # t
  BY NamedVars
<1>3. ASSUME NEW ok \in BOOLEAN, d = Loaded(c, v, r, ok), v \notin Temps
      PROVE  /\ \A x \in Regs : x # r => d.reg[x] = c.reg[x]
             /\ \A t \in Temps : t # v => Keeps(c, d, t)
             /\ ok => d.reg[r] = v
  <2>1. /\ \A x \in Regs : x # r => d.reg[x] = c.reg[x]
        /\ ok => d.reg[r] = v
    BY <1>3 DEF Loaded, Good, Config
  <2>2. \A t \in Temps : t # v => Keeps(c, d, t)
    BY <1>2, <1>3, LoadedKeeps
  <2> QED
    BY <2>1, <2>2
<1>4. CASE v \in Consts
  <2>1. v \notin Arrays /\ v \notin Scalars /\ v \notin Temps
    BY <1>4, VarsAssumption
  <2>2. d = Loaded(c, v, r, TRUE) /\ TRUE \in BOOLEAN
    BY <1>4, <2>1 DEF Fill
  <2> QED
    BY <1>1, <1>3, <2>1, <2>2
<1>5. CASE v \notin Consts /\ Holding(c, v) # {}
  <2>1. Holding(c, v) = {r}
    BY <1>5
  <2>2. r \in Final(Holding(c, v))
    BY <2>1 DEF Final, Regs
  <2>3. d = c
    BY <1>5, <2>2 DEF Fill
  <2>4. c.desc[r] = v
    BY <2>1 DEF Holding
  <2>5. v \in Temps => /\ AllRight(c, v) => \A i \in Mirrors(d, v) : Beneath(d, i) = v
                       /\ TopRight(c, v) => d.reg[r] = v
    BY <2>3, <2>4 DEF AllRight, TopRight, RegRight
  <2> QED
    BY <1>1, <1>5, <2>3, <2>5, KeepsSelf
<1>6. CASE v \notin Consts /\ Holding(c, v) = {} /\ v \notin Temps
  <2>1. v \in Arrays \/ v \in Scalars
    BY <1>6 DEF Vars
  <2>2. \E ok \in BOOLEAN : d = Loaded(c, v, r, ok)
    <3>1. CASE v \in Arrays
      <4>1. v \notin Scalars
        BY <3>1, VarsAssumption
      <4>2. d = Loaded(c, v, r, TRUE)
        BY <1>6, <3>1, <4>1 DEF Fill
      <4> QED
        BY <4>2
    <3>2. CASE v \in Scalars
      <4>1. v \notin Arrays
        BY <3>2, VarsAssumption
      <4>2. d = Loaded(c, v, r, v \in c.mem)
        BY <1>6, <3>2, <4>1 DEF Fill
      <4>3. d \in {Loaded(c, v, r, TRUE), Loaded(c, v, r, FALSE)}
        BY <4>2 DEF Loaded
      <4> QED
        BY <4>3
    <3> QED
      BY <2>1, <3>1, <3>2
  <2>3. PICK ok \in BOOLEAN : d = Loaded(c, v, r, ok)
    BY <2>2
  <2>4. /\ \A x \in Regs : x # r => d.reg[x] = c.reg[x]
        /\ \A t \in Temps : t # v => Keeps(c, d, t)
    BY <1>3, <1>6, <2>3
  <2> QED
    BY <1>1, <1>6, <2>4
<1>7. CASE v \notin Consts /\ Holding(c, v) = {} /\ v \in Temps
  <2>1. v \notin Arrays /\ v \notin Scalars
    BY <1>7, VarsAssumption
  <2>2. d = FillTemp(c, v, r)
    BY <1>7, <2>1 DEF Fill
  <2>3. /\ Good(d) /\ d.desc = c.desc /\ \A x \in Regs : x # r => d.reg[x] = c.reg[x]
        /\ Mirrors(d, v) \subseteq Mirrors(c, v)
        /\ AllRight(c, v) => \A i \in Mirrors(d, v) : Beneath(d, i) = v
        /\ TopRight(c, v) /\ Mirrors(c, v) # {} => d.reg[r] = v
        /\ \A t \in Temps : t # v /\ c.desc[r] # t => Keeps(c, d, t)
    BY <1>7, <2>2, FillTempIs
  <2> QED
    BY <1>2, <1>7, <2>3 DEF Covered
<1> QED
  BY <1>4, <1>5, <1>6, <1>7

\* An operand can be found: the copy that fillReg would read is right.
Findable(c, v) == v \in Temps => TopRight(c, v) /\ Covered(c, v)

LEMMA OperandIs ==
    ASSUME NEW c, Good(c), NEW v \in Vars, NEW p \in Operand(c, v)
    PROVE  /\ p.c.desc[p.r] = v
           /\ Holding(c, v) # {} => c.desc[p.r] = v
           /\ \A x \in c.lock : /\ p.c.desc[x] = c.desc[x]
                                /\ c.reg[x] = c.desc[x] => p.c.reg[x] = c.desc[x]
           /\ \A t \in Temps : t # v => Keeps(c, p.c, t)
           /\ v \in Consts => p.c.reg[p.r] = v
           /\ v \in Temps =>
                 /\ Mirrors(c, v) = {} => Mirrors(p.c, v) = {}
                 /\ TopRight(c, v) /\ Covered(c, v) => p.c.reg[p.r] = v
                 /\ AllRight(c, v) => \A i \in Mirrors(p.c, v) : Beneath(p.c, i) = v
<1>1. PICK q \in Pick(c, v) :
         p = [r |-> q.r, c |-> Insert(Fill(Lock(q.c, q.r), v, q.r), v, q.r)]
  BY DEF Operand
<1>2. /\ Good(q.c) /\ q.r \in Regs
      /\ q.c = c \/ \E r \in Regs \ c.lock : q.c = Evict(c, r) /\ q.r = r
      /\ Holding(c, v) # {} => q.c = c /\ c.desc[q.r] = v
      /\ Holding(c, v) = {} => q.c.desc[q.r] = NoVar /\ q.r \notin c.lock
      /\ Holding(q.c, v) \subseteq {q.r}
  BY PickIs
<1>3. q.c.desc[q.r] \in {v, NoVar}
  BY <1>2
<1>4. v # NoVar
  BY NamedVars
<1> DEFINE k == Lock(q.c, q.r)
           g == Fill(k, v, q.r)
           d == Insert(g, v, q.r)
<1>5. /\ Good(k) /\ k.desc = q.c.desc /\ k.reg = q.c.reg
      /\ k.stack = q.c.stack /\ k.stk = q.c.stk
  BY <1>2 DEF Lock, Good, Config, Coherent
<1>6. p.r = q.r /\ p.c = d
  BY <1>1
<1>7. \A t \in Temps : Keeps(q.c, k, t)
  BY <1>2, LockKeeps
<1> HIDE DEF k
<1>8. k.desc[q.r] \in {v, NoVar} /\ Holding(k, v) = Holding(q.c, v) /\ Holding(k, v) \subseteq {q.r}
  BY <1>2, <1>3, <1>5 DEF Holding
<1>9. /\ Good(g) /\ g.desc = k.desc /\ \A x \in Regs : x # q.r => g.reg[x] = k.reg[x]
      /\ v \in Consts => g.reg[q.r] = v
      /\ Holding(k, v) # {} /\ k.reg[q.r] = v => g.reg[q.r] = v
      /\ \A t \in Temps : t # v => Keeps(k, g, t)
      /\ v \in Temps =>
            /\ Mirrors(g, v) \subseteq Mirrors(k, v)
            /\ AllRight(k, v) => \A i \in Mirrors(g, v) : Beneath(g, i) = v
            /\ TopRight(k, v) /\ Covered(k, v) => g.reg[q.r] = v
  <2>1. g = Fill(k, v, q.r)
    OBVIOUS
  <2> HIDE DEF g
  <2> QED
    BY <1>2, <1>5, <1>8, <2>1, FillIs
<1> HIDE DEF g
<1>10. /\ d.desc = [g.desc EXCEPT ![q.r] = v] /\ d.reg = g.reg
       /\ d.stack = g.stack /\ d.stk = g.stk /\ g.desc \in [Regs -> Vars \cup {NoVar}]
  BY <1>9 DEF Insert, Good, Config
<1>11. \A t \in Temps : t # v => Keeps(g, d, t)
  <2>1. Holding(g, v) \subseteq {q.r} /\ g.desc[q.r] \in {v, NoVar}
    BY <1>8, <1>9 DEF Holding
  <2>2. \A t \in Temps : t # v => g.desc[q.r] # t
    BY <2>1, NamedVars
  <2> QED
    BY <1>2, <1>9, <2>1, <2>2, InsertKeeps
<1> HIDE DEF d
<1>12. \A t \in Temps : t # v => Keeps(c, p.c, t)
  <2> SUFFICES ASSUME NEW t \in Temps, t # v PROVE Keeps(c, d, t)
    BY <1>6
  <2>1. Keeps(c, q.c, t)
    BY PickKeeps
  <2>2. Keeps(c, k, t)
    BY <1>7, <2>1, KeepsThrough
  <2>3. Keeps(c, g, t)
    BY <1>9, <2>2, KeepsThrough
  <2> QED
    BY <1>11, <2>3, KeepsThrough
<1>13. p.c.desc[p.r] = v
  BY <1>2, <1>6, <1>10
<1>14. Holding(c, v) # {} => c.desc[p.r] = v
  BY <1>2, <1>6
<1>15. ASSUME NEW x \in c.lock
       PROVE  /\ p.c.desc[x] = c.desc[x]
              /\ c.reg[x] = c.desc[x] => p.c.reg[x] = c.desc[x]
  <2>1. x \in Regs
    BY DEF Good, Config
  <2>2. q.c.desc[x] = c.desc[x] /\ q.c.reg[x] = c.reg[x]
    BY PickLocked
  <2>3. CASE x # q.r
    BY <1>5, <1>6, <1>9, <1>10, <2>1, <2>2, <2>3
  <2>4. CASE x = q.r
    <3>1. Holding(c, v) # {} /\ c.desc[x] = v
      BY <1>2, <2>4
    <3>2. Holding(k, v) # {}
      BY <1>8, <2>1, <2>2, <3>1 DEF Holding
    <3> QED
      BY <1>2, <1>5, <1>6, <1>9, <1>10, <2>1, <2>2, <2>4, <3>1, <3>2
  <2> QED
    BY <2>3, <2>4
<1>16. v \in Consts => p.c.reg[p.r] = v
  BY <1>6, <1>9, <1>10
<1>17. ASSUME v \in Temps
       PROVE  /\ Mirrors(c, v) = {} => Mirrors(p.c, v) = {}
              /\ TopRight(c, v) /\ Covered(c, v) => p.c.reg[p.r] = v
              /\ AllRight(c, v) => \A i \in Mirrors(p.c, v) : Beneath(p.c, i) = v
  <2>1. Keeps(c, q.c, v) /\ Keeps(q.c, k, v)
    BY <1>7, <1>17, PickKeeps
  <2>2. Keeps(c, k, v)
    BY <2>1, KeepsThrough
  <2>3. Mirrors(d, v) = Mirrors(g, v) /\ \A i : Beneath(d, i) = Beneath(g, i)
    BY <1>10 DEF Mirrors, Beneath
  <2>4. Mirrors(c, v) = {} => Mirrors(k, v) = {}
    <3>1. Holding(c, v) # {} => k.stack = c.stack
      BY <1>2, <1>5
    <3>2. Holding(c, v) = {} /\ Mirrors(c, v) = {} => Mirrors(k, v) = {}
      BY <2>2 DEF Keeps, Absent
    <3> QED
      BY <3>1, <3>2 DEF Mirrors
  <2>5. TopRight(c, v) /\ Covered(c, v) => d.reg[q.r] = v
    BY <1>9, <1>10, <1>17, <2>2 DEF Keeps
  <2>6. AllRight(c, v) => \A i \in Mirrors(g, v) : Beneath(g, i) = v
    BY <1>9, <1>17, <2>2 DEF Keeps
  <2>7. Mirrors(g, v) \subseteq Mirrors(k, v)
    BY <1>9, <1>17
  <2> QED
    BY <1>6, <2>3, <2>4, <2>5, <2>6, <2>7
<1> QED
  BY <1>12, <1>13, <1>14, <1>15, <1>16, <1>17

LEMMA OperandValue ==
    ASSUME NEW c, Settled(c), NEW v \in Vars, Findable(c, v), NEW p \in Operand(c, v)
    PROVE  p.c.reg[p.r] = v
<1>1. Good(c)
  BY DEF Settled, Truthful
<1>2. CASE v \in Named
  BY <1>2, OperandTruth DEF Settled, Truthful
<1>3. CASE v \in Consts
  BY <1>1, <1>3, OperandIs
<1>4. CASE v \in Temps
  BY <1>1, <1>4, OperandIs DEF Findable
<1> QED
  BY <1>2, <1>3, <1>4 DEF Named, Vars

\* The register of an operand is locked, so later operands leave it.
LEMMA OperandLocks ==
    ASSUME NEW c, Good(c), NEW v \in Vars, NEW p \in Operand(c, v)
    PROVE  Good(p.c) /\ p.r \in Regs /\ p.r \in p.c.lock /\ c.lock \subseteq p.c.lock
  BY OperandGood

LEMMA FindableKeeps ==
    ASSUME NEW c, NEW d, NEW v, v \in Temps => Keeps(c, d, v), Findable(c, v)
    PROVE  Findable(d, v)
  BY DEF Findable, Keeps

\* The two sources and the destination of a handler.
LEMMA GatherIs ==
    ASSUME Good(Cur), NEW x \in Vars, NEW y \in Vars, NEW z \in Vars, NEW p \in Gather(x, y, z)
    PROVE  /\ \A i \in 1 .. 3 : p.r[i] \in Regs
           /\ p.c.desc[p.r[1]] = x /\ p.c.desc[p.r[2]] = y /\ p.c.desc[p.r[3]] = z
           /\ \A t \in Temps : t \notin {x, y, z} => Keeps(Cur, p.c, t)
           /\ Good(p.c)
<1>1. PICK p1 \in Operand(Cur, x) : \E p2 \in Operand(p1.c, y) : \E p3 \in Operand(p2.c, z) :
         p = [r |-> <<p1.r, p2.r, p3.r>>, c |-> p3.c]
  BY DEF Gather
<1>2. PICK p2 \in Operand(p1.c, y) : \E p3 \in Operand(p2.c, z) :
         p = [r |-> <<p1.r, p2.r, p3.r>>, c |-> p3.c]
  BY <1>1
<1>3. PICK p3 \in Operand(p2.c, z) : p = [r |-> <<p1.r, p2.r, p3.r>>, c |-> p3.c]
  BY <1>2
<1>4. p.c = p3.c /\ p.r[1] = p1.r /\ p.r[2] = p2.r /\ p.r[3] = p3.r
  BY <1>3
<1>5. /\ Good(p1.c) /\ p1.r \in Regs /\ p1.r \in p1.c.lock /\ p1.c.desc[p1.r] = x
      /\ \A t \in Temps : t # x => Keeps(Cur, p1.c, t)
  BY OperandLocks, OperandIs
<1>6. /\ Good(p2.c) /\ p2.r \in Regs /\ p2.r \in p2.c.lock /\ p2.c.desc[p2.r] = y
      /\ p1.r \in p2.c.lock /\ p2.c.desc[p1.r] = x
      /\ \A t \in Temps : t # y => Keeps(p1.c, p2.c, t)
  BY <1>5, OperandLocks, OperandIs
<1>7. /\ Good(p3.c) /\ p3.r \in Regs /\ p3.c.desc[p3.r] = z
      /\ p3.c.desc[p1.r] = x /\ p3.c.desc[p2.r] = y
      /\ \A t \in Temps : t # z => Keeps(p2.c, p3.c, t)
  BY <1>6, OperandLocks, OperandIs
<1>8. ASSUME NEW t \in Temps, t \notin {x, y, z}
      PROVE  Keeps(Cur, p3.c, t)
  <2>1. Keeps(Cur, p1.c, t) /\ Keeps(p1.c, p2.c, t) /\ Keeps(p2.c, p3.c, t)
    BY <1>5, <1>6, <1>7, <1>8
  <2>2. Keeps(Cur, p2.c, t)
    BY <2>1, KeepsThrough
  <2> QED
    BY <2>1, <2>2, KeepsThrough
<1>9. \A i \in 1 .. 3 : p.r[i] \in Regs
  <2>1. \A i \in 1 .. 3 : i = 1 \/ i = 2 \/ i = 3
    OBVIOUS
  <2> QED
    BY <1>4, <1>5, <1>6, <1>7, <2>1
<1> QED
  BY <1>4, <1>7, <1>8, <1>9

\* ... are in their registers together.
LEMMA GatherValues ==
    ASSUME Settled(Cur), NEW x \in Vars, NEW y \in Vars, NEW z \in Vars,
           x \in Temps => x # y, Findable(Cur, x), Findable(Cur, y),
           NEW p \in Gather(x, y, z)
    PROVE  /\ p.c.reg[p.r[1]] = x /\ p.c.reg[p.r[2]] = y
           /\ z \in Named => p.c.reg[p.r[3]] = z
<1>1. PICK p1 \in Operand(Cur, x) : \E p2 \in Operand(p1.c, y) : \E p3 \in Operand(p2.c, z) :
         p = [r |-> <<p1.r, p2.r, p3.r>>, c |-> p3.c]
  BY DEF Gather
<1>2. PICK p2 \in Operand(p1.c, y) : \E p3 \in Operand(p2.c, z) :
         p = [r |-> <<p1.r, p2.r, p3.r>>, c |-> p3.c]
  BY <1>1
<1>3. PICK p3 \in Operand(p2.c, z) : p = [r |-> <<p1.r, p2.r, p3.r>>, c |-> p3.c]
  BY <1>2
<1>4. p.c = p3.c /\ p.r[1] = p1.r /\ p.r[2] = p2.r /\ p.r[3] = p3.r
  BY <1>3
<1>5. Settled(p1.c) /\ Settled(p2.c) /\ Settled(p3.c)
      /\ p1.c.desc[p1.r] = x /\ p2.c.desc[p2.r] = y
  <2>1. Settled(p1.c) /\ p1.c.desc[p1.r] = x
    BY OperandTruth
  <2>2. Settled(p2.c) /\ p2.c.desc[p2.r] = y
    BY <2>1, OperandTruth
  <2>3. Settled(p3.c)
    BY <2>2, OperandTruth
  <2> QED
    BY <2>1, <2>2, <2>3
<1>6. Good(Cur) /\ Good(p1.c) /\ Good(p2.c) /\ Good(p3.c)
  BY <1>5 DEF Settled, Truthful
<1>7. p1.c.reg[p1.r] = x /\ p1.r \in p1.c.lock
  BY <1>6, OperandValue, OperandLocks
<1>8. Findable(p1.c, y)
  <2>1. y \in Temps => Keeps(Cur, p1.c, y)
    BY <1>6, OperandIs
  <2> QED
    BY <2>1, FindableKeeps
<1>9. p2.c.reg[p2.r] = y /\ p2.r \in p2.c.lock
  BY <1>5, <1>6, <1>8, OperandValue, OperandLocks
<1>10. p2.c.reg[p1.r] = x /\ p2.c.desc[p1.r] = x /\ p1.r \in p2.c.lock
  <2>1. /\ p2.c.desc[p1.r] = p1.c.desc[p1.r]
        /\ p1.c.reg[p1.r] = p1.c.desc[p1.r] => p2.c.reg[p1.r] = p1.c.desc[p1.r]
    BY <1>6, <1>7, OperandIs
  <2> QED
    BY <1>5, <1>6, <1>7, <2>1, OperandLocks
<1>11. p3.c.reg[p1.r] = x /\ p3.c.reg[p2.r] = y
  <2>1. /\ p2.c.reg[p1.r] = p2.c.desc[p1.r] => p3.c.reg[p1.r] = p2.c.desc[p1.r]
        /\ p2.c.reg[p2.r] = p2.c.desc[p2.r] => p3.c.reg[p2.r] = p2.c.desc[p2.r]
    BY <1>6, <1>9, <1>10, OperandIs
  <2> QED
    BY <1>5, <1>9, <1>10, <2>1
<1>12. z \in Named => p3.c.reg[p3.r] = z
  BY <1>5, OperandTruth DEF Settled, Truthful
<1> QED
  BY <1>4, <1>11, <1>12

LEMMA GatherFresh ==
    ASSUME Good(Cur), NEW x \in Vars, NEW y \in Vars, NEW z \in Temps, z \notin {x, y},
           Absent(Cur, z), NEW p \in Gather(x, y, z)
    PROVE  Mirrors(p.c, z) = {}
<1>1. PICK p1 \in Operand(Cur, x) : \E p2 \in Operand(p1.c, y) : \E p3 \in Operand(p2.c, z) :
         p = [r |-> <<p1.r, p2.r, p3.r>>, c |-> p3.c]
  BY DEF Gather
<1>2. PICK p2 \in Operand(p1.c, y) : \E p3 \in Operand(p2.c, z) :
         p = [r |-> <<p1.r, p2.r, p3.r>>, c |-> p3.c]
  BY <1>1
<1>3. PICK p3 \in Operand(p2.c, z) : p = [r |-> <<p1.r, p2.r, p3.r>>, c |-> p3.c]
  BY <1>2
<1>4. p.c = p3.c /\ z \in Vars
  BY <1>3, NamedVars
<1>5. Good(p1.c) /\ Absent(p1.c, z)
  <2>1. Keeps(Cur, p1.c, z)
    BY OperandIs
  <2> QED
    BY <2>1, OperandLocks DEF Keeps
<1>6. Good(p2.c) /\ Absent(p2.c, z)
  <2>1. Keeps(p1.c, p2.c, z)
    BY <1>5, OperandIs
  <2> QED
    BY <1>5, <2>1, OperandLocks DEF Keeps
<1>7. Mirrors(p3.c, z) = {}
  BY <1>4, <1>6, OperandIs DEF Absent
<1> QED
  BY <1>4, <1>7

\* A temporary that has just been defined is in its register.
LEMMA DefineIs ==
    ASSUME NEW c, Good(c), NEW v \in Temps, NEW r \in Regs, c.desc[r] = v
    PROVE  LET d == Define(c, v, r)
           IN  /\ Good(d) /\ d.desc = c.desc
               /\ Holding(d, v) = {r} /\ Mirrors(d, v) = Mirrors(c, v)
               /\ TopRight(d, v) /\ Covered(d, v)
               /\ Mirrors(c, v) = {} => AllRight(d, v)
<1> DEFINE d == Define(c, v, r)
<1>1. v \in Vars /\ v # NoVar
  BY NamedVars
<1>2. Good(d)
  BY <1>1, DefineGood
<1>3. d.desc = c.desc /\ d.stack = c.stack /\ d.reg[r] = v
  BY DEF Define, Good, Config
<1> HIDE DEF d
<1>4. Holding(d, v) = {r}
  BY <1>1, <1>2, <1>3 DEF Holding, Good, Coherent
<1>5. Mirrors(d, v) = Mirrors(c, v)
  BY <1>3 DEF Mirrors
<1>6. RegRight(d, v)
  BY <1>3, <1>4 DEF RegRight, Holding
<1>7. TopRight(d, v) /\ Covered(d, v) /\ (Mirrors(c, v) = {} => AllRight(d, v))
  BY <1>4, <1>5, <1>6 DEF TopRight, Covered, AllRight
<1> QED
  BY <1>2, <1>3, <1>4, <1>5, <1>7 DEF d

LEMMA RetireHolds ==
    ASSUME NEW c, Good(c), NEW T, NEW t \in Temps, t \notin T
    PROVE  /\ Holding(Retire(c, T), t) = Holding(c, t)
           /\ Mirrors(Retire(c, T), t) = Mirrors(c, t)
<1> DEFINE d == Discard(c, T)
<1>1. d = Discard(c, T)
  OBVIOUS
<1> HIDE DEF d
<1>2. Good(d) /\ \A r \in Regs : d.desc[r] = IF c.desc[r] \in T THEN NoVar ELSE c.desc[r]
  BY <1>1, DiscardIs
<1>3. Mirrors(d, t) = Mirrors(c, t)
  BY <1>1, DiscardKeeps
<1>4. Holding(d, t) = Holding(c, t)
  BY <1>2, NamedVars DEF Holding
<1>5. Mirrors(Forget(d, T), t) = Mirrors(d, t) /\ Forget(d, T).desc = d.desc
  <2>1. Mirrors(Forget(d, T), t) = Mirrors(d, t)
    BY <1>2, ForgetKeeps
  <2>2. Forget(d, T).desc = d.desc
    BY <1>2 DEF Forget, Good, Config
  <2> QED
    BY <2>1, <2>2
<1>6. Retire(c, T) = Forget(d, T)
  BY <1>1 DEF Retire
<1> QED
  BY <1>3, <1>4, <1>5, <1>6 DEF Holding

\* What a handler does once its instruction is out: its constants are discarded,
\* and the temporaries that are not mentioned any more.
LEMMA FinishedKeeps ==
    ASSUME NEW c, Good(c), NEW x \in Vars, NEW r1 \in Regs, c.desc[r1] = x,
           NEW y \in Vars, NEW r2 \in Regs, c.desc[r2] = y, NEW T, NEW t \in Temps
    PROVE  LET f == Retire(DiscardConst(DiscardConst(c, x, r1), y, r2), T)
           IN  Good(f) /\ (t \notin T => Keeps(c, f, t)) /\ (t \in T => Absent(f, t))
<1> DEFINE d == DiscardConst(c, x, r1)
           e == DiscardConst(d, y, r2)
<1>1. Good(d) /\ Keeps(c, d, t)
  <2>1. x \in Consts => c.desc[r1] \notin Temps
    BY VarsAssumption
  <2> QED
    BY <2>1, DiscardConstGood, DiscardConstKeeps
<1>2. d.desc[r2] \in {y, NoVar}
  BY DEF DiscardConst, Unmap, Good, Config
<1> HIDE DEF d
<1>3. Good(e) /\ Keeps(d, e, t)
  <2>1. y \in Consts => d.desc[r2] \notin Temps
    BY <1>2, NamedVars, VarsAssumption
  <2> QED
    BY <1>1, <2>1, DiscardConstGood, DiscardConstKeeps
<1> HIDE DEF e
<1>4. /\ Good(Retire(e, T)) /\ (t \notin T => Keeps(e, Retire(e, T), t))
      /\ (t \in T => Absent(Retire(e, T), t))
  BY <1>3, RetireGood, RetireKeeps
<1>5. t \notin T => Keeps(c, Retire(e, T), t)
  BY <1>1, <1>3, <1>4, KeepsThrough
<1> QED
  BY <1>4, <1>5 DEF e, d

-----------------------------------------------------------------------------
(* The inductive invariant *)

\* A temporary that is not pending is nowhere; the 0/1 idiom keeps its own in a
\* register from its first definition to the second.
TempInv ==
    /\ acc \subseteq pending
    /\ ~inFunc => pending = {} /\ sent = <<>> /\ jstep = 0
                  /\ \A l \in Labels : awaited[l] = NotYet
    /\ jstep = 0 => join = NoVar
    /\ jstep \in {1, 2, 4} => join \in pending
    /\ jstep = 3 => join \notin pending /\ Mirrors(Cur, join) = {}
    /\ jstep \in 1 .. 3 => Holding(Cur, join) # {}
    /\ \A t \in Temps : t \notin pending \cup {join} => Absent(Cur, t)
    /\ sent # <<>> => \A i \in DOMAIN sent : sent[i] \notin pending

\* One that is pending can be found.  While the path jumps to a label, the
\* registers that the label's code will read keep what they held at the jump.
ValueInv ==
    /\ \A t \in pending : Covered(Cur, t)
    /\ flight = NoFlight =>
          \A t \in pending : TopRight(Cur, t) /\ (t \notin acc => AllRight(Cur, t))
    /\ flight \in Labels =>
          awaited[flight] # NotYet /\ \A t \in awaited[flight] : RegRight(Cur, t)
    /\ ~misread

\* The parameters passed so far, and the result on its way to the end.
ArgInv ==
    /\ sent = <<>> => out = <<>>
    /\ flight = NoFlight =>
          /\ \A i \in DOMAIN sent : i <= NumArgRegs => reg[i - 1] = sent[i]
          /\ Len(out) = IF Len(sent) <= NumArgRegs THEN 0 ELSE Len(sent) - NumArgRegs
          /\ \A j \in DOMAIN out : out[j] = [val |-> sent[j + NumArgRegs], at |-> Len(stk)]
    /\ returned # NoVar => flight = EndLabel /\ reg[0] = returned

\* A label placed while a pending temporary is on the stack loses it.
Lossless == ~LabelsMayForget

FlowInv == TempInv /\ (Lossless => ValueInv /\ ArgInv)

LEMMA InitFlow == Init => FlowInv
<1> SUFFICES ASSUME Init PROVE FlowInv
  OBVIOUS
<1>1. \A t \in Temps : Absent(Cur, t)
  BY NamedVars DEF Init, Absent, Holding, Mirrors, Cur
<1>2. jstep = 0 /\ ~(jstep \in {1, 2, 4}) /\ jstep # 3 /\ ~(jstep \in 1 .. 3)
  BY DEF Init
<1>3. TempInv
  BY <1>1, <1>2 DEF Init, TempInv
<1>4. flight \notin Labels
  BY VarsAssumption DEF Init
<1>5. ValueInv
  BY <1>4 DEF Init, ValueInv
<1>6. ArgInv
  BY RegsAssumption DEF Init, ArgInv
<1> QED
  BY <1>3, <1>5, <1>6 DEF FlowInv

\* The views of the configuration an action ends in.
LEMMA BecomeViews ==
    ASSUME AllocInv, NEW f, Become(f), NEW t
    PROVE  /\ Holding(Cur', t) = Holding(f, t) /\ Mirrors(Cur', t) = Mirrors(f, t)
           /\ flight = NoFlight =>
                 /\ RegRight(f, t) => RegRight(Cur', t)
                 /\ TopRight(f, t) => TopRight(Cur', t)
                 /\ AllRight(f, t) => AllRight(Cur', t)
           /\ flight # NoFlight => reg' = reg
<1> PICK w : w = Cur'
  OBVIOUS
<1>1. /\ w.desc = f.desc /\ w.stack = f.stack
      /\ flight = NoFlight => w.reg = f.reg /\ w.stk = f.stk
      /\ flight # NoFlight => reg' = reg
  BY DEF Become, Cur, machVars
<1>2. Holding(w, t) = Holding(f, t) /\ Mirrors(w, t) = Mirrors(f, t)
  BY <1>1 DEF Holding, Mirrors
<1>3. ASSUME flight = NoFlight
      PROVE  /\ RegRight(f, t) => RegRight(w, t)
             /\ TopRight(f, t) => TopRight(w, t)
             /\ AllRight(f, t) => AllRight(w, t)
  <2>1. \A i : Beneath(w, i) = Beneath(f, i)
    BY <1>1, <1>3 DEF Beneath
  <2>2. RegRight(f, t) => RegRight(w, t)
    BY <1>1, <1>3 DEF RegRight
  <2> QED
    BY <1>2, <2>1, <2>2 DEF TopRight, AllRight
<1> QED
  BY <1>1, <1>2, <1>3

\* What a handler does to the temporaries: those used are gone, those defined
\* are somewhere, the others are kept.
Effect(f, used, defs) ==
    /\ \A t \in Temps : t \notin used \cup defs => Keeps(Cur, f, t)
    /\ \A t \in used \ defs : Absent(f, t)
    /\ \A t \in defs : Covered(f, t)

LEMMA StepTemps ==
    ASSUME Inv, TempInv, NEW f, Become(f), NEW used \in SUBSET Temps, NEW defs \in SUBSET Temps,
           Consume(used, defs), Effect(f, used, defs), join' = join \/ join = NoVar
    PROVE  /\ acc' \subseteq pending'
           /\ \A t \in Temps : t \notin pending' \cup {join'} => Absent(Cur', t)
<1>1. acc' \subseteq pending'
  BY DEF TempInv, Consume
<1>2. ASSUME NEW t \in Temps, t \notin pending' \cup {join'}
      PROVE  Absent(Cur', t)
  <2>1. t \notin defs /\ (t \in used \/ t \notin pending \cup {join})
    BY <1>2, NamedVars DEF Consume
  <2>2. Absent(f, t)
    <3>1. CASE t \in used
      BY <2>1, <3>1 DEF Effect
    <3>2. CASE t \notin used
      <4>1. Absent(Cur, t)
        BY <2>1, <3>2 DEF TempInv
      <4>2. Keeps(Cur, f, t)
        BY <2>1, <3>2 DEF Effect
      <4> QED
        BY <4>1, <4>2 DEF Keeps
    <3> QED
      BY <3>1, <3>2
  <2>3. Holding(Cur', t) = Holding(f, t) /\ Mirrors(Cur', t) = Mirrors(f, t)
    BY BecomeViews DEF Inv
  <2>4. PICK w : w = Cur'
    OBVIOUS
  <2>5. Absent(w, t)
    BY <2>2, <2>3, <2>4 DEF Absent
  <2> QED
    BY <2>4, <2>5
<1> QED
  BY <1>1, <1>2

\* The path goes on, or jumps to a label that the pending temporaries await.
Onward ==
    \/ flight' = flight /\ (flight \in Labels => awaited'[flight] = awaited[flight])
    \/ /\ flight = NoFlight /\ flight' \in Labels
       /\ awaited'[flight'] \in SUBSET Temps /\ awaited'[flight'] \subseteq pending'
    \/ flight' \notin Labels \cup {NoFlight}

LEMMA StepValues ==
    ASSUME Inv, TempInv, ValueInv, NEW f, Become(f),
           NEW used \in SUBSET Temps, NEW defs \in SUBSET Temps,
           Consume(used, defs), Effect(f, used, defs), Onward, ~misread',
           flight = NoFlight =>
              \A t \in defs : TopRight(f, t) /\ (t \notin used => AllRight(f, t)),
           \A t \in defs : t \in Awaited =>
              \A r \in Regs : f.desc[r] = t => regDescriptor[r] = t
    PROVE  ValueInv'
<1>1. PICK w : w = Cur'
  OBVIOUS
<1>2. \A t : /\ Holding(w, t) = Holding(f, t) /\ Mirrors(w, t) = Mirrors(f, t)
             /\ flight = NoFlight =>
                   /\ RegRight(f, t) => RegRight(w, t)
                   /\ TopRight(f, t) => TopRight(w, t)
                   /\ AllRight(f, t) => AllRight(w, t)
  BY <1>1, BecomeViews DEF Inv
<1>3. pending' = (pending \ used) \cup defs /\ acc' = (acc \ used) \cup (defs \cap used)
  BY DEF Consume
<1>a. pending' \subseteq Temps
  BY <1>3 DEF Inv, TacInv
<1>4. ASSUME NEW t \in pending' PROVE Covered(w, t)
  <2>1. Covered(f, t)
    <3>1. CASE t \in defs
      BY <3>1 DEF Effect
    <3>2. CASE t \notin defs
      <4>1. t \in pending /\ t \in Temps /\ t \notin used \cup defs
        BY <1>3, <1>a, <3>2
      <4> QED
        BY <4>1 DEF Effect, ValueInv, Keeps
    <3> QED
      BY <3>1, <3>2
  <2> QED
    BY <1>2, <2>1 DEF Covered
<1>5. ASSUME flight = NoFlight, NEW t \in pending'
      PROVE  TopRight(w, t) /\ (t \notin acc' => AllRight(w, t))
  <2>1. TopRight(f, t) /\ (t \notin acc' => AllRight(f, t))
    <3>1. CASE t \in defs
      BY <1>3, <1>5, <3>1
    <3>2. CASE t \notin defs
      <4>1. t \in pending /\ t \in Temps /\ t \notin used \cup defs
        BY <1>3, <1>a, <3>2
      <4>2. t \notin acc' => t \notin acc
        BY <1>3, <4>1
      <4> QED
        BY <1>5, <4>1, <4>2 DEF Effect, ValueInv, Keeps
    <3> QED
      BY <3>1, <3>2
  <2> QED
    BY <1>2, <1>5, <2>1
<1>6. ASSUME flight' \in Labels
      PROVE  awaited'[flight'] # NotYet /\ \A t \in awaited'[flight'] : RegRight(w, t)
  <2>0. flight' # NoFlight
    BY <1>6, VarsAssumption
  <2>1. CASE flight' = flight
    <3>1. awaited'[flight'] = awaited[flight]
      BY <1>6, <2>0, <2>1 DEF Onward
    <3>2. flight \in Labels /\ awaited[flight] # NotYet
      BY <1>6, <2>1 DEF ValueInv
    <3>3. awaited[flight] \in SUBSET Temps /\ awaited[flight] \subseteq Awaited
      BY <3>2 DEF Inv, TacInv, Awaited
    <3>4. w.reg = reg /\ w.desc = f.desc
      BY <1>1, <2>0, <2>1, BecomeViews DEF Become, Cur, machVars
    <3>5. ASSUME NEW t \in awaited[flight], NEW r \in Regs, w.desc[r] = t
          PROVE  w.reg[r] = t
      <4>1. regDescriptor[r] = t
        <5>1. CASE t \in defs
          BY <3>3, <3>4, <3>5, <5>1
        <5>2. CASE t \in used \ defs
          BY <3>4, <3>5, <5>2 DEF Effect, Absent, Holding
        <5>3. CASE t \notin used \cup defs
          <6>1. Keeps(Cur, f, t)
            BY <3>3, <5>3 DEF Effect
          <6> QED
            BY <3>4, <3>5, <6>1 DEF Keeps, Cur
        <5> QED
          BY <5>1, <5>2, <5>3
      <4> QED
        BY <3>2, <3>4, <4>1 DEF ValueInv, RegRight, Cur
    <3> QED
      BY <3>1, <3>2, <3>5 DEF RegRight
  <2>2. CASE flight' # flight
    <3>1. /\ flight = NoFlight /\ awaited'[flight'] \in SUBSET Temps
          /\ awaited'[flight'] \subseteq pending'
      BY <1>6, <2>2 DEF Onward
    <3>2. \A t \in awaited'[flight'] : RegRight(w, t)
      BY <1>5, <3>1 DEF TopRight
    <3>3. NoVar \notin Temps
      BY NamedVars
    <3>4. awaited'[flight'] # NotYet
      BY <3>1, <3>3 DEF NotYet
    <3> QED
      BY <3>2, <3>4
  <2> QED
    BY <2>1, <2>2
<1>7. flight' = NoFlight => flight = NoFlight
  BY DEF Onward
<1> QED
  BY <1>1, <1>4, <1>5, <1>6, <1>7 DEF ValueInv

\* Outside of calls and returns.
LEMMA StepArgs ==
    ASSUME Inv, ArgInv, NEW f, Become(f), sent = <<>>, sent' = <<>>, out' = out,
           returned' = returned, flight = EndLabel => flight' = EndLabel
    PROVE  ArgInv'
<1>1. out' = <<>>
  BY DEF ArgInv
<1>2. DOMAIN sent' = {} /\ Len(sent') = 0 /\ DOMAIN out' = {} /\ Len(out') = 0
  BY <1>1
<1>3. returned' # NoVar => flight' = EndLabel /\ reg'[0] = returned'
  <2> SUFFICES ASSUME returned # NoVar PROVE flight' = EndLabel /\ reg'[0] = returned
    OBVIOUS
  <2>1. flight = EndLabel /\ reg[0] = returned /\ flight # NoFlight
    BY VarsAssumption DEF ArgInv
  <2>2. reg' = reg
    BY <2>1 DEF Become, machVars
  <2> QED
    BY <2>1, <2>2
<1> QED
  BY <1>1, <1>2, <1>3, RegsAssumption DEF ArgInv

\* The usual case: a handler outside of calls and of the 0/1 idiom.
LEMMA StepFlow ==
    ASSUME Inv, FlowInv, Quiet, sent' = sent, jstep' = jstep, join' = join, inFunc' = inFunc,
           out' = out, returned' = returned, flight = EndLabel => flight' = EndLabel,
           NEW f, Become(f), NEW used \in SUBSET Temps, NEW defs \in SUBSET Temps,
           Consume(used, defs), Effect(f, used, defs), Lossless => Onward, Lossless => ~misread',
           flight = NoFlight =>
              \A t \in defs : TopRight(f, t) /\ (t \notin used => AllRight(f, t)),
           defs \cap Awaited = {}
    PROVE  FlowInv'
<1>1. Lossless => ArgInv'
  BY StepArgs DEF FlowInv, Quiet
<1>2. Lossless => ValueInv'
  BY StepValues DEF FlowInv
<1>3. TempInv'
  <2>1. /\ acc' \subseteq pending'
        /\ \A t \in Temps : t \notin pending' \cup {join'} => Absent(Cur', t)
    BY StepTemps DEF FlowInv
  <2>2. jstep' = 0 /\ join' = NoVar /\ inFunc' /\ sent' = <<>>
    BY DEF FlowInv, TempInv, Quiet
  <2>3. ~(jstep' \in {1, 2, 4}) /\ jstep' # 3 /\ ~(jstep' \in 1 .. 3)
    BY <2>2
  <2> QED
    BY <2>1, <2>2, <2>3 DEF TempInv
<1> QED
  BY <1>1, <1>2, <1>3 DEF FlowInv

LEMMA RvalueFindable ==
    ASSUME FlowInv, Lossless, flight = NoFlight, NEW v \in Rvalues \cup Arrays
    PROVE  Findable(Cur, v)
<1>1. v \in Temps => v \in pending
  BY VarsAssumption DEF Rvalues, Usable
<1> QED
  BY <1>1 DEF Findable, FlowInv, ValueInv

\* What a handler reads, when it reads right.
LEMMA ReadsRight ==
    ASSUME FlowInv, NEW ok, Lossless /\ flight = NoFlight => ok, Reads(ok)
    PROVE  Lossless => ~misread'
  BY DEF Reads, FlowInv, ValueInv

-----------------------------------------------------------------------------
(* The actions *)

LEMMA AssignVarFlow ==
    ASSUME Inv, MemInv, FlowInv, AssignVar
    PROVE  FlowInv'
<1>1. PICK dst \in Scalars, src \in Rvalues : Assign(dst, src)
  BY DEF AssignVar
<1>2. /\ Quiet /\ sent' = sent /\ jstep' = jstep /\ join' = join /\ inFunc' = inFunc
      /\ out' = out /\ returned' = returned /\ flight' = flight /\ awaited' = awaited
  BY DEF AssignVar
<1>3. dst \in Vars /\ src \in Vars /\ dst \notin Temps
  BY RvaluesTyped, VarsAssumption DEF Inv, Vars
<1> DEFINE used == {src} \cap Temps
           From == IF src \in Consts THEN {[r |-> 0, c |-> Cur]} ELSE Operand(Cur, src)
           c2(p1, p2) == SpillDst(Unlock(Define(p2.c, dst, p2.r), {p1.r, p2.r}), dst, p2.r)
<1>4. PICK p1 \in From : \E p2 \in Operand(p1.c, dst) :
         /\ Become(Retire(c2(p1, p2), used))
         /\ Reads(src \in Consts \/ p2.c.reg[p1.r] = src)
         /\ Consume(used, {dst} \cap Temps)
  BY <1>1 DEF Assign
<1>5. PICK p2 \in Operand(p1.c, dst) :
         /\ Become(Retire(c2(p1, p2), used))
         /\ Reads(src \in Consts \/ p2.c.reg[p1.r] = src)
         /\ Consume(used, {dst} \cap Temps)
  BY <1>4
<1> DEFINE d == Define(p2.c, dst, p2.r)
           e == Unlock(d, {p1.r, p2.r})
           g == SpillDst(e, dst, p2.r)
           f == Retire(g, used)
<1>6. Good(Cur)
  BY CurGood DEF Inv
<1>7. /\ Good(p1.c) /\ \A t \in Temps : t \notin used => Keeps(Cur, p1.c, t)
      /\ src \notin Consts => p1.r \in p1.c.lock /\ p1.c.desc[p1.r] = src
  <2>1. CASE src \in Consts
    BY <1>4, <1>6, <2>1, KeepsSelf
  <2>2. CASE src \notin Consts
    <3>1. p1 \in Operand(Cur, src)
      BY <1>4, <2>2
    <3> QED
      BY <1>3, <1>6, <2>2, <3>1, OperandLocks, OperandIs
  <2> QED
    BY <2>1, <2>2
<1>8. /\ Good(p2.c) /\ p2.r \in Regs /\ p2.c.desc[p2.r] = dst
      /\ \A t \in Temps : Keeps(p1.c, p2.c, t)
  BY <1>3, <1>5, <1>7, OperandLocks, OperandIs
<1>9. Good(d) /\ d.desc[p2.r] = dst /\ \A t \in Temps : Keeps(p2.c, d, t)
  <2>1. Good(d)
    BY <1>3, <1>8, DefineGood
  <2>2. d.desc[p2.r] = dst
    BY <1>8 DEF Define, Good, Config
  <2>3. \A t \in Temps : Keeps(p2.c, d, t)
    BY <1>3, <1>8, DefineKeeps
  <2> QED
    BY <2>1, <2>2, <2>3
<1> HIDE DEF d
<1>10. Good(e) /\ e.desc[p2.r] = dst /\ \A t \in Temps : Keeps(d, e, t)
  <2>1. Good(e) /\ \A t \in Temps : Keeps(d, e, t)
    BY <1>8, <1>9, LockGood, LockKeeps
  <2>2. e.desc = d.desc
    BY <1>9 DEF Unlock, Good, Config
  <2> QED
    BY <1>9, <2>1, <2>2
<1> HIDE DEF e
<1>11. Good(g) /\ \A t \in Temps : Keeps(e, g, t)
  BY <1>10, SpillDstGood, SpillDstKeeps
<1> HIDE DEF g
<1>12. \A t \in Temps : /\ t \notin used => Keeps(g, f, t)
                        /\ t \in used => Absent(f, t)
  BY <1>11, RetireKeeps
<1> HIDE DEF f
<1>13. Effect(f, used, {})
  <2>1. ASSUME NEW t \in Temps, t \notin used PROVE Keeps(Cur, f, t)
    <3>1. Keeps(Cur, p2.c, t)
      BY <1>7, <1>8, <2>1, KeepsThrough
    <3>2. Keeps(Cur, e, t)
      BY <1>9, <1>10, <3>1, KeepsThrough
    <3>3. Keeps(Cur, g, t)
      BY <1>11, <3>2, KeepsThrough
    <3> QED
      BY <1>12, <2>1, <3>3, KeepsThrough
  <2> QED
    BY <1>12, <2>1 DEF Effect
<1>14. Lossless /\ flight = NoFlight => (src \in Consts \/ p2.c.reg[p1.r] = src)
  <2> SUFFICES ASSUME Lossless, flight = NoFlight, src \notin Consts PROVE p2.c.reg[p1.r] = src
    OBVIOUS
  <2>1. Settled(Cur)
    BY <1>2, CurSettled DEF Quiet
  <2>2. p1 \in Operand(Cur, src)
    BY <1>4
  <2>3. p1.c.reg[p1.r] = src
    BY <1>3, <2>1, <2>2, RvalueFindable, OperandValue
  <2> QED
    BY <1>3, <1>5, <1>7, <2>3, OperandIs
<1>15. Lossless => ~misread'
  BY <1>5, <1>14, ReadsRight
<1>16. Become(f) /\ Consume(used, {}) /\ used \in SUBSET Temps
  <2>1. {dst} \cap Temps = {}
    BY <1>3
  <2> QED
    BY <1>5, <2>1 DEF f, g, e, d
<1>17. Onward
  BY <1>2 DEF Onward
<1> HIDE DEF used
<1> QED
  BY <1>2, <1>13, <1>15, <1>16, <1>17, StepFlow

\* generateAssignConst: a temporary takes a constant.
LEMMA AssignConstIs ==
    ASSUME Inv, FlowInv, NEW dst \in Temps, NEW src \in Consts, Assign(dst, src)
    PROVE  \E f : /\ Become(f) /\ Consume({}, {dst}) /\ Effect(f, {}, {dst})
                  /\ (Lossless => ~misread')
                  /\ Holding(f, dst) # {} /\ TopRight(f, dst)
                  /\ Mirrors(Cur, dst) = {} => AllRight(f, dst)
                  /\ Holding(Cur, dst) # {} =>
                        \A r \in Regs : f.desc[r] = dst => regDescriptor[r] = dst
<1> DEFINE used == {src} \cap Temps
<1>1. src \notin Temps /\ used = {} /\ {dst} \cap Temps = {dst} /\ dst \in Vars
      /\ dst \notin Scalars
  BY NamedVars, VarsAssumption DEF Named
<1>2a. PICK p1 \in {[r |-> 0, c |-> Cur]} : \E p2 \in Operand(p1.c, dst) :
         /\ Become(Retire(SpillDst(Unlock(Define(p2.c, dst, p2.r), {p1.r, p2.r}), dst, p2.r), used))
         /\ Reads(src \in Consts \/ p2.c.reg[p1.r] = src)
         /\ Consume(used, {dst} \cap Temps)
  BY DEF Assign
<1>2. PICK p2 \in Operand(p1.c, dst) :
         /\ Become(Retire(SpillDst(Unlock(Define(p2.c, dst, p2.r), {p1.r, p2.r}), dst, p2.r), used))
         /\ Reads(src \in Consts \/ p2.c.reg[p1.r] = src)
         /\ Consume(used, {dst} \cap Temps)
  BY <1>2a
<1> DEFINE d == Define(p2.c, dst, p2.r)
           e == Unlock(d, {p1.r, p2.r})
           f == Retire(e, {})
<1>3. SpillDst(e, dst, p2.r) = e
  BY <1>1 DEF SpillDst
<1>4. Become(f) /\ Consume({}, {dst}) /\ (Lossless => ~misread')
  <2>1. Lossless => ~misread'
    BY <1>2, ReadsRight
  <2> QED
    BY <1>1, <1>2, <1>3, <2>1
<1>5. Good(Cur) /\ p2 \in Operand(Cur, dst) /\ Cur.desc = regDescriptor
  BY <1>2a, <1>2, CurGood DEF Inv, Cur
<1>6. /\ Good(p2.c) /\ p2.r \in Regs /\ p2.c.desc[p2.r] = dst
      /\ \A t \in Temps : t # dst => Keeps(Cur, p2.c, t)
      /\ Mirrors(Cur, dst) = {} => Mirrors(p2.c, dst) = {}
      /\ Holding(Cur, dst) # {} => regDescriptor[p2.r] = dst
  BY <1>1, <1>5, OperandLocks, OperandIs
<1>7. /\ Good(d) /\ d.desc = p2.c.desc /\ TopRight(d, dst) /\ Covered(d, dst)
      /\ Holding(d, dst) = {p2.r}
      /\ Mirrors(p2.c, dst) = {} => AllRight(d, dst)
      /\ \A t \in Temps : t # dst => Keeps(p2.c, d, t)
  BY <1>1, <1>6, DefineIs, DefineKeeps
<1> HIDE DEF d
<1>8. Good(e) /\ \A t \in Temps : Keeps(d, e, t) /\ Holding(e, t) = Holding(d, t)
  BY <1>6, <1>7, LockGood, LockKeeps
<1> HIDE DEF e
<1>9. \A t \in Temps : Keeps(e, f, t) /\ Holding(f, t) = Holding(e, t)
  BY <1>8, RetireKeeps, RetireHolds
<1> HIDE DEF f
<1>10. \A t \in Temps : Keeps(d, f, t)
  BY <1>8, <1>9, KeepsThrough
<1>11. Holding(f, dst) = {p2.r} /\ TopRight(f, dst) /\ Covered(f, dst)
       /\ (Mirrors(Cur, dst) = {} => AllRight(f, dst))
  BY <1>6, <1>7, <1>8, <1>9, <1>10 DEF Keeps
<1>12. Effect(f, {}, {dst})
  <2>1. ASSUME NEW t \in Temps, t # dst PROVE Keeps(Cur, f, t)
    <3>1. Keeps(Cur, d, t)
      BY <1>6, <1>7, <2>1, KeepsThrough
    <3> QED
      BY <1>10, <3>1, KeepsThrough
  <2> QED
    BY <1>11, <2>1 DEF Effect
<1>13. Holding(Cur, dst) # {} =>
          \A r \in Regs : f.desc[r] = dst => regDescriptor[r] = dst
  BY <1>6, <1>11 DEF Holding
<1> QED
  BY <1>4, <1>11, <1>12, <1>13

LEMMA AssignTempFlow ==
    ASSUME Inv, MemInv, FlowInv, AssignTemp
    PROVE  FlowInv'
<1>1. /\ inFunc /\ sent = <<>> /\ inFunc' = inFunc /\ sent' = sent /\ out' = out
      /\ returned' = returned /\ flight' = flight /\ awaited' = awaited
  BY DEF AssignTemp
<1>2. Onward
  BY <1>1 DEF Onward
<1>3. ASSUME NEW src \in Consts, jstep = 0, NEW dst \in Fresh, Assign(dst, src),
             UNCHANGED <<join, jstep>> \/ (join' = dst /\ jstep' = 1)
      PROVE  FlowInv'
  <2>1. dst \in Temps /\ dst \notin pending /\ dst \notin Awaited /\ dst # NoVar
    BY <1>3, NamedVars DEF Fresh
  <2>2. join = NoVar
    BY <1>3 DEF FlowInv, TempInv
  <2>3. Absent(Cur, dst)
    BY <2>1, <2>2 DEF FlowInv, TempInv
  <2>4. PICK f : /\ Become(f) /\ Consume({}, {dst}) /\ Effect(f, {}, {dst})
                 /\ (Lossless => ~misread')
                 /\ Holding(f, dst) # {} /\ TopRight(f, dst)
                 /\ Mirrors(Cur, dst) = {} => AllRight(f, dst)
    BY <1>3, <2>1, AssignConstIs
  <2>5. AllRight(f, dst)
    BY <2>3, <2>4 DEF Absent
  <2>6. Lossless => ArgInv'
    BY <1>1, <2>4, StepArgs DEF FlowInv
  <2>7. Lossless => ValueInv'
    BY <1>2, <2>1, <2>4, <2>5, StepValues DEF FlowInv
  <2>8. /\ acc' \subseteq pending'
        /\ \A t \in Temps : t \notin pending' \cup {join'} => Absent(Cur', t)
    BY <2>1, <2>2, <2>4, StepTemps DEF FlowInv
  <2>9. dst \in pending' /\ Holding(Cur', dst) # {}
    BY <2>1, <2>4, BecomeViews DEF Consume, Inv
  <2>10. CASE UNCHANGED <<join, jstep>>
    <3>1. jstep' = 0 /\ join' = NoVar
      BY <1>3, <2>2, <2>10
    <3>2. ~(jstep' \in {1, 2, 4}) /\ jstep' # 3 /\ ~(jstep' \in 1 .. 3)
      BY <3>1
    <3> QED
      BY <1>1, <2>6, <2>7, <2>8, <3>1, <3>2 DEF FlowInv, TempInv
  <2>11. CASE join' = dst /\ jstep' = 1
    <3>1. PICK w : w = Cur'
      OBVIOUS
    <3>2. jstep' # 0 /\ jstep' # 3 /\ join' \in pending' /\ Holding(w, join') # {}
      BY <2>9, <2>11, <3>1
    <3> QED
      BY <1>1, <2>6, <2>7, <2>8, <3>1, <3>2 DEF FlowInv, TempInv
  <2> QED
    BY <1>3, <2>10, <2>11
<1>4. ASSUME NEW src \in Consts, jstep = 3, Assign(join, src), jstep' = 4, join' = join
      PROVE  FlowInv'
  <2>1. join \in Temps /\ Mirrors(Cur, join) = {} /\ Holding(Cur, join) # {}
    <3>1. jstep # 0 /\ jstep \in 1 .. 3
      BY <1>4
    <3> QED
      BY <1>4, <3>1 DEF Inv, TacInv, FlowInv, TempInv
  <2>2. PICK dst \in Temps : dst = join
    BY <2>1
  <2>3. PICK f : /\ Become(f) /\ Consume({}, {dst}) /\ Effect(f, {}, {dst})
                 /\ (Lossless => ~misread')
                 /\ TopRight(f, dst) /\ AllRight(f, dst)
                 /\ \A r \in Regs : f.desc[r] = dst => regDescriptor[r] = dst
    BY <1>4, <2>1, <2>2, AssignConstIs
  <2>4. Lossless => ArgInv'
    BY <1>1, <2>3, StepArgs DEF FlowInv
  <2>5. Lossless => ValueInv'
    BY <1>2, <2>2, <2>3, StepValues DEF FlowInv
  <2>6. /\ acc' \subseteq pending'
        /\ \A t \in Temps : t \notin pending' \cup {join'} => Absent(Cur', t)
    BY <1>4, <2>2, <2>3, StepTemps DEF FlowInv
  <2>7. join' \in pending' /\ jstep' # 0 /\ jstep' # 3 /\ ~(jstep' \in 1 .. 3)
    BY <1>4, <2>2, <2>3 DEF Consume
  <2> QED
    BY <1>1, <2>4, <2>5, <2>6, <2>7 DEF FlowInv, TempInv
<1> QED
  BY <1>3, <1>4 DEF AssignTemp

\* The tail of a handler that has gathered x and y, defines dst and retires T.
Defined(p, dst) == Unlock(Define(p.c, dst, p.r[3]), {p.r[i] : i \in 1 .. 3})
Finished(c, p, x, y, T) == Retire(DiscardConst(DiscardConst(c, x, p.r[1]), y, p.r[2]), T)

LEMMA DefinedIs ==
    ASSUME NEW p, Good(p.c), p.r[3] \in Regs, NEW dst \in Temps, p.c.desc[p.r[3]] = dst
    PROVE  LET e == Defined(p, dst)
           IN  /\ Good(e) /\ e.desc = p.c.desc /\ TopRight(e, dst) /\ Covered(e, dst)
               /\ Mirrors(p.c, dst) = {} => AllRight(e, dst)
               /\ \A t \in Temps : t # dst => Keeps(p.c, e, t)
<1> DEFINE d == Define(p.c, dst, p.r[3])
           R == {p.r[i] : i \in 1 .. 3}
           e == Unlock(d, R)
<1>1. /\ Good(d) /\ d.desc = p.c.desc /\ TopRight(d, dst) /\ Covered(d, dst)
      /\ Mirrors(p.c, dst) = {} => AllRight(d, dst)
      /\ \A t \in Temps : t # dst => Keeps(p.c, d, t)
  BY NamedVars, DefineIs, DefineKeeps
<1> HIDE DEF d, R
<1>2. Good(e) /\ \A t \in Temps : Keeps(d, e, t)
  BY <1>1, LockGood, LockKeeps
<1>3. e.desc = d.desc
  BY <1>1 DEF Unlock, Good, Config
<1> HIDE DEF e
<1>4. TopRight(e, dst) /\ Covered(e, dst) /\ (Mirrors(p.c, dst) = {} => AllRight(e, dst))
  BY <1>1, <1>2 DEF Keeps
<1>5. \A t \in Temps : t # dst => Keeps(p.c, e, t)
  BY <1>1, <1>2, KeepsThrough
<1>6. e = Defined(p, dst)
  BY DEF e, d, R, Defined
<1> QED
  BY <1>1, <1>2, <1>3, <1>4, <1>5, <1>6

LEMMA ComputedIs ==
    ASSUME Inv, NEW x \in Vars, NEW y \in Vars, NEW dst \in Temps, NEW p \in Gather(x, y, dst),
           dst \notin {x, y} => Absent(Cur, dst), NEW T, T = ({x, y} \cap Temps) \ {dst}
    PROVE  LET f == Finished(Defined(p, dst), p, x, y, T)
           IN  /\ Effect(f, {x, y} \cap Temps, {dst})
               /\ TopRight(f, dst) /\ (dst \notin {x, y} => AllRight(f, dst))
<1>1. Good(Cur) /\ dst \in Vars
  BY CurGood, NamedVars DEF Inv
<1>2. /\ p.r[1] \in Regs /\ p.r[2] \in Regs /\ p.r[3] \in Regs
      /\ p.c.desc[p.r[1]] = x /\ p.c.desc[p.r[2]] = y /\ p.c.desc[p.r[3]] = dst
      /\ \A t \in Temps : t \notin {x, y, dst} => Keeps(Cur, p.c, t)
      /\ Good(p.c)
  BY <1>1, GatherIs
<1>3. dst \notin {x, y} => Mirrors(p.c, dst) = {}
  BY <1>1, GatherFresh
<1> DEFINE e == Defined(p, dst)
           f == Finished(e, p, x, y, T)
<1>4. /\ Good(e) /\ e.desc = p.c.desc /\ TopRight(e, dst) /\ Covered(e, dst)
      /\ dst \notin {x, y} => AllRight(e, dst)
      /\ \A t \in Temps : t # dst => Keeps(p.c, e, t)
  BY <1>2, <1>3, DefinedIs
<1> HIDE DEF e
<1>5. \A t \in Temps : (t \notin T => Keeps(e, f, t)) /\ (t \in T => Absent(f, t))
  BY <1>2, <1>4, FinishedKeeps DEF Finished
<1> HIDE DEF f
<1>6. dst \notin T /\ Keeps(e, f, dst)
  BY <1>5
<1>7. TopRight(f, dst) /\ Covered(f, dst) /\ (dst \notin {x, y} => AllRight(f, dst))
  BY <1>4, <1>6 DEF Keeps
<1>8. ASSUME NEW t \in Temps, t \notin ({x, y} \cap Temps) \cup {dst}
      PROVE  Keeps(Cur, f, t)
  <2>1. Keeps(Cur, p.c, t) /\ Keeps(p.c, e, t) /\ Keeps(e, f, t)
    BY <1>2, <1>4, <1>5, <1>8
  <2> QED
    BY <2>1, KeepsThrough
<1>9. Effect(f, {x, y} \cap Temps, {dst})
  BY <1>5, <1>7, <1>8 DEF Effect
<1> QED
  BY <1>7, <1>9 DEF f, e

LEMMA FreshAbsent ==
    ASSUME Inv, TempInv, jstep = 0, NEW dst \in Fresh
    PROVE  dst \in Temps /\ Absent(Cur, dst) /\ dst \notin Rvalues /\ dst \notin Awaited
           /\ dst \notin Arrays /\ dst \notin Scalars /\ dst \notin pending
  BY NamedVars, VarsAssumption DEF Fresh, TempInv, Rvalues, Usable, Named

LEMMA BinaryOPFlow ==
    ASSUME Inv, MemInv, FlowInv, Quiet, sent' = sent, jstep' = jstep, join' = join,
           inFunc' = inFunc, out' = out, returned' = returned, flight' = flight,
           awaited' = awaited,
           NEW src1 \in Rvalues \cup Arrays, NEW src2 \in Rvalues, src1 \in Temps => src1 # src2,
           NEW dst \in Fresh \cup ({src1} \cap Temps), BinaryOP(dst, src1, src2)
    PROVE  FlowInv'
<1> DEFINE used == {src1, src2} \cap Temps
           g(p) == DiscardConst(DiscardConst(Defined(p, dst), src1, p.r[1]), src2, p.r[2])
<1>1. PICK p \in Gather(src1, src2, dst) :
         /\ Become(Retire(SpillDst(g(p), dst, p.r[3]), used \ {dst}))
         /\ Reads(p.c.reg[p.r[1]] = src1 /\ p.c.reg[p.r[2]] = src2)
         /\ Consume(used, {dst})
  BY DEF BinaryOP, Defined
<1>2. src1 \in Vars /\ src2 \in Vars
  BY RvaluesTyped, NamedVars DEF Inv, Vars
<1>3. /\ dst \in Temps /\ dst \notin Scalars /\ dst \notin Awaited
      /\ dst \notin {src1, src2} => Absent(Cur, dst)
      /\ dst \in {src1, src2} => dst \in used
  BY FreshAbsent, NamedVars, VarsAssumption DEF Quiet, FlowInv, Rvalues, Usable, Named
<1> DEFINE T == used \ {dst}
           f == Finished(Defined(p, dst), p, src1, src2, T)
<1>4. Become(f)
  BY <1>1, <1>3 DEF SpillDst, Finished
<1>5. /\ Effect(f, used, {dst})
      /\ TopRight(f, dst) /\ (dst \notin used => AllRight(f, dst))
  BY <1>2, <1>3, ComputedIs
<1>6. Lossless /\ flight = NoFlight => p.c.reg[p.r[1]] = src1 /\ p.c.reg[p.r[2]] = src2
  <2> SUFFICES ASSUME Lossless, flight = NoFlight
               PROVE  p.c.reg[p.r[1]] = src1 /\ p.c.reg[p.r[2]] = src2
    OBVIOUS
  <2>1. Settled(Cur)
    BY CurSettled DEF Quiet
  <2>2. Findable(Cur, src1) /\ Findable(Cur, src2)
    BY RvalueFindable
  <2>3. dst \in Vars
    BY <1>3, NamedVars
  <2> QED
    BY <1>1, <1>2, <2>1, <2>2, <2>3, GatherValues
<1>7. Lossless => ~misread'
  BY <1>1, <1>6, ReadsRight
<1>8. Onward
  BY DEF Onward
<1>9. Consume(used, {dst}) /\ used \in SUBSET Temps /\ {dst} \in SUBSET Temps
      /\ {dst} \cap Awaited = {}
  BY <1>1, <1>3
<1> HIDE DEF f, used
<1> QED
  BY <1>4, <1>5, <1>7, <1>8, <1>9, StepFlow

LEMMA LoadFlow ==
    ASSUME Inv, MemInv, FlowInv, Quiet, sent' = sent, jstep' = jstep, join' = join,
           inFunc' = inFunc, out' = out, returned' = returned, flight' = flight,
           awaited' = awaited,
           NEW src \in Arrays, NEW offset \in Rvalues, NEW dst \in Fresh, Load(dst, src, offset)
    PROVE  FlowInv'
<1> DEFINE used == {offset} \cap Temps
           g(p) == DiscardConst(Defined(p, dst), offset, p.r[2])
<1>1. PICK p \in Gather(src, offset, dst) :
         /\ Become(Retire(SpillDst(g(p), dst, p.r[3]), used))
         /\ Reads(p.c.reg[p.r[1]] = src /\ p.c.reg[p.r[2]] = offset)
         /\ Consume(used, {dst})
  BY DEF Load, Defined
<1>2. src \in Vars /\ offset \in Vars /\ src \notin Consts /\ src \notin Temps
  BY RvaluesTyped, NamedVars, VarsAssumption DEF Inv, Vars
<1>3. /\ dst \in Temps /\ dst \notin Scalars /\ dst \notin Awaited /\ Absent(Cur, dst)
      /\ dst \notin {src, offset} /\ dst \in Vars
  BY FreshAbsent, NamedVars DEF Quiet, FlowInv
<1> DEFINE T == ({src, offset} \cap Temps) \ {dst}
           f == Finished(Defined(p, dst), p, src, offset, T)
<1>4. T = used /\ {src, offset} \cap Temps = used
  BY <1>2, <1>3
<1>5. DiscardConst(Defined(p, dst), src, p.r[1]) = Defined(p, dst)
  BY <1>2 DEF DiscardConst
<1>6. Become(f)
  BY <1>1, <1>3, <1>4, <1>5 DEF SpillDst, Finished
<1>7. Effect(f, {src, offset} \cap Temps, {dst}) /\ TopRight(f, dst) /\ AllRight(f, dst)
  BY <1>2, <1>3, ComputedIs
<1>8. Lossless /\ flight = NoFlight => p.c.reg[p.r[1]] = src /\ p.c.reg[p.r[2]] = offset
  <2> SUFFICES ASSUME Lossless, flight = NoFlight
               PROVE  p.c.reg[p.r[1]] = src /\ p.c.reg[p.r[2]] = offset
    OBVIOUS
  <2>1. Settled(Cur)
    BY CurSettled DEF Quiet
  <2>2. Findable(Cur, src) /\ Findable(Cur, offset)
    BY RvalueFindable
  <2> QED
    BY <1>1, <1>2, <1>3, <2>1, <2>2, GatherValues
<1>9. Lossless => ~misread'
  BY <1>1, <1>8, ReadsRight
<1>10. Onward
  BY DEF Onward
<1> HIDE DEF f
<1>11. Effect(f, used, {dst})
  BY <1>4, <1>7
<1>12. Consume(used, {dst}) /\ used \in SUBSET Temps /\ {dst} \in SUBSET Temps
      /\ {dst} \cap Awaited = {}
  BY <1>1, <1>3
<1> HIDE DEF used
<1> QED
  BY <1>6, <1>7, <1>9, <1>10, <1>11, <1>12, StepFlow

LEMMA StoreFlow ==
    ASSUME Inv, MemInv, FlowInv, Quiet, sent' = sent, jstep' = jstep, join' = join,
           inFunc' = inFunc, out' = out, returned' = returned, flight' = flight,
           awaited' = awaited,
           NEW dst \in Arrays, NEW offset \in Rvalues, NEW src \in Rvalues,
           src \in Temps => src # offset, Store(dst, offset, src)
    PROVE  FlowInv'
<1> DEFINE used == {src, offset} \cap Temps
           e(p) == Unlock(p.c, {p.r[i] : i \in 1 .. 3})
<1>1. PICK p \in Gather(src, offset, dst) :
         /\ Become(Retire(DiscardConst(e(p), offset, p.r[2]), used))
         /\ Reads(/\ p.c.reg[p.r[1]] = src /\ p.c.reg[p.r[2]] = offset
                  /\ p.c.reg[p.r[3]] = dst)
         /\ Consume(used, {})
  BY DEF Store
<1>2. /\ src \in Vars /\ offset \in Vars /\ dst \in Vars /\ dst \in Named
      /\ dst \notin Consts /\ dst \notin Temps
  BY RvaluesTyped, NamedVars, VarsAssumption DEF Inv, Vars, Named
<1>3. Good(Cur)
  BY CurGood DEF Inv
<1>4. /\ p.r[1] \in Regs /\ p.r[2] \in Regs /\ p.r[3] \in Regs
      /\ p.c.desc[p.r[1]] = src /\ p.c.desc[p.r[2]] = offset /\ p.c.desc[p.r[3]] = dst
      /\ \A t \in Temps : t \notin {src, offset, dst} => Keeps(Cur, p.c, t)
      /\ Good(p.c)
  BY <1>2, <1>3, GatherIs
<1> DEFINE d == e(p)
           f == Retire(DiscardConst(d, offset, p.r[2]), used)
<1>5. Good(d) /\ \A t \in Temps : Keeps(p.c, d, t)
  BY <1>4, LockGood, LockKeeps
<1>6. d.desc = p.c.desc
  BY <1>4 DEF Unlock, Good, Config
<1>7. Become(f)
  BY <1>1
<1>8. d.desc[p.r[3]] = dst /\ d.desc[p.r[2]] = offset
  BY <1>4, <1>6
<1> HIDE DEF d
<1>9. DiscardConst(d, dst, p.r[3]) = d
  BY <1>2 DEF DiscardConst
<1>10. f = Retire(DiscardConst(DiscardConst(d, dst, p.r[3]), offset, p.r[2]), used)
  BY <1>9
<1> HIDE DEF f
<1>11. \A t \in Temps : (t \notin used => Keeps(d, f, t)) /\ (t \in used => Absent(f, t))
  BY <1>2, <1>4, <1>5, <1>8, <1>10, FinishedKeeps
<1>12. ASSUME NEW t \in Temps, t \notin used
       PROVE  Keeps(Cur, f, t)
  <2>1. Keeps(Cur, p.c, t) /\ Keeps(p.c, d, t) /\ Keeps(d, f, t)
    BY <1>2, <1>4, <1>5, <1>11, <1>12
  <2> QED
    BY <2>1, KeepsThrough
<1>13. Effect(f, used, {})
  BY <1>11, <1>12 DEF Effect
<1>14. Lossless /\ flight = NoFlight => /\ p.c.reg[p.r[1]] = src /\ p.c.reg[p.r[2]] = offset
                            /\ p.c.reg[p.r[3]] = dst
  <2> SUFFICES ASSUME Lossless, flight = NoFlight
               PROVE  /\ p.c.reg[p.r[1]] = src /\ p.c.reg[p.r[2]] = offset
                      /\ p.c.reg[p.r[3]] = dst
    OBVIOUS
  <2>1. Settled(Cur)
    BY CurSettled DEF Quiet
  <2>2. Findable(Cur, src) /\ Findable(Cur, offset)
    BY RvalueFindable
  <2> QED
    BY <1>1, <1>2, <2>1, <2>2, GatherValues
<1>15. Lossless => ~misread'
  BY <1>1, <1>14, ReadsRight
<1>16. Onward
  BY DEF Onward
<1>17. Consume(used, {}) /\ used \in SUBSET Temps
  BY <1>1
<1> HIDE DEF used
<1> QED
  BY <1>7, <1>13, <1>15, <1>16, <1>17, StepFlow

LEMMA ComputeFlow ==
    ASSUME Inv, MemInv, FlowInv, Compute
    PROVE  FlowInv'
<1>1. /\ Quiet /\ sent' = sent /\ jstep' = jstep /\ join' = join /\ inFunc' = inFunc
      /\ out' = out /\ returned' = returned /\ flight' = flight /\ awaited' = awaited
  BY DEF Compute
<1>2. CASE \E src1 \in Rvalues \cup Arrays, src2 \in Rvalues :
            /\ src1 \in Temps => src1 # src2
            /\ \E dst \in Fresh \cup ({src1} \cap Temps) : BinaryOP(dst, src1, src2)
  BY <1>1, <1>2, BinaryOPFlow
<1>3. CASE \E src \in Arrays, offset \in Rvalues, dst \in Fresh : Load(dst, src, offset)
  BY <1>1, <1>3, LoadFlow
<1>4. CASE \E dst \in Arrays, offset \in Rvalues, src \in Rvalues :
            (src \in Temps => src # offset) /\ Store(dst, offset, src)
  BY <1>1, <1>4, StoreFlow
<1> QED
  BY <1>2, <1>3, <1>4 DEF Compute

LEMMA BranchOnward ==
    ASSUME Inv, Lossless => ValueInv, NEW l \in Labels, NEW used \in SUBSET Temps,
           Consume(used, {}), Branch(l, pending \ used)
    PROVE  (Lossless => Onward) /\ (flight = EndLabel => flight' = EndLabel)
<1>1. pending' = pending \ used /\ pending' \in SUBSET Temps
  BY DEF Consume, Inv, TacInv
<1>2. awaited'[l] = pending' /\ \A k \in Labels : k # l => awaited'[k] = awaited[k]
  BY <1>1 DEF Branch, Inv, TacInv
<1>3. \A k \in Labels : k \notin {NoFlight, EndLabel}
  BY VarsAssumption
<1>4. CASE flight = NoFlight /\ flight' = NoFlight
  BY <1>3, <1>4, VarsAssumption DEF Onward
<1>5. CASE flight = NoFlight /\ flight' = l
  BY <1>1, <1>2, <1>3, <1>5, VarsAssumption DEF Onward
<1>6. CASE flight # NoFlight
  <2>1. flight' = flight
    BY <1>6 DEF Branch
  <2>2. Lossless /\ flight = l => awaited'[flight] = awaited[flight]
    BY <1>1, <1>2 DEF Branch, ValueInv
  <2>3. Lossless /\ flight \in Labels => awaited'[flight] = awaited[flight]
    BY <1>2, <2>2
  <2> QED
    BY <2>1, <2>3 DEF Onward
<1> QED
  BY <1>4, <1>5, <1>6 DEF Branch

\* The branch leaves the temporaries and the machine's scalars as they were.
LEMMA BranchFindable ==
    ASSUME Inv, MemInv, FlowInv, inFunc, Lossless, flight = NoFlight, NEW v \in Rvalues \cup Arrays
    PROVE  Settled(CleanForBranch(Cur)) /\ Findable(CleanForBranch(Cur), v)
<1>1. Settled(Cur) /\ Findable(Cur, v) /\ Good(Cur)
  BY CurSettled, CurGood, RvalueFindable DEF Inv
<1>2. v \in Temps => Keeps(Cur, CleanForBranch(Cur), v)
  BY <1>1, CleanForBranchKeeps
<1> QED
  BY <1>1, <1>2, CleanForBranchTruth, FindableKeeps

LEMMA IfZFlow ==
    ASSUME Inv, MemInv, FlowInv, Quiet, sent' = sent, jstep' = jstep, join' = join,
           inFunc' = inFunc, out' = out, returned' = returned,
           NEW l \in Labels, NEW test \in Rvalues, IfZ(test, l)
    PROVE  FlowInv'
<1> DEFINE used == {test} \cap Temps
<1>1. PICK b : b = CleanForBranch(Cur)
  OBVIOUS
<1>2. PICK p \in Operand(b, test) :
         /\ Become(Retire(DiscardConst(Unlock(p.c, {p.r}), test, p.r), used))
         /\ Reads(p.c.reg[p.r] = test)
         /\ Consume(used, {}) /\ Branch(l, pending \ used)
  BY <1>1 DEF IfZ
<1>3. test \in Vars
  BY RvaluesTyped DEF Inv
<1>4. Good(Cur) /\ Good(b) /\ \A t \in Temps : Keeps(Cur, b, t)
  BY <1>1, CurGood, CleanForBranchGood, CleanForBranchKeeps DEF Inv
<1>5. /\ Good(p.c) /\ p.r \in Regs /\ p.c.desc[p.r] = test
      /\ \A t \in Temps : t # test => Keeps(b, p.c, t)
  BY <1>2, <1>3, <1>4, OperandIs, OperandLocks
<1> DEFINE d == Unlock(p.c, {p.r})
           e == DiscardConst(d, test, p.r)
           f == Retire(e, used)
<1>6. Good(d) /\ \A t \in Temps : Keeps(p.c, d, t)
  BY <1>5, LockGood, LockKeeps
<1>7. d.desc[p.r] = test
  BY <1>5 DEF Unlock, Good, Config
<1>8. test \in Consts => test \notin Temps
  BY VarsAssumption
<1> HIDE DEF d
<1>9. Good(e) /\ \A t \in Temps : Keeps(d, e, t)
  BY <1>6, <1>7, <1>8, DiscardConstGood, DiscardConstKeeps
<1> HIDE DEF e
<1>10. \A t \in Temps : (t \notin used => Keeps(e, f, t)) /\ (t \in used => Absent(f, t))
  BY <1>9, RetireKeeps
<1> HIDE DEF f
<1>11. ASSUME NEW t \in Temps, t \notin used
       PROVE  Keeps(Cur, f, t)
  <2>1. /\ Keeps(Cur, b, t) /\ Keeps(b, p.c, t) /\ Keeps(p.c, d, t) /\ Keeps(d, e, t)
        /\ Keeps(e, f, t)
    BY <1>4, <1>5, <1>6, <1>9, <1>10, <1>11
  <2>2. Keeps(Cur, d, t)
    BY <2>1, KeepsThrough
  <2> QED
    BY <2>1, <2>2, KeepsThrough
<1>12. Effect(f, used, {})
  BY <1>10, <1>11 DEF Effect
<1>13. Lossless /\ flight = NoFlight => p.c.reg[p.r] = test
  <2>1. Lossless /\ flight = NoFlight => Settled(b) /\ Findable(b, test)
    BY <1>1, BranchFindable DEF Quiet
  <2> QED
    BY <1>2, <1>3, <2>1, OperandValue
<1>14. Lossless => ~misread'
  BY <1>2, <1>13, ReadsRight
<1>15. Become(f) /\ Consume(used, {}) /\ used \in SUBSET Temps
  BY <1>2 DEF f, e, d
<1>16. (Lossless => Onward) /\ (flight = EndLabel => flight' = EndLabel)
  BY <1>2, <1>15, BranchOnward DEF FlowInv
<1> HIDE DEF used
<1> QED
  BY <1>12, <1>14, <1>15, <1>16, StepFlow

LEMMA CMPFlow ==
    ASSUME Inv, MemInv, FlowInv, Quiet, sent' = sent, jstep' = jstep, join' = join,
           inFunc' = inFunc, out' = out, returned' = returned,
           NEW l \in Labels, NEW src1 \in Rvalues, NEW src2 \in Rvalues,
           src1 \in Temps => src1 # src2, CMP(src1, src2, l)
    PROVE  FlowInv'
<1> DEFINE used == {src1, src2} \cap Temps
           g(p1, p2) == DiscardConst(Unlock(p2.c, {p1.r, p2.r}), src1, p1.r)
<1>1. PICK b : b = CleanForBranch(Cur)
  OBVIOUS
<1>2. PICK p1 \in Operand(b, src1) : \E p2 \in Operand(p1.c, src2) :
         /\ Become(Retire(DiscardConst(g(p1, p2), src2, p2.r), used))
         /\ Reads(p2.c.reg[p1.r] = src1 /\ p2.c.reg[p2.r] = src2)
         /\ Consume(used, {}) /\ Branch(l, pending \ used)
  BY <1>1 DEF CMP
<1>3. PICK p2 \in Operand(p1.c, src2) :
         /\ Become(Retire(DiscardConst(g(p1, p2), src2, p2.r), used))
         /\ Reads(p2.c.reg[p1.r] = src1 /\ p2.c.reg[p2.r] = src2)
         /\ Consume(used, {}) /\ Branch(l, pending \ used)
  BY <1>2
<1>4. src1 \in Vars /\ src2 \in Vars
  BY RvaluesTyped DEF Inv
<1>5. Good(Cur) /\ Good(b) /\ \A t \in Temps : Keeps(Cur, b, t)
  BY <1>1, CurGood, CleanForBranchGood, CleanForBranchKeeps DEF Inv
<1>6. /\ Good(p1.c) /\ p1.r \in Regs /\ p1.r \in p1.c.lock /\ p1.c.desc[p1.r] = src1
      /\ \A t \in Temps : t # src1 => Keeps(b, p1.c, t)
  BY <1>2, <1>4, <1>5, OperandIs, OperandLocks
<1>7. /\ Good(p2.c) /\ p2.r \in Regs /\ p2.c.desc[p2.r] = src2 /\ p2.c.desc[p1.r] = src1
      /\ \A t \in Temps : t # src2 => Keeps(p1.c, p2.c, t)
  BY <1>3, <1>4, <1>6, OperandIs, OperandLocks
<1> DEFINE d == Unlock(p2.c, {p1.r, p2.r})
           f == Retire(DiscardConst(DiscardConst(d, src1, p1.r), src2, p2.r), used)
<1>8. Good(d) /\ \A t \in Temps : Keeps(p2.c, d, t)
  BY <1>7, LockGood, LockKeeps
<1>9. d.desc[p1.r] = src1 /\ d.desc[p2.r] = src2
  BY <1>7 DEF Unlock, Good, Config
<1>10. Become(f)
  BY <1>3
<1> HIDE DEF d
<1>11. \A t \in Temps : (t \notin used => Keeps(d, f, t)) /\ (t \in used => Absent(f, t))
  BY <1>4, <1>6, <1>7, <1>8, <1>9, FinishedKeeps
<1> HIDE DEF f
<1>12. ASSUME NEW t \in Temps, t \notin used
       PROVE  Keeps(Cur, f, t)
  <2>1. /\ Keeps(Cur, b, t) /\ Keeps(b, p1.c, t) /\ Keeps(p1.c, p2.c, t) /\ Keeps(p2.c, d, t)
        /\ Keeps(d, f, t)
    BY <1>5, <1>6, <1>7, <1>8, <1>11, <1>12
  <2>2. Keeps(Cur, p2.c, t)
    BY <2>1, KeepsThrough
  <2> QED
    BY <2>1, <2>2, KeepsThrough
<1>13. Effect(f, used, {})
  BY <1>11, <1>12 DEF Effect
<1>14. Lossless /\ flight = NoFlight => p2.c.reg[p1.r] = src1 /\ p2.c.reg[p2.r] = src2
  <2> SUFFICES ASSUME Lossless, flight = NoFlight
               PROVE  p2.c.reg[p1.r] = src1 /\ p2.c.reg[p2.r] = src2
    OBVIOUS
  <2>1. Settled(b) /\ Findable(b, src1) /\ Findable(b, src2)
    BY <1>1, BranchFindable DEF Quiet
  <2>2. p1.c.reg[p1.r] = src1
    BY <1>2, <1>4, <2>1, OperandValue
  <2>3. Settled(p1.c)
    BY <1>2, <1>4, <2>1, OperandTruth
  <2>4. Findable(p1.c, src2)
    <3>1. src2 \in Temps => Keeps(b, p1.c, src2)
      BY <1>6
    <3> QED
      BY <2>1, <3>1, FindableKeeps
  <2>5. p2.c.reg[p2.r] = src2
    BY <1>3, <1>4, <2>3, <2>4, OperandValue
  <2> QED
    BY <1>3, <1>4, <1>6, <2>2, <2>5, OperandIs
<1>15. Lossless => ~misread'
  BY <1>3, <1>14, ReadsRight
<1>16. Consume(used, {}) /\ used \in SUBSET Temps
  BY <1>3
<1>17. (Lossless => Onward) /\ (flight = EndLabel => flight' = EndLabel)
  BY <1>3, <1>16, BranchOnward DEF FlowInv
<1> HIDE DEF used
<1> QED
  BY <1>10, <1>13, <1>15, <1>16, <1>17, StepFlow

LEMMA CondBranchFlow ==
    ASSUME Inv, MemInv, FlowInv, CondBranch
    PROVE  FlowInv'
<1>1. /\ Quiet /\ sent' = sent /\ jstep' = jstep /\ join' = join /\ inFunc' = inFunc
      /\ out' = out /\ returned' = returned
  BY DEF CondBranch
<1>2. ASSUME NEW l \in Labels, NEW test \in Rvalues, IfZ(test, l)
      PROVE  FlowInv'
  BY <1>1, <1>2, IfZFlow
<1>3. ASSUME NEW l \in Labels, NEW src1 \in Rvalues, NEW src2 \in Rvalues,
             src1 \in Temps => src1 # src2, CMP(src1, src2, l)
      PROVE  FlowInv'
  BY <1>1, <1>3, CMPFlow
<1> QED
  BY <1>2, <1>3 DEF CondBranch

\* A GOTO emits the stores of cleanRegForBranch and touches no temporary.
LEMMA CleanIs ==
    ASSUME Inv, NEW f, f = CleanForBranch(Cur), pending' = pending, acc' = acc
    PROVE  Consume({}, {}) /\ Effect(f, {}, {}) /\ Good(f)
           /\ \A t \in Temps : /\ Holding(f, t) = Holding(Cur, t)
                               /\ Mirrors(f, t) = Mirrors(Cur, t)
<1>1. Good(Cur)
  BY CurGood DEF Inv
<1>2. \A t \in Temps : /\ Keeps(Cur, f, t) /\ Holding(f, t) = Holding(Cur, t)
                       /\ Mirrors(f, t) = Mirrors(Cur, t)
  BY <1>1, CleanForBranchKeeps
<1>3. Good(f)
  BY <1>1, CleanForBranchGood
<1> QED
  BY <1>2, <1>3 DEF Effect, Consume

LEMMA GotoFlow ==
    ASSUME Inv, FlowInv, NEW l \in Labels, GOTO(l)
    PROVE  FlowInv'
<1>1. /\ inFunc /\ sent = <<>> /\ sent' = sent /\ out' = out /\ misread' = misread
      /\ returned' = returned /\ inFunc' = inFunc /\ pending' = pending /\ acc' = acc
      /\ join' = join
  BY DEF GOTO
<1>2. PICK f : f = CleanForBranch(Cur)
  OBVIOUS
<1>3. Become(f) /\ Consume({}, {}) /\ Effect(f, {}, {}) /\ Good(f)
      /\ \A t \in Temps : /\ Holding(f, t) = Holding(Cur, t)
                          /\ Mirrors(f, t) = Mirrors(Cur, t)
  BY <1>1, <1>2, CleanIs DEF GOTO
<1>4. awaited'[l] = pending /\ \A k \in Labels : k # l => awaited'[k] = awaited[k]
  BY DEF GOTO, Inv, TacInv
<1>5. \A k \in Labels : k \notin {NoFlight, EndLabel}
  BY VarsAssumption
<1>6. awaited[l] \in {NotYet, pending}
  BY DEF GOTO
<1>7. (Lossless => Onward) /\ (flight = EndLabel => flight' = EndLabel)
  <2>1. CASE flight = NoFlight
    <3>1. flight' = l /\ pending \in SUBSET Temps
      BY <2>1 DEF GOTO, Inv, TacInv
    <3> QED
      BY <1>1, <1>4, <1>5, <2>1, <3>1, VarsAssumption DEF Onward
  <2>2. CASE flight # NoFlight
    <3>1. flight' = flight
      BY <2>2 DEF GOTO
    <3>2. Lossless /\ flight \in Labels => awaited'[flight] = awaited[flight]
      BY <1>4, <1>6 DEF FlowInv, ValueInv
    <3> QED
      BY <3>1, <3>2 DEF Onward
  <2> QED
    BY <2>1, <2>2
<1>8. Lossless => ~misread'
  BY <1>1 DEF FlowInv, ValueInv
<1>9. CASE jstep = 0 /\ jstep' = jstep
  <2>1. Quiet
    BY <1>1, <1>9 DEF Quiet
  <2> QED
    BY <1>1, <1>3, <1>7, <1>8, <1>9, <2>1, StepFlow
<1>10. CASE jstep = 1 /\ jstep' = 2
  <2>1. Lossless => ArgInv'
    BY <1>1, <1>3, <1>7, StepArgs DEF FlowInv
  <2>2. Lossless => ValueInv'
    BY <1>3, <1>7, <1>8, StepValues DEF FlowInv
  <2>3. /\ acc' \subseteq pending'
        /\ \A t \in Temps : t \notin pending' \cup {join'} => Absent(Cur', t)
    BY <1>1, <1>3, StepTemps DEF FlowInv
  <2>4. join \in pending /\ Holding(Cur, join) # {} /\ join \in Temps
    <3>1. jstep \in {1, 2, 4} /\ jstep \in 1 .. 3
      BY <1>10
    <3> QED
      BY <3>1 DEF FlowInv, TempInv, Inv, TacInv
  <2>5. Holding(Cur', join) = Holding(f, join)
    BY <1>3, <2>4, BecomeViews DEF Inv
  <2>6. PICK w : w = Cur'
    OBVIOUS
  <2>7. jstep' # 0 /\ jstep' # 3 /\ join' \in pending' /\ Holding(w, join') # {}
    BY <1>1, <1>3, <1>10, <2>4, <2>5, <2>6
  <2> QED
    BY <1>1, <2>1, <2>2, <2>3, <2>6, <2>7 DEF FlowInv, TempInv
<1> QED
  BY <1>9, <1>10 DEF GOTO

LEMMA GotoHeadFlow ==
    ASSUME Inv, FlowInv, GotoHead
    PROVE  FlowInv'
<1>1. /\ Quiet /\ sent' = sent /\ out' = out /\ misread' = misread /\ jstep' = jstep
      /\ returned' = returned /\ inFunc' = inFunc /\ pending' = pending /\ acc' = acc
      /\ join' = join /\ awaited' = awaited
  BY DEF GotoHead, tacVars
<1>2. PICK f : f = CleanForBranch(Cur)
  OBVIOUS
<1>3. Become(f) /\ Consume({}, {}) /\ Effect(f, {}, {})
  BY <1>1, <1>2, CleanIs DEF GotoHead
<1>4. Onward /\ (flight = EndLabel => flight' = EndLabel)
  <2>1. \A k \in Labels : k # Gone
    BY VarsAssumption
  <2> QED
    BY <1>1, <2>1, VarsAssumption DEF GotoHead, Onward
<1>5. Lossless => ~misread'
  BY <1>1 DEF FlowInv, ValueInv
<1> QED
  BY <1>1, <1>3, <1>4, <1>5, StepFlow

\* A label empties the mirror: what it listed is lost, and nothing else is.
LEMMA PlaceIs ==
    ASSUME Inv, NEW l \in Labels, NEW P \in SUBSET Temps, PlaceLabel(l, P)
    PROVE  \E f : /\ Become(f)
                  /\ \A t \in Temps : /\ Holding(f, t) = Holding(Cur, t) /\ Mirrors(f, t) = {}
                                      /\ RegRight(Cur, t) => RegRight(f, t)
                  /\ Lossless => \A t \in P : Mirrors(Cur, t) = {}
<1>1. PICK c : c = CleanForBranch(Cur)
  OBVIOUS
<1> DEFINE f == [c EXCEPT !.stack = <<>>, !.stk = [i \in DOMAIN @ |-> Junk]]
<1>2. Become(f)
  BY <1>1 DEF PlaceLabel
<1>3. Good(Cur) /\ Good(c)
  BY <1>1, CurGood, CleanForBranchGood DEF Inv
<1>4. f.desc = c.desc /\ f.reg = c.reg /\ f.stack = <<>>
  BY <1>3 DEF Good, Config
<1> HIDE DEF f
<1>5. ASSUME NEW t \in Temps
      PROVE  /\ Holding(f, t) = Holding(Cur, t) /\ Mirrors(f, t) = {}
             /\ RegRight(Cur, t) => RegRight(f, t)
  <2>1. Holding(c, t) = Holding(Cur, t)
    BY <1>1, <1>3, CleanForBranchKeeps
  <2>2. \A r \in Regs : Cur.desc[r] = t => c.reg[r] = Cur.reg[r]
    <3> DEFINE R == {r \in Regs : Cur.dirty[r] /\ Cur.desc[r] \in Scalars \cup Arrays}
    <3>1. c = Flush(Cur, R)
      BY <1>1 DEF CleanForBranch
    <3>2. \A r \in Regs : Cur.desc[r] = t => r \notin R
      BY NamedVars DEF Named
    <3> HIDE DEF R
    <3> QED
      BY <1>3, <3>1, <3>2, FlushIs
  <2>3. RegRight(Cur, t) => RegRight(f, t)
    BY <1>4, <2>1, <2>2 DEF RegRight, Holding
  <2> QED
    BY <1>4, <2>1, <2>3 DEF Holding, Mirrors
<1>6. Lossless => \A t \in P : Mirrors(Cur, t) = {}
  BY DEF PlaceLabel, Lossless, Mirrors, Cur
<1> QED
  BY <1>2, <1>5, <1>6

LEMMA PlaceFlow ==
    ASSUME Inv, FlowInv, inFunc, sent = <<>>, NEW l \in Labels, NEW P \in SUBSET Temps,
           PlaceLabel(l, P), P \subseteq pending, awaited[l] \in {NotYet, P}
    PROVE  /\ Lossless => ValueInv' /\ ArgInv'
           /\ acc' \subseteq pending' /\ pending' = P
           /\ \A t \in Temps : /\ Holding(Cur', t) = Holding(Cur, t)
                               /\ Mirrors(Cur', t) = {}
<1>1. PICK f : /\ Become(f)
               /\ \A t \in Temps : /\ Holding(f, t) = Holding(Cur, t) /\ Mirrors(f, t) = {}
                                   /\ RegRight(Cur, t) => RegRight(f, t)
               /\ Lossless => \A t \in P : Mirrors(Cur, t) = {}
  BY PlaceIs
<1>2. /\ sent' = sent /\ out' = out /\ misread' = misread /\ returned' = returned
      /\ pending' = P /\ acc' = acc \cap P
      /\ flight' = IF flight = l THEN NoFlight ELSE flight
      /\ awaited' = [awaited EXCEPT ![l] = NotYet]
  BY DEF PlaceLabel
<1>3. PICK w : w = Cur'
  OBVIOUS
<1>4. \A t : /\ Holding(w, t) = Holding(f, t) /\ Mirrors(w, t) = Mirrors(f, t)
             /\ flight = NoFlight => (RegRight(f, t) => RegRight(w, t))
             /\ flight # NoFlight => reg' = reg
  BY <1>1, <1>3, BecomeViews DEF Inv
<1>5. \A t \in Temps : Holding(w, t) = Holding(Cur, t) /\ Mirrors(w, t) = {}
  BY <1>1, <1>4
<1>6. flight # NoFlight => \A t \in Temps : RegRight(Cur, t) => RegRight(w, t)
  <2>1. flight # NoFlight => w.reg = Cur.reg
    BY <1>3, <1>4 DEF Cur
  <2> QED
    BY <1>5, <2>1 DEF RegRight, Holding
<1>7. l # EndLabel /\ l # NoFlight
  BY VarsAssumption
<1>8. ASSUME Lossless PROVE ValueInv'
  <2>1. \A t \in P : Covered(w, t)
    BY <1>1, <1>5, <1>8 DEF Covered, FlowInv, ValueInv
  <2>2. ASSUME flight' = NoFlight, NEW t \in P PROVE TopRight(w, t) /\ AllRight(w, t)
    <3>1. RegRight(w, t)
      <4>1. CASE flight = NoFlight
        BY <1>1, <1>4, <1>8, <4>1 DEF FlowInv, ValueInv, TopRight
      <4>2. CASE flight = l
        <5>1. awaited[l] = P
          BY <1>8, <4>2 DEF FlowInv, ValueInv
        <5> QED
          BY <1>6, <1>7, <1>8, <4>2, <5>1 DEF FlowInv, ValueInv
      <4> QED
        BY <1>2, <2>2, <4>1, <4>2
    <3> QED
      BY <1>5, <3>1 DEF TopRight, AllRight, Final
  <2>3. ASSUME flight' \in Labels
        PROVE  awaited'[flight'] # NotYet /\ \A t \in awaited'[flight'] : RegRight(w, t)
    <3>1. flight' = flight /\ flight # l /\ flight # NoFlight
      BY <1>2, <2>3, VarsAssumption
    <3>2. awaited'[flight'] = awaited[flight] /\ flight \in Labels
      BY <1>2, <2>3, <3>1 DEF Inv, TacInv
    <3>3. awaited[flight] # NotYet /\ \A t \in awaited[flight] : RegRight(Cur, t)
      BY <1>8, <3>2 DEF FlowInv, ValueInv
    <3>4. awaited[flight] \subseteq Temps
      BY <3>2, <3>3 DEF Inv, TacInv
    <3> QED
      BY <1>6, <3>1, <3>2, <3>3, <3>4
  <2>4. ~misread'
    BY <1>2, <1>8 DEF FlowInv, ValueInv
  <2> QED
    BY <1>2, <1>3, <2>1, <2>2, <2>3, <2>4 DEF ValueInv
<1>9. Lossless => ArgInv'
  <2>1. sent = <<>> /\ sent' = <<>> /\ (flight = EndLabel => flight' = EndLabel)
    BY <1>2, <1>7
  <2> QED
    BY <1>1, <1>2, <2>1, StepArgs DEF FlowInv
<1> QED
  BY <1>2, <1>3, <1>5, <1>8, <1>9

LEMMA LabelFlow ==
    ASSUME Inv, FlowInv, NEW l \in Labels, Label(l)
    PROVE  FlowInv'
<1>1. inFunc /\ sent = <<>> /\ inFunc' = inFunc /\ sent' = sent
  BY DEF Label, PlaceLabel
<1>3. PICK w : w = Cur'
  OBVIOUS
<1>4. PICK P \in SUBSET Temps : /\ PlaceLabel(l, P) /\ P \subseteq pending
                                /\ awaited[l] \in {NotYet, P}
                                /\ \/ jstep = 0 /\ P = pending /\ UNCHANGED <<join, jstep>>
                                   \/ /\ jstep = 2 /\ P = pending \ {join}
                                      /\ jstep' = 3 /\ join' = join
                                   \/ /\ jstep = 4 /\ P = pending
                                      /\ jstep' = 0 /\ join' = NoVar
  <2>1. pending \in SUBSET Temps
    BY DEF Inv, TacInv
  <2>2. pending = {} => PlaceLabel(l, {}) = PlaceLabel(l, pending)
    OBVIOUS
  <2>3. pending \ {join} \in SUBSET Temps
    BY <2>1
  <2>4. CASE jstep = 0 /\ PlaceLabel(l, pending) /\ awaited[l] \in {NotYet, pending}
             /\ UNCHANGED <<join, jstep>>
    BY <2>1, <2>4
  <2>5. CASE jstep = 2 /\ awaited[l] = pending \ {join} /\ PlaceLabel(l, pending \ {join})
             /\ jstep' = 3 /\ UNCHANGED join
    BY <2>3, <2>5
  <2>6. CASE jstep = 4 /\ awaited[l] = pending /\ PlaceLabel(l, pending)
             /\ jstep' = 0 /\ join' = NoVar
    BY <2>1, <2>6
  <2> QED
    BY <2>2, <2>4, <2>5, <2>6 DEF Label
<1>5. /\ Lossless => ValueInv' /\ ArgInv'
      /\ acc' \subseteq pending' /\ pending' = P
      /\ \A t \in Temps : Holding(w, t) = Holding(Cur, t) /\ Mirrors(w, t) = {}
  BY <1>1, <1>3, <1>4, PlaceFlow
<1>6. \A t \in Temps : Absent(Cur, t) => Absent(w, t)
  BY <1>5 DEF Absent
<1>7. TempInv'
  <2>1. CASE jstep = 0 /\ P = pending /\ UNCHANGED <<join, jstep>>
    <3>1. jstep' = 0 /\ join' = NoVar /\ pending' = pending /\ join = NoVar
      BY <1>5, <2>1 DEF FlowInv, TempInv
    <3>2. ~(jstep' \in {1, 2, 4}) /\ jstep' # 3 /\ ~(jstep' \in 1 .. 3)
      BY <3>1
    <3>3. \A t \in Temps : t \notin pending' \cup {join'} => Absent(w, t)
      BY <1>6, <3>1 DEF FlowInv, TempInv
    <3> QED
      BY <1>1, <1>3, <1>5, <3>1, <3>2, <3>3 DEF TempInv
  <2>2. CASE jstep = 2 /\ P = pending \ {join} /\ jstep' = 3 /\ join' = join
    <3>1. join \in Temps /\ Holding(Cur, join) # {}
      <4>1. jstep \in 1 .. 3 /\ jstep # 0
        BY <2>2
      <4> QED
        BY <4>1 DEF FlowInv, TempInv, Inv, TacInv
    <3>2. Holding(w, join') # {} /\ Mirrors(w, join') = {} /\ join' \notin pending'
      BY <1>5, <2>2, <3>1
    <3>3. \A t \in Temps : t \notin pending' \cup {join'} => Absent(w, t)
      BY <1>5, <1>6, <2>2 DEF FlowInv, TempInv
    <3>4. ~(jstep' \in {1, 2, 4}) /\ jstep' # 0
      BY <2>2
    <3> QED
      BY <1>1, <1>3, <1>5, <3>2, <3>3, <3>4 DEF TempInv
  <2>3. CASE jstep = 4 /\ P = pending /\ jstep' = 0 /\ join' = NoVar
    <3>1. join \in pending
      <4>1. jstep \in {1, 2, 4}
        BY <2>3
      <4> QED
        BY <4>1 DEF FlowInv, TempInv
    <3>2. ~(jstep' \in {1, 2, 4}) /\ jstep' # 3 /\ ~(jstep' \in 1 .. 3)
      BY <2>3
    <3>3. \A t \in Temps : t \notin pending' \cup {join'} => Absent(w, t)
      BY <1>5, <1>6, <2>3, <3>1 DEF FlowInv, TempInv
    <3> QED
      BY <1>1, <1>3, <1>5, <2>3, <3>2, <3>3 DEF TempInv
  <2> QED
    BY <1>4, <2>1, <2>2, <2>3
<1> QED
  BY <1>5, <1>7 DEF FlowInv

LEMMA BeginFuncFlow ==
    ASSUME Inv, FlowInv, BeginFunc
    PROVE  FlowInv'
<1>1. /\ pending = {} /\ sent = <<>> /\ jstep = 0 /\ join = NoVar /\ acc = {}
      /\ \A t \in Temps : Absent(Cur, t)
  BY NamedVars DEF BeginFunc, FlowInv, TempInv
<1>2. /\ pending' = {} /\ sent' = <<>> /\ jstep' = 0 /\ join' = NoVar /\ acc' = {}
      /\ inFunc' /\ out' = <<>> /\ flight' = NoFlight /\ returned' = NoVar
      /\ misread' = misread /\ regDescriptor' = regDescriptor /\ stack' = <<>>
  BY <1>1 DEF BeginFunc
<1>3. PICK w : w = Cur'
  OBVIOUS
<1>4. \A t \in Temps : Absent(w, t)
  BY <1>1, <1>2, <1>3 DEF Absent, Holding, Mirrors, Cur
<1>5. TempInv'
  <2>1. ~(jstep' \in {1, 2, 4}) /\ jstep' # 3 /\ ~(jstep' \in 1 .. 3)
    BY <1>2
  <2> QED
    BY <1>2, <1>3, <1>4, <2>1 DEF TempInv
<1>6. Lossless => ValueInv'
  <2>1. flight' \notin Labels
    BY <1>2, VarsAssumption
  <2> QED
    BY <1>2, <2>1 DEF ValueInv, FlowInv
<1>7. ArgInv'
  BY <1>2, RegsAssumption DEF ArgInv
<1> QED
  BY <1>5, <1>6, <1>7 DEF FlowInv

LEMMA EndFuncFlow ==
    ASSUME Inv, FlowInv, EndFunc
    PROVE  FlowInv'
<1>1. /\ pending' = {} /\ sent' = <<>> /\ jstep' = 0 /\ join' = NoVar /\ acc' = {}
      /\ flight' = NoFlight /\ returned' = NoVar /\ misread' = misread /\ out' = out
      /\ \A l \in Labels : awaited'[l] = NotYet
  BY DEF EndFunc, Quiet, FlowInv, TempInv
<1>2. PICK w : w = Cur'
  OBVIOUS
<1>3. w.stack = <<>> /\ \A r \in Regs : w.desc[r] = NoVar
  <2>1. PICK c : c = CleanForBranch(Cur)
    OBVIOUS
  <2> DEFINE f == [c EXCEPT !.stack = <<>>, !.desc = [r \in Regs |-> NoVar],
                            !.dirty = [r \in Regs |-> FALSE]]
  <2>2. Become(f)
    BY <2>1 DEF EndFunc
  <2>3. Good(c)
    BY <2>1, CurGood, CleanForBranchGood DEF Inv
  <2>4. f.stack = <<>> /\ \A r \in Regs : f.desc[r] = NoVar
    BY <2>3 DEF Good, Config
  <2> HIDE DEF f
  <2> QED
    BY <1>2, <2>2, <2>4 DEF Become, Cur
<1>4. \A t \in Temps : Absent(w, t)
  BY <1>3, NamedVars DEF Absent, Holding, Mirrors
<1>5. TempInv'
  <2>1. ~(jstep' \in {1, 2, 4}) /\ jstep' # 3 /\ ~(jstep' \in 1 .. 3)
    BY <1>1
  <2> QED
    BY <1>1, <1>2, <1>4, <2>1 DEF TempInv
<1>6. Lossless => ValueInv'
  <2>1. flight' \notin Labels
    BY <1>1, VarsAssumption
  <2> QED
    BY <1>1, <2>1 DEF ValueInv, FlowInv
<1>7. Lossless => ArgInv'
  <2>1. Lossless => out' = <<>>
    BY <1>1 DEF ArgInv, FlowInv, EndFunc, Quiet
  <2> QED
    BY <1>1, <2>1, RegsAssumption DEF ArgInv
<1> QED
  BY <1>5, <1>6, <1>7 DEF FlowInv

\* The configuration a return ends in, and the register it moves to r0.
LEMMA ReturnIs ==
    ASSUME Inv, MemInv, FlowInv, Quiet, NEW result \in Rvalues, Return(result)
    PROVE  \E f : /\ Become(f) /\ Consume({result} \cap Temps, {})
                  /\ returned' = IF flight = NoFlight THEN result ELSE returned
                  /\ \A t \in Temps : t = result \/ Absent(Cur, t) => Absent(f, t)
                  /\ Lossless /\ flight = NoFlight => f.reg[0] = result
<1> DEFINE used == {result} \cap Temps
<1>1. PICK b : b = CleanForBranch(Cur)
  OBVIOUS
<1> DEFINE c(p) == Unlock(Fill(Lock(p.c, p.r), result, p.r), {p.r})
<1>2. PICK p \in Pick(b, result) :
         /\ Become([CleanForBranch(Discard(c(p), used)) EXCEPT !.reg[0] = c(p).reg[p.r]])
         /\ Consume(used, {})
         /\ returned' = IF flight = NoFlight THEN result ELSE returned
  BY <1>1 DEF Return
<1>3. result \in Vars
  BY RvaluesTyped DEF Inv
<1>4. Good(Cur) /\ Good(b) /\ \A t \in Temps : Keeps(Cur, b, t)
  BY <1>1, CurGood, CleanForBranchGood, CleanForBranchKeeps DEF Inv
<1>5. /\ Good(p.c) /\ p.r \in Regs /\ Holding(p.c, result) \subseteq {p.r}
      /\ p.c.desc[p.r] \in {result, NoVar} /\ \A t \in Temps : Keeps(b, p.c, t)
  <2>1. /\ Good(p.c) /\ p.r \in Regs /\ Holding(p.c, result) \subseteq {p.r}
        /\ \A t \in Temps : Keeps(b, p.c, t)
    BY <1>2, <1>3, <1>4, PickIs, PickKeeps
  <2>2. p.c.desc[p.r] \in {result, NoVar}
    BY <1>2, <1>3, <1>4, PickIs
  <2> QED
    BY <2>1, <2>2
<1> DEFINE k == Lock(p.c, p.r)
           m == Fill(k, result, p.r)
           d == Unlock(m, {p.r})
           e == Discard(d, used)
           h == CleanForBranch(e)
           f == [h EXCEPT !.reg[0] = d.reg[p.r]]
<1>6. Become(f)
  BY <1>2
<1>7. /\ Good(k) /\ \A t \in Temps : Keeps(p.c, k, t)
      /\ k.desc[p.r] \in {result, NoVar} /\ Holding(k, result) \subseteq {p.r}
  <2>1. Good(k) /\ \A t \in Temps : Keeps(p.c, k, t)
    BY <1>5, LockGood, LockKeeps
  <2>2. k.desc = p.c.desc
    BY <1>5 DEF Lock, Good, Config
  <2> QED
    BY <1>5, <2>1, <2>2 DEF Holding
<1> HIDE DEF k
<1>8. Good(m) /\ \A t \in Temps : t # result => Keeps(k, m, t)
  BY <1>3, <1>5, <1>7, FillIs
<1>9. Lossless /\ flight = NoFlight => m.reg[p.r] = result
  <2> SUFFICES ASSUME Lossless, flight = NoFlight PROVE m.reg[p.r] = result
    OBVIOUS
  <2> DEFINE o == [r |-> p.r, c |-> Insert(m, result, p.r)]
  <2>1. o \in Operand(b, result)
    BY <1>2 DEF Operand, k
  <2>2. Settled(b) /\ Findable(b, result)
    BY <1>1, BranchFindable DEF Quiet
  <2>3. o.c.reg[o.r] = result
    <3> HIDE DEF o, m
    <3> QED
      BY <1>3, <2>1, <2>2, OperandValue
  <2>4. o.c.reg[o.r] = m.reg[p.r]
    <3> HIDE DEF m
    <3> QED
      BY <1>8 DEF Insert, Good, Config
  <2> QED
    BY <2>3, <2>4
<1> HIDE DEF m
<1>10. Good(d) /\ d.reg = m.reg /\ \A t \in Temps : Keeps(m, d, t)
  <2>1. Good(d) /\ \A t \in Temps : Keeps(m, d, t)
    BY <1>5, <1>8, LockGood, LockKeeps
  <2>2. d.reg = m.reg
    BY <1>8 DEF Unlock, Good, Config
  <2> QED
    BY <2>1, <2>2
<1> HIDE DEF d, used
<1>11. Good(e) /\ \A t \in Temps : (t \notin used => Keeps(d, e, t)) /\ (t \in used => Absent(e, t))
  BY <1>10, DiscardGood, DiscardKeeps, DiscardDrops
<1> HIDE DEF e
<1>12. Good(h) /\ \A t \in Temps : Keeps(e, h, t)
  BY <1>11, CleanForBranchGood, CleanForBranchKeeps
<1> HIDE DEF h
<1>13. f.desc = h.desc /\ f.stack = h.stack /\ f.reg[0] = d.reg[p.r]
  BY <1>12, RegsAssumption DEF Good, Config, Regs
<1> HIDE DEF f
<1>14. \A t : Absent(h, t) => Absent(f, t)
  BY <1>13 DEF Absent, Holding, Mirrors
<1>15. ASSUME NEW t \in Temps, t = result \/ Absent(Cur, t) PROVE Absent(f, t)
  <2>1. t \in used <=> t = result
    BY <1>15 DEF used
  <2>2. CASE t \in used
    BY <1>11, <1>12, <1>14, <2>2 DEF Keeps
  <2>3. CASE t \notin used
    <3>1. /\ Keeps(Cur, b, t) /\ Keeps(b, p.c, t) /\ Keeps(p.c, k, t) /\ Keeps(k, m, t)
          /\ Keeps(m, d, t) /\ Keeps(d, e, t) /\ Keeps(e, h, t)
      BY <1>4, <1>5, <1>7, <1>8, <1>10, <1>11, <1>12, <2>1, <2>3
    <3> QED
      BY <1>14, <1>15, <2>1, <2>3, <3>1 DEF Keeps
  <2> QED
    BY <2>2, <2>3
<1>16. Lossless /\ flight = NoFlight => f.reg[0] = result
  BY <1>9, <1>10, <1>13
<1> QED
  BY <1>2, <1>6, <1>15, <1>16 DEF used

LEMMA ReturnFlow ==
    ASSUME Inv, MemInv, FlowInv, ReturnStatement
    PROVE  FlowInv'
<1>1. /\ Quiet /\ sent' = sent /\ jstep' = jstep /\ join' = join /\ inFunc' = inFunc
      /\ out' = out /\ misread' = misread /\ awaited' = awaited
      /\ flight' = IF flight = NoFlight THEN EndLabel ELSE flight
  BY DEF ReturnStatement
<1>2. EndLabel \notin Labels \cup {NoFlight}
  BY VarsAssumption
<1>3. ASSUME NEW result \in Rvalues, pending \subseteq {result}, Return(result)
      PROVE  FlowInv'
  <2>1. PICK f : /\ Become(f) /\ Consume({result} \cap Temps, {})
                 /\ returned' = IF flight = NoFlight THEN result ELSE returned
                 /\ \A t \in Temps : t = result \/ Absent(Cur, t) => Absent(f, t)
                 /\ Lossless /\ flight = NoFlight => f.reg[0] = result
    BY <1>1, <1>3, ReturnIs
  <2>2. pending' = {} /\ acc' = {}
    <3>1. pending' = pending \ ({result} \cap Temps) /\ acc' = acc \ ({result} \cap Temps)
      BY <2>1 DEF Consume
    <3>2. pending \subseteq Temps /\ acc \subseteq pending
      BY DEF Inv, TacInv, FlowInv, TempInv
    <3> QED
      BY <1>3, <3>1, <3>2
  <2>3. \A t \in Temps : Absent(f, t)
    <3>1. join = NoVar /\ NoVar \notin Temps
      BY <1>1, NamedVars DEF FlowInv, TempInv, Quiet
    <3> QED
      BY <1>3, <2>1, <3>1 DEF FlowInv, TempInv
  <2>4. PICK w : w = Cur'
    OBVIOUS
  <2>5. \A t \in Temps : Absent(w, t)
    BY <2>1, <2>3, <2>4, BecomeViews DEF Absent, Inv
  <2>6. TempInv'
    <3>1. jstep' = 0 /\ join' = NoVar /\ inFunc'
      BY <1>1 DEF Quiet, FlowInv, TempInv
    <3>2. ~(jstep' \in {1, 2, 4}) /\ jstep' # 3 /\ ~(jstep' \in 1 .. 3)
      BY <3>1
    <3> QED
      BY <2>2, <2>4, <2>5, <3>1, <3>2 DEF TempInv
  <2>7. ASSUME Lossless PROVE ValueInv'
    <3>1. flight' # NoFlight
      BY <1>1, <1>2
    <3>2. ASSUME flight' \in Labels
          PROVE  awaited'[flight'] # NotYet /\ \A t \in awaited'[flight'] : RegRight(w, t)
      <4>1. flight' = flight /\ awaited[flight] # NotYet
        BY <1>1, <1>2, <2>7, <3>2 DEF FlowInv, ValueInv
      <4>2. awaited[flight] \subseteq Temps
        BY <3>2, <4>1 DEF Inv, TacInv
      <4> QED
        BY <1>1, <2>5, <4>1, <4>2 DEF Absent, Holding, RegRight
    <3>3. ~misread'
      BY <1>1, <2>7 DEF FlowInv, ValueInv
    <3> QED
      BY <2>2, <2>4, <3>1, <3>2, <3>3 DEF ValueInv
  <2>8. ASSUME Lossless PROVE ArgInv'
    <3>1. sent' = <<>> /\ out' = <<>> /\ flight' # NoFlight
      BY <1>1, <1>2, <2>8 DEF FlowInv, ArgInv, Quiet
    <3>2. returned' # NoVar => flight' = EndLabel /\ reg'[0] = returned'
      <4>1. CASE flight = NoFlight
        BY <1>1, <2>1, <2>8, <4>1 DEF Become
      <4>2. CASE flight # NoFlight
        BY <1>1, <2>1, <2>8, <4>2 DEF FlowInv, ArgInv, Become, machVars
      <4> QED
        BY <4>1, <4>2
    <3> QED
      BY <3>1, <3>2 DEF ArgInv
  <2> QED
    BY <2>6, <2>7, <2>8 DEF FlowInv
<1>4. ASSUME pending = {}, Become(CleanForBranch(CleanForBranch(Cur))),
             UNCHANGED <<pending, acc, returned>>
      PROVE  FlowInv'
  <2>1. PICK c : c = CleanForBranch(Cur)
    OBVIOUS
  <2>2. PICK f : f = CleanForBranch(c)
    OBVIOUS
  <2>3. Good(c) /\ \A t \in Temps : Keeps(Cur, c, t)
    BY <2>1, CurGood, CleanForBranchGood, CleanForBranchKeeps DEF Inv
  <2>4. \A t \in Temps : Keeps(Cur, f, t)
    BY <2>2, <2>3, CleanForBranchKeeps, KeepsThrough
  <2>5. Become(f) /\ Consume({}, {}) /\ Effect(f, {}, {})
    BY <1>4, <2>1, <2>2, <2>4 DEF Consume, Effect
  <2>6. Onward /\ (flight = EndLabel => flight' = EndLabel)
    BY <1>1, <1>2 DEF Onward
  <2>7. Lossless => ~misread'
    BY <1>1 DEF FlowInv, ValueInv
  <2> QED
    BY <1>1, <1>4, <2>5, <2>6, <2>7, StepFlow
<1> QED
  BY <1>3, <1>4 DEF ReturnStatement

-----------------------------------------------------------------------------
(* Calls *)

LEMMA PassTempIs ==
    ASSUME NEW c, Good(c), Unmapped(c), NEW v \in Temps, NEW r \in Regs,
           NEW d, d = PassTemp(c, v, r)
    PROVE  /\ Good(d) /\ Unmapped(d) /\ \A x \in Regs : x # r => d.reg[x] = c.reg[x]
           /\ r = NumArgRegs => d.stk = c.stk
           /\ AllRight(c, v) /\ Covered(c, v) => d.reg[r] = v
           /\ \A t \in Temps : t # v => Keeps(c, d, t)
<1>1. v \in Vars /\ \A t \in Temps : c.desc[r] # t /\ Holding(c, t) = {}
  BY NamedVars DEF Unmapped, Holding
<1>2. Good(d) /\ Unmapped(d)
  BY <1>1, PassGood
<1>3. Covered(c, v) => Mirrors(c, v) # {}
  BY <1>1 DEF Covered
<1>4. CASE r < NumArgRegs /\ First(Mirrors(c, v)) = {Len(c.stack)}
  <2>1. d = Pop(c, v, r) /\ Len(c.stack) \in Mirrors(c, v)
    BY <1>4 DEF PassTemp, First
  <2>2. d = FillTemp(c, v, r)
    BY <2>1 DEF FillTemp
  <2>3. TopRight(c, v) => d.reg[r] = v
    BY <1>1, <2>1, <2>2, FillTempIs
  <2>4. AllRight(c, v) => TopRight(c, v)
    BY DEF AllRight, TopRight, Final
  <2>5. /\ \A x \in Regs : x # r => d.reg[x] = c.reg[x]
        /\ \A t \in Temps : t # v => Keeps(c, d, t)
    BY <1>1, <2>2, FillTempIs
  <2>6. r # NumArgRegs
    BY <1>4, RegsAssumption DEF Regs
  <2> QED
    BY <1>2, <2>3, <2>4, <2>5, <2>6
<1>5. CASE ~(r < NumArgRegs /\ First(Mirrors(c, v)) = {Len(c.stack)})
  <2>1. PICK ok \in BOOLEAN : ok = \E i \in First(Mirrors(c, v)) : Beneath(c, i) = v
    OBVIOUS
  <2>2. d = Loaded(c, v, r, ok)
    BY <1>5, <2>1 DEF PassTemp
  <2>3. d.stk = c.stk /\ \A x \in Regs : d.reg[x] = IF x = r THEN (IF ok THEN v ELSE Junk)
                                                   ELSE c.reg[x]
    BY <2>2 DEF Loaded, Good, Config
  <2>4. AllRight(c, v) /\ Covered(c, v) => ok
    <3>1. Mirrors(c, v) # {} => \E m \in Mirrors(c, v) : First(Mirrors(c, v)) = {m}
      BY MirrorsIn, FirstIs
    <3> QED
      BY <1>3, <2>1, <3>1 DEF AllRight
  <2>5. \A t \in Temps : Keeps(c, d, t)
    BY <1>1, <2>2, LoadedKeeps
  <2> QED
    BY <1>2, <2>3, <2>4, <2>5
<1> QED
  BY <1>4, <1>5

LEMMA PassNamedIs ==
    ASSUME NEW c, Good(c), Unmapped(c), NEW v \in Vars, v \notin Temps, NEW r \in Regs,
           NEW d, d = Fill(c, v, r)
    PROVE  /\ Good(d) /\ Unmapped(d) /\ \A x \in Regs : x # r => d.reg[x] = c.reg[x]
           /\ d.stk = c.stk
           /\ Settled(c) => d.reg[r] = v
           /\ \A t \in Temps : Keeps(c, d, t)
<1>1. Good(d) /\ Unmapped(d)
  BY PassGood
<1>2. Holding(c, v) = {} /\ \A t \in Temps : c.desc[r] # t
  BY NamedVars DEF Unmapped, Holding
<1>3. v \in Scalars \/ v \in Arrays \/ v \in Consts
  BY DEF Vars
<1>4. \E ok \in BOOLEAN : d = Loaded(c, v, r, ok) /\ (Settled(c) => ok)
  <2>1. CASE v \in Scalars
    <3>1. v \notin Consts /\ v \notin Arrays
      BY <2>1, VarsAssumption
    <3>2. CASE v \in c.mem
      <4>1. d = Loaded(c, v, r, TRUE)
        BY <1>2, <2>1, <3>1, <3>2 DEF Fill, Loaded
      <4> QED
        BY <4>1
    <3>3. CASE v \notin c.mem
      <4>1. d = Loaded(c, v, r, FALSE) /\ ~Settled(c)
        BY <1>2, <2>1, <3>1, <3>3 DEF Fill, Loaded, Settled
      <4> QED
        BY <4>1
    <3> QED
      BY <3>2, <3>3
  <2>2. CASE v \in Arrays
    <3>1. v \notin Consts /\ v \notin Scalars
      BY <2>2, VarsAssumption
    <3>2. d = Loaded(c, v, r, TRUE)
      BY <1>2, <2>2, <3>1 DEF Fill
    <3> QED
      BY <3>2
  <2>3. CASE v \in Consts
    <3>1. v \notin Arrays /\ v \notin Scalars
      BY <2>3, VarsAssumption
    <3>2. d = Loaded(c, v, r, TRUE)
      BY <1>2, <2>3, <3>1 DEF Fill
    <3> QED
      BY <3>2
  <2> QED
    BY <1>3, <2>1, <2>2, <2>3
<1>5. PICK ok \in BOOLEAN : d = Loaded(c, v, r, ok) /\ (Settled(c) => ok)
  BY <1>4
<1>6. d.stk = c.stk /\ \A x \in Regs : d.reg[x] = IF x = r THEN (IF ok THEN v ELSE Junk)
                                                 ELSE c.reg[x]
  BY <1>5 DEF Loaded, Good, Config
<1>7. \A t \in Temps : Keeps(c, d, t)
  BY <1>2, <1>5, LoadedKeeps
<1> QED
  BY <1>1, <1>5, <1>6, <1>7

\* The configuration a Param ends in, and what it says of the parameter.
LEMMA ParamIs ==
    ASSUME Inv, MemInv, FlowInv, NEW arg \in Rvalues \cup Arrays, arg \notin acc, Param(arg)
    PROVE  \E f : LET r == IF paramNum < NumArgRegs THEN paramNum ELSE NumArgRegs
                  IN  /\ Become(f) /\ Effect(f, {arg} \cap Temps, {})
                      /\ out' = IF flight # NoFlight \/ r < NumArgRegs THEN out
                                ELSE Append(out, [val |-> f.reg[r], at |-> Len(f.stk)])
                      /\ Lossless /\ flight = NoFlight => f.reg[r] = arg
                      /\ paramNum # 0 => \A x \in Regs : x # r => f.reg[x] = reg[x]
                      /\ ~(r < NumArgRegs) => f.stk = stk
<1>1. PICK r : r = IF paramNum < NumArgRegs THEN paramNum ELSE NumArgRegs
  OBVIOUS
<1> DEFINE used == {arg} \cap Temps
           c1(c) == IF arg \in Temps THEN PassTemp(c, arg, r) ELSE Fill(c, arg, r)
<1>2. PICK c \in IF paramNum = 0 THEN CleanForCall(Cur) ELSE {Cur} :
         /\ Become(Discard(c1(c), used))
         /\ out' = IF flight # NoFlight \/ r < NumArgRegs THEN out
                   ELSE Append(out, [val |-> c1(c).reg[r], at |-> Len(c1(c).stk)])
  BY <1>1 DEF Param
<1>3. arg \in Vars /\ r \in Regs /\ Temps \subseteq Vars
  BY <1>1, RvaluesTyped, ArgRegister DEF Inv, Vars
<1>4. /\ Good(c) /\ Unmapped(c) /\ (flight = NoFlight => Settled(c))
      /\ \A t \in Temps : Keeps(Cur, c, t)
      /\ paramNum # 0 => c = Cur
  <2>1. (paramNum = 0 \/ sent # <<>>) /\ inFunc
    BY DEF Inv, TacInv, Param
  <2>2. Good(c) /\ Unmapped(c) /\ (flight = NoFlight => Settled(c))
    BY <1>2, <2>1, CalleeUnmapped
  <2>3. \A t \in Temps : Keeps(Cur, c, t)
    <3>1. Good(Cur)
      BY CurGood DEF Inv
    <3> QED
      BY <1>2, <3>1, CleanForCallKeeps, KeepsSelf
  <2> QED
    BY <1>2, <2>2, <2>3
<1> DEFINE d == c1(c)
           f == Discard(d, used)
<1>5. /\ Good(d) /\ Unmapped(d) /\ \A x \in Regs : x # r => d.reg[x] = c.reg[x]
      /\ r = NumArgRegs => d.stk = c.stk
      /\ Lossless /\ flight = NoFlight => d.reg[r] = arg
      /\ \A t \in Temps : t \notin used => Keeps(c, d, t)
  <2>1. CASE arg \in Temps
    <3>1. d = PassTemp(c, arg, r)
      BY <2>1
    <3> HIDE DEF d
    <3>2. Lossless /\ flight = NoFlight => AllRight(c, arg) /\ Covered(c, arg)
      <4>1. arg \in pending
        BY <2>1, VarsAssumption DEF Rvalues, Usable
      <4>2. Lossless /\ flight = NoFlight => AllRight(Cur, arg) /\ Covered(Cur, arg)
        BY <4>1 DEF FlowInv, ValueInv
      <4> QED
        BY <1>4, <2>1, <4>2 DEF Keeps
    <3> QED
      BY <1>3, <1>4, <2>1, <3>1, <3>2, PassTempIs
  <2>2. CASE arg \notin Temps
    <3>1. d = Fill(c, arg, r)
      BY <2>2
    <3> HIDE DEF d
    <3> QED
      BY <1>3, <1>4, <2>2, <3>1, PassNamedIs
  <2> QED
    BY <2>1, <2>2
<1>6. /\ Become(f)
      /\ out' = IF flight # NoFlight \/ r < NumArgRegs THEN out
                ELSE Append(out, [val |-> d.reg[r], at |-> Len(d.stk)])
  BY <1>2
<1> HIDE DEF d
<1>7. Good(f) /\ f.stk = d.stk /\ \A x \in Regs : f.reg[x] = d.reg[x]
  <2>1. \A x \in Regs : d.desc[x] \notin used
    BY <1>5, NamedVars DEF Unmapped
  <2> HIDE DEF used
  <2> QED
    BY <1>5, <2>1, DiscardIs
<1>8. Effect(f, used, {})
  <2>1. \A t \in Temps : (t \notin used => Keeps(d, f, t)) /\ (t \in used => Absent(f, t))
    BY <1>5, DiscardKeeps, DiscardDrops
  <2>2. ASSUME NEW t \in Temps, t \notin used PROVE Keeps(Cur, f, t)
    <3>1. Keeps(Cur, c, t) /\ Keeps(c, d, t) /\ Keeps(d, f, t)
      BY <1>4, <1>5, <2>1, <2>2
    <3> QED
      BY <3>1, KeepsThrough
  <2> QED
    BY <2>1, <2>2 DEF Effect
<1> HIDE DEF f
<1>9. ~(r < NumArgRegs) => r = NumArgRegs /\ paramNum # 0
  BY <1>1, RegsAssumption DEF Inv, TacInv
<1>10. paramNum # 0 => c.reg = reg /\ c.stk = stk
  BY <1>4 DEF Cur
<1>11. /\ out' = IF flight # NoFlight \/ r < NumArgRegs THEN out
                 ELSE Append(out, [val |-> f.reg[r], at |-> Len(f.stk)])
       /\ Lossless /\ flight = NoFlight => f.reg[r] = arg
       /\ paramNum # 0 => \A x \in Regs : x # r => f.reg[x] = reg[x]
       /\ ~(r < NumArgRegs) => f.stk = stk
  BY <1>3, <1>5, <1>6, <1>7, <1>9, <1>10
<1> QED
  BY <1>1, <1>6, <1>8, <1>11

\* The parameters passed before stay where they are, the new one joins them.
LEMMA ParamArgs ==
    ASSUME Inv, ArgInv, NEW arg \in Vars, paramNum = Len(sent), sent' = Append(sent, arg),
           flight' = flight, returned' = returned, NEW f, Become(f), NEW r,
           r = IF paramNum < NumArgRegs THEN paramNum ELSE NumArgRegs,
           out' = IF flight # NoFlight \/ r < NumArgRegs THEN out
                  ELSE Append(out, [val |-> f.reg[r], at |-> Len(f.stk)]),
           flight = NoFlight => f.reg[r] = arg,
           paramNum # 0 => \A x \in Regs : x # r => f.reg[x] = reg[x],
           ~(r < NumArgRegs) => f.stk = stk
    PROVE  ArgInv'
<1>1. /\ sent \in Seq(Vars) /\ out \in Seq([val : Tags, at : Nat]) /\ NumArgRegs \in Nat
      /\ Len(sent) \in Nat /\ Len(out) \in Nat
      /\ \A i \in 0 .. NumArgRegs : i \in Regs
  BY RegsAssumption DEF Inv, TacInv, Regs
<1>2. /\ sent' # <<>> /\ Len(sent') = Len(sent) + 1 /\ DOMAIN sent' = 1 .. Len(sent) + 1
      /\ DOMAIN sent = 1 .. Len(sent) /\ DOMAIN out = 1 .. Len(out)
      /\ sent'[Len(sent) + 1] = arg /\ \A i \in 1 .. Len(sent) : sent'[i] = sent[i]
  BY <1>1
<1>3. ASSUME flight = NoFlight, NEW i \in DOMAIN sent', i <= NumArgRegs
      PROVE  reg'[i - 1] = sent'[i]
  <2>1. reg' = f.reg
    BY <1>3 DEF Become
  <2>2. CASE i = Len(sent) + 1
    <3>1. r = i - 1
      BY <1>1, <1>3, <2>2
    <3> QED
      BY <1>2, <1>3, <2>1, <2>2, <3>1
  <2>3. CASE i \in 1 .. Len(sent)
    <3>1. i - 1 # r /\ paramNum # 0 /\ i - 1 \in Regs
      BY <1>1, <1>3, <2>3
    <3>2. reg[i - 1] = sent[i]
      BY <1>2, <1>3, <2>3 DEF ArgInv
    <3> QED
      BY <1>2, <2>1, <2>3, <3>1, <3>2
  <2> QED
    BY <1>1, <1>2, <1>3, <2>2, <2>3
<1>4. ASSUME flight = NoFlight
      PROVE  /\ Len(out') = IF Len(sent') <= NumArgRegs THEN 0 ELSE Len(sent') - NumArgRegs
             /\ \A j \in DOMAIN out' : out'[j] = [val |-> sent'[j + NumArgRegs], at |-> Len(stk')]
  <2>1. /\ Len(out) = IF Len(sent) <= NumArgRegs THEN 0 ELSE Len(sent) - NumArgRegs
        /\ \A j \in DOMAIN out : out[j] = [val |-> sent[j + NumArgRegs], at |-> Len(stk)]
    BY <1>4 DEF ArgInv
  <2>2. CASE Len(sent) < NumArgRegs
    <3>1. out' = out /\ Len(out) = 0
      BY <1>1, <2>1, <2>2
    <3>2. DOMAIN out' = {}
      BY <1>2, <3>1
    <3> QED
      BY <1>1, <1>2, <2>2, <3>1, <3>2
  <2>3. CASE ~(Len(sent) < NumArgRegs)
    <3>1. r = NumArgRegs /\ ~(r < NumArgRegs) /\ Len(out) = Len(sent) - NumArgRegs
      BY <1>1, <2>1, <2>3
    <3>2. stk' = stk /\ f.stk = stk
      BY <1>4, <3>1 DEF Become
    <3>3. PICK x : x = [val |-> arg, at |-> Len(stk)]
      OBVIOUS
    <3>4. out' = Append(out, x)
      BY <1>4, <3>1, <3>2, <3>3
    <3>5. Len(out') = Len(out) + 1 /\ DOMAIN out' = 1 .. Len(out) + 1
          /\ out'[Len(out) + 1] = x /\ \A j \in 1 .. Len(out) : out'[j] = out[j]
      <4>1. x \in [val : Tags, at : Nat]
        <5>1. stk \in Seq(Tags)
          BY DEF Inv, AllocInv
        <5> QED
          BY <3>3, <5>1 DEF Tags
      <4> QED
        BY <1>1, <3>4, <4>1
    <3>6. Len(out') = Len(sent') - NumArgRegs /\ ~(Len(sent') <= NumArgRegs)
      BY <1>1, <1>2, <2>3, <3>1, <3>5
    <3>7. ASSUME NEW j \in DOMAIN out'
          PROVE  out'[j] = [val |-> sent'[j + NumArgRegs], at |-> Len(stk')]
      <4>1. CASE j = Len(out) + 1
        <5>1. j + NumArgRegs = Len(sent) + 1
          BY <1>1, <3>1, <4>1
        <5> QED
          BY <1>2, <3>2, <3>3, <3>5, <4>1, <5>1
      <4>2. CASE j \in 1 .. Len(out)
        <5>1. j + NumArgRegs \in 1 .. Len(sent)
          BY <1>1, <3>1, <4>2
        <5>2. sent'[j + NumArgRegs] = sent[j + NumArgRegs]
          BY <1>2, <5>1
        <5>3. out[j] = [val |-> sent[j + NumArgRegs], at |-> Len(stk)]
          BY <1>2, <2>1, <4>2
        <5> QED
          BY <3>2, <3>5, <4>2, <5>2, <5>3
      <4>3. j \in 1 .. Len(out) + 1 /\ Len(out) \in Nat
        BY <1>1, <3>5, <3>7
      <4>4. j = Len(out) + 1 \/ j \in 1 .. Len(out)
        BY <4>3
      <4> QED
        BY <4>1, <4>2, <4>4
    <3> QED
      BY <3>6, <3>7
  <2> QED
    BY <2>2, <2>3
<1>5. returned' # NoVar => flight' = EndLabel /\ reg'[0] = returned'
  <2>1. returned # NoVar => flight # NoFlight
    BY VarsAssumption DEF ArgInv
  <2> QED
    BY <2>1 DEF ArgInv, Become, machVars
<1> QED
  BY <1>2, <1>3, <1>4, <1>5 DEF ArgInv

LEMMA ParamFlow ==
    ASSUME Inv, MemInv, FlowInv, NEW arg \in Rvalues \cup Arrays, arg \notin acc, Param(arg)
    PROVE  FlowInv'
<1> DEFINE used == {arg} \cap Temps
<1>1. /\ inFunc /\ jstep = 0 /\ sent' = Append(sent, arg) /\ Consume(used, {})
      /\ flight' = flight /\ misread' = misread /\ returned' = returned /\ inFunc' = inFunc
      /\ awaited' = awaited /\ join' = join /\ jstep' = jstep
  BY DEF Param
<1>2. PICK r : r = IF paramNum < NumArgRegs THEN paramNum ELSE NumArgRegs
  OBVIOUS
<1>3. PICK f : /\ Become(f) /\ Effect(f, used, {})
               /\ out' = IF flight # NoFlight \/ r < NumArgRegs THEN out
                         ELSE Append(out, [val |-> f.reg[r], at |-> Len(f.stk)])
               /\ Lossless /\ flight = NoFlight => f.reg[r] = arg
               /\ paramNum # 0 => \A x \in Regs : x # r => f.reg[x] = reg[x]
               /\ ~(r < NumArgRegs) => f.stk = stk
  BY <1>2, ParamIs
<1>4. used \in SUBSET Temps /\ arg \in Vars /\ paramNum = Len(sent)
  BY RvaluesTyped DEF Inv, TacInv, Vars
<1> HIDE DEF used
<1>5. Lossless => ArgInv'
  <2> SUFFICES ASSUME Lossless PROVE ArgInv'
    OBVIOUS
  <2>1. ArgInv /\ (flight = NoFlight => f.reg[r] = arg)
    BY <1>3 DEF FlowInv
  <2> HIDE DEF Lossless
  <2> QED
    BY <1>1, <1>2, <1>3, <1>4, <2>1, ParamArgs
<1>6. Lossless => ~misread'
  BY <1>1 DEF FlowInv, ValueInv
<1>7. Onward
  BY <1>1 DEF Onward
<1>8. Lossless => ValueInv'
  BY <1>1, <1>3, <1>4, <1>6, <1>7, StepValues DEF FlowInv
<1>9. /\ acc' \subseteq pending'
      /\ \A t \in Temps : t \notin pending' \cup {join'} => Absent(Cur', t)
  BY <1>1, <1>3, <1>4, StepTemps DEF FlowInv
<1>10. TempInv'
  <2>1. jstep' = 0 /\ join' = NoVar
    BY <1>1 DEF FlowInv, TempInv
  <2>2. ~(jstep' \in {1, 2, 4}) /\ jstep' # 3 /\ ~(jstep' \in 1 .. 3)
    BY <2>1
  <2>3. \A i \in DOMAIN sent' : sent'[i] \notin pending'
    <3>1. sent \in Seq(Vars) /\ pending' = pending \ used /\ pending' \subseteq Temps
      BY <1>1 DEF Consume, Inv, TacInv
    <3>2. \A i \in DOMAIN sent' : sent'[i] = arg \/ (i \in DOMAIN sent /\ sent'[i] = sent[i])
      BY <1>1, <1>4, <3>1
    <3>3. \A i \in DOMAIN sent : sent[i] \notin pending
      BY DEF FlowInv, TempInv
    <3>4. arg \notin pending'
      BY <3>1 DEF used
    <3> QED
      BY <3>1, <3>2, <3>3, <3>4
  <2> QED
    BY <1>1, <1>9, <2>1, <2>2, <2>3 DEF TempInv
<1> QED
  BY <1>5, <1>8, <1>10 DEF FlowInv

LEMMA AbsentKeeps ==
    ASSUME NEW c, NEW d, NEW t, Absent(c, t), Absent(d, t)
    PROVE  Keeps(c, d, t)
  BY DEF Keeps, Absent, Covered, Holding, RegRight, TopRight, AllRight, Final

\* The callee uses every register; what is left of them is of no interest.
LEMMA CalleeKeeps ==
    ASSUME NEW c, Good(c), Unmapped(c), NEW g \in [Regs -> Tags], NEW t \in Temps
    PROVE  LET a == [c EXCEPT !.reg = g]
           IN  Good(a) /\ Unmapped(a) /\ a.lock = c.lock /\ a.reg = g /\ Keeps(c, a, t)
               /\ a.mem = c.mem
<1> DEFINE a == [c EXCEPT !.reg = g]
<1>1. Good(a) /\ a.desc = c.desc /\ a.lock = c.lock /\ a.reg = g /\ a.stack = c.stack
      /\ a.stk = c.stk /\ a.mem = c.mem
  BY DEF Good, Config, Coherent
<1> HIDE DEF a
<1>2. \A r \in Regs : c.desc[r] # t
  BY NamedVars DEF Unmapped
<1>3. Keeps(c, a, t)
  BY <1>1, <1>2, KeepsRegs
<1> QED
  BY <1>1, <1>3 DEF Unmapped, a

\* The result of a call is placed in r0: the first register that is clean.
LEMMA ResultRegister ==
    ASSUME NEW a, Good(a), Unmapped(a), a.lock = {}, NEW v \in Temps, Mirrors(a, v) = {},
           NEW p \in Operand(a, v)
    PROVE  p.c.reg = a.reg /\ Mirrors(p.c, v) = {}
<1>1. Holding(a, v) = {} /\ \A r \in Regs : ~a.dirty[r]
  BY NamedVars DEF Holding, Unmapped, Good, Coherent
<1> DEFINE clean == {r \in Regs : ~a.dirty[r] /\ r \notin a.lock}
<1>2. clean # {}
  BY <1>1, RegsAssumption DEF Regs
<1>3. PICK q \in Pick(a, v) :
         p = [r |-> q.r, c |-> Insert(Fill(Lock(q.c, q.r), v, q.r), v, q.r)]
  BY DEF Operand
<1>4. q.c = a /\ q.r \in Regs
  <2>1. PICK r \in First(clean) : q = [r |-> r, c |-> a]
    BY <1>1, <1>2, <1>3 DEF Pick
  <2> QED
    BY <2>1 DEF First
<1> DEFINE k == Lock(a, q.r)
<1>5. Good(k) /\ k.reg = a.reg /\ k.stack = a.stack /\ Holding(k, v) = {} /\ Mirrors(k, v) = {}
  <2>1. Good(k) /\ Holding(k, v) = {}
    BY <1>1, <1>4, LockGood
  <2>2. k.reg = a.reg /\ k.stack = a.stack
    BY DEF Lock, Good, Config
  <2> QED
    BY <2>1, <2>2 DEF Mirrors
<1> HIDE DEF k
<1>6. Fill(k, v, q.r) = k
  <2>1. v \notin Consts /\ v \notin Arrays /\ v \notin Scalars
    BY VarsAssumption
  <2> QED
    BY <1>5, <2>1 DEF Fill, FillTemp
<1>7. p.c = Insert(k, v, q.r)
  BY <1>3, <1>4, <1>6 DEF k
<1>8. p.c.reg = k.reg /\ p.c.stack = k.stack
  BY <1>5, <1>7 DEF Insert, Good, Config
<1> QED
  BY <1>5, <1>8 DEF Mirrors

\* The configuration a call ends in, with its result and without one.
LEMMA CallIs ==
    ASSUME Inv, MemInv, FlowInv, Call
    PROVE  \E f, defs : /\ Become(f) /\ Consume({}, defs) /\ Effect(f, {}, defs)
                        /\ misread' = misread \/ ~misread'
                        /\ defs \subseteq Fresh /\ \A t \in defs : TopRight(f, t) /\ AllRight(f, t)
<1> DEFINE gone == {sent[i] : i \in DOMAIN sent} \cap Temps
           lost(c) == [c EXCEPT !.reg = [r \in Regs |-> Junk]]
           Returns(c, v, r) == [c EXCEPT !.reg = [x \in Regs |-> IF x = r THEN v ELSE Junk]]
           Last(p, result) == Forget(Unlock(Define(p.c, result, p.r), {p.r}), gone)
<1>1. PICK c \in IF sent = <<>> THEN CleanForCall(Cur) ELSE {Cur} :
         \/ Become(Forget(lost(c), gone)) /\ UNCHANGED <<pending, acc, misread>>
         \/ \E rr \in IF Len(sent) = 2 THEN {0, 1} ELSE {0}, result \in Fresh \ gone :
              \E p \in Operand(Returns(c, result, rr), result) :
                 /\ Become(Last(p, result))
                 /\ Reads(p.c.reg[rr] = result)
                 /\ Consume({}, {result})
  BY DEF Call
<1>2. inFunc /\ jstep = 0
  BY DEF Call
<1>3. Good(c) /\ Unmapped(c) /\ c.lock = {} /\ \A t \in Temps : Keeps(Cur, c, t)
  <2>1. Good(c) /\ Unmapped(c)
    BY <1>1, <1>2, CalleeUnmapped
  <2>2. c.lock = {}
    BY <1>1, CalleeGood DEF Inv
  <2>3. Good(Cur)
    BY CurGood DEF Inv
  <2>4. \A t \in Temps : Keeps(Cur, c, t)
    BY <1>1, <2>3, CleanForCallKeeps, KeepsSelf
  <2> QED
    BY <2>1, <2>2, <2>4
<1>4. \A t \in Temps : t \in gone => Absent(Cur, t)
  <2>1. join = NoVar /\ NoVar \notin Temps
    BY <1>2, NamedVars DEF FlowInv, TempInv
  <2>2. \A t \in gone : t \notin pending
    <3>1. \A i \in DOMAIN sent : sent # <<>>
      BY DEF Inv, TacInv
    <3> QED
      BY <3>1 DEF FlowInv, TempInv
  <2> QED
    BY <2>1, <2>2 DEF FlowInv, TempInv
<1> HIDE DEF gone
<1>5. CASE Become(Forget(lost(c), gone)) /\ UNCHANGED <<pending, acc, misread>>
  <2> DEFINE a == lost(c)
             f == Forget(a, gone)
  <2>1. Good(a) /\ \A t \in Temps : Keeps(c, a, t)
    <3> DEFINE g == [r \in Regs |-> Junk]
    <3>1. g \in [Regs -> Tags]
      BY DEF Tags
    <3>2. a = [c EXCEPT !.reg = g]
      OBVIOUS
    <3> HIDE DEF g
    <3>3. \A t \in Temps : Keeps(c, [c EXCEPT !.reg = g], t)
      BY <1>3, <3>1, CalleeKeeps
    <3>4. Good([c EXCEPT !.reg = g])
      BY <1>3, <3>1 DEF Good, Config, Coherent
    <3> QED
      BY <3>2, <3>3, <3>4
  <2>2. Become(f) /\ Consume({}, {})
    BY <1>5 DEF Consume
  <2> HIDE DEF a
  <2>3. \A t \in Temps : Keeps(Cur, a, t)
    BY <1>3, <2>1, KeepsThrough
  <2>4. ASSUME NEW t \in Temps PROVE Keeps(Cur, f, t)
    <3>1. CASE t \in gone
      <4>1. Absent(a, t)
        BY <1>4, <2>3, <3>1 DEF Keeps
      <4>2. Absent(f, t)
        BY <2>1, <4>1, ForgetKeeps
      <4> QED
        BY <1>4, <3>1, <4>2, AbsentKeeps
    <3>2. CASE t \notin gone
      <4>1. Keeps(Cur, a, t) /\ Keeps(a, f, t)
        BY <2>1, <2>3, <3>2, ForgetKeeps
      <4> QED
        BY <4>1, KeepsThrough
    <3> QED
      BY <3>1, <3>2
  <2>5. Effect(f, {}, {})
    BY <2>4 DEF Effect
  <2> QED
    BY <1>5, <2>2, <2>5
<1>6. ASSUME NEW rr \in IF Len(sent) = 2 THEN {0, 1} ELSE {0}, NEW result \in Fresh \ gone,
             NEW p \in Operand(Returns(c, result, rr), result),
             Become(Last(p, result)), Reads(p.c.reg[rr] = result), Consume({}, {result})
      PROVE  \E f, defs : /\ Become(f) /\ Consume({}, defs) /\ Effect(f, {}, defs)
                          /\ misread' = misread \/ ~misread'
                          /\ defs \subseteq Fresh
                          /\ \A t \in defs : TopRight(f, t) /\ AllRight(f, t)
  <2>1. result \in Temps /\ result \in Vars /\ Absent(Cur, result) /\ rr \in Regs
    <3>1. rr \in Regs
      BY RegsAssumption DEF Regs
    <3> QED
      BY <1>2, <3>1, FreshAbsent, NamedVars DEF FlowInv
  <2> DEFINE a == Returns(c, result, rr)
             d == Define(p.c, result, p.r)
             e == Unlock(d, {p.r})
             f == Forget(e, gone)
  <2>2. /\ Good(a) /\ Unmapped(a) /\ a.lock = {} /\ a.reg[rr] = result
        /\ \A t \in Temps : Keeps(c, a, t)
    <3> DEFINE g == [x \in Regs |-> IF x = rr THEN result ELSE Junk]
    <3>1. g \in [Regs -> Tags] /\ g[rr] = result
      BY <2>1 DEF Tags
    <3>2. a = [c EXCEPT !.reg = g]
      OBVIOUS
    <3> HIDE DEF g, a
    <3>3. \A t \in Temps : Keeps(c, a, t)
      BY <1>3, <3>1, <3>2, CalleeKeeps
    <3>4. Good(a) /\ Unmapped(a) /\ a.lock = {} /\ a.reg = g
      BY <1>3, <2>1, <3>1, <3>2, CalleeKeeps
    <3> QED
      BY <3>1, <3>3, <3>4
  <2>3. p \in Operand(a, result) /\ Become(f)
    BY <1>6
  <2> HIDE DEF a
  <2>4. \A t \in Temps : Keeps(Cur, a, t)
    BY <1>3, <2>2, KeepsThrough
  <2>5. Mirrors(a, result) = {}
    BY <2>1, <2>4 DEF Keeps, Absent
  <2>6. p.c.reg = a.reg /\ Mirrors(p.c, result) = {}
    BY <2>1, <2>2, <2>3, <2>5, ResultRegister
  <2>7. /\ Good(p.c) /\ p.r \in Regs /\ p.c.desc[p.r] = result
        /\ \A t \in Temps : t # result => Keeps(a, p.c, t)
    BY <2>1, <2>2, <2>3, OperandIs, OperandLocks
  <2>8. /\ Good(d) /\ TopRight(d, result) /\ Covered(d, result) /\ AllRight(d, result)
        /\ \A t \in Temps : t # result => Keeps(p.c, d, t)
    BY <2>1, <2>6, <2>7, DefineIs, DefineKeeps
  <2> HIDE DEF d
  <2>9. Good(e) /\ \A t \in Temps : Keeps(d, e, t)
    BY <2>7, <2>8, LockGood, LockKeeps
  <2> HIDE DEF e
  <2>10. \A t \in Temps : t \notin gone => Keeps(e, f, t)
    BY <2>9, ForgetKeeps
  <2>11. \A t \in Temps : Absent(e, t) => Absent(f, t)
    BY <2>9, ForgetKeeps
  <2> HIDE DEF f
  <2>12. TopRight(f, result) /\ Covered(f, result) /\ AllRight(f, result)
    <3>1. Keeps(d, e, result) /\ Keeps(e, f, result)
      BY <1>6, <2>1, <2>9, <2>10
    <3> QED
      BY <2>8, <3>1 DEF Keeps
  <2>13. ASSUME NEW t \in Temps, t # result PROVE Keeps(Cur, f, t)
    <3>1. Keeps(Cur, a, t) /\ Keeps(a, p.c, t) /\ Keeps(p.c, d, t) /\ Keeps(d, e, t)
      BY <2>4, <2>7, <2>8, <2>9, <2>13
    <3>2. Keeps(Cur, d, t)
      BY <3>1, KeepsThrough
    <3>3. Keeps(Cur, e, t)
      BY <3>1, <3>2, KeepsThrough
    <3>4. CASE t \in gone
      <4>1. Absent(f, t)
        BY <1>4, <2>11, <3>3, <3>4 DEF Keeps
      <4> QED
        BY <1>4, <3>4, <4>1, AbsentKeeps
    <3>5. CASE t \notin gone
      <4>1. Keeps(e, f, t)
        BY <2>10, <3>5
      <4> QED
        BY <3>3, <4>1, KeepsThrough
    <3> QED
      BY <3>4, <3>5
  <2>14. Effect(f, {}, {result})
    BY <2>12, <2>13 DEF Effect
  <2>15. misread' = misread \/ ~misread'
    <3>1. p.c.reg[rr] = result
      BY <2>2, <2>6
    <3> QED
      BY <1>6, <3>1 DEF Reads, Inv, TacInv
  <2> QED
    BY <1>6, <2>3, <2>12, <2>14, <2>15
<1> HIDE DEF lost, Returns, Last
<1> QED
  BY <1>1, <1>5, <1>6

LEMMA CallFlow ==
    ASSUME Inv, MemInv, FlowInv, Call
    PROVE  FlowInv'
<1>1. /\ inFunc /\ jstep = 0 /\ sent' = <<>> /\ out' = <<>> /\ flight' = flight
      /\ returned' = returned /\ inFunc' = inFunc /\ awaited' = awaited /\ join' = join
      /\ jstep' = jstep
  BY DEF Call
<1>2. PICK f, defs : /\ Become(f) /\ Consume({}, defs) /\ Effect(f, {}, defs)
                     /\ misread' = misread \/ ~misread'
                     /\ defs \subseteq Fresh /\ \A t \in defs : TopRight(f, t) /\ AllRight(f, t)
  BY CallIs
<1>3. defs \in SUBSET Temps /\ \A t \in defs : t \notin Awaited
  BY <1>2 DEF Fresh
<1>4. Lossless => ~misread'
  BY <1>2 DEF FlowInv, ValueInv
<1>5. Onward
  BY <1>1 DEF Onward
<1>6. Lossless => ValueInv'
  BY <1>2, <1>3, <1>4, <1>5, StepValues DEF FlowInv
<1>7. /\ acc' \subseteq pending'
      /\ \A t \in Temps : t \notin pending' \cup {join'} => Absent(Cur', t)
  BY <1>1, <1>2, <1>3, StepTemps DEF FlowInv
<1>8. Lossless => ArgInv'
  <2>1. DOMAIN sent' = {} /\ Len(sent') = 0 /\ DOMAIN out' = {} /\ Len(out') = 0
    BY <1>1
  <2>2. Lossless /\ returned' # NoVar => flight' = EndLabel /\ reg'[0] = returned'
    <3>1. EndLabel # NoFlight
      BY VarsAssumption
    <3> QED
      BY <1>1, <1>2, <3>1 DEF FlowInv, ArgInv, Become, machVars
  <2> QED
    BY <1>1, <2>1, <2>2, RegsAssumption DEF ArgInv
<1>9. TempInv'
  <2>1. jstep' = 0 /\ join' = NoVar
    BY <1>1 DEF FlowInv, TempInv
  <2>2. ~(jstep' \in {1, 2, 4}) /\ jstep' # 3 /\ ~(jstep' \in 1 .. 3)
    BY <2>1
  <2> QED
    BY <1>1, <1>7, <2>1, <2>2 DEF TempInv
<1> QED
  BY <1>6, <1>8, <1>9 DEF FlowInv

-----------------------------------------------------------------------------
(* The theorems *)

LEMMA IdleFlow ==
    ASSUME FlowInv, UNCHANGED vars
    PROVE  FlowInv'
<1>1. TempInv' <=> TempInv
  BY DEF TempInv, Cur, Absent, Holding, Mirrors, vars, armsVars, machVars, tacVars
<1>2. ValueInv' <=> ValueInv
  BY DEF ValueInv, Cur, Covered, TopRight, AllRight, RegRight, Beneath, Holding, Mirrors,
         Final, At, vars, armsVars, machVars, tacVars
<1>3. ArgInv' <=> ArgInv
  BY DEF ArgInv, vars, armsVars, machVars, tacVars
<1> QED
  BY <1>1, <1>2, <1>3 DEF FlowInv

LEMMA NextFlow == Inv /\ MemInv /\ FlowInv /\ [Next]_vars => FlowInv'
<1> SUFFICES ASSUME Inv, MemInv, FlowInv, [Next]_vars PROVE FlowInv'
  OBVIOUS
<1>1. CASE BeginFunc
  BY <1>1, BeginFuncFlow
<1>2. CASE AssignVar
  BY <1>2, AssignVarFlow
<1>3. CASE AssignTemp
  BY <1>3, AssignTempFlow
<1>4. CASE Compute
  BY <1>4, ComputeFlow
<1>5. CASE CondBranch
  BY <1>5, CondBranchFlow
<1>6. CASE \E l \in Labels : GOTO(l) \/ Label(l)
  BY <1>6, GotoFlow, LabelFlow
<1>7. CASE GotoHead
  BY <1>7, GotoHeadFlow
<1>8. CASE ReturnStatement
  BY <1>8, ReturnFlow
<1>9. CASE EndFunc
  BY <1>9, EndFuncFlow
<1>10. CASE \E arg \in Rvalues \cup Arrays : arg \notin acc /\ Param(arg)
  BY <1>10, ParamFlow
<1>11. CASE Call
  BY <1>11, CallFlow
<1>12. CASE UNCHANGED vars
  BY <1>12, IdleFlow
<1> QED
  BY <1>1, <1>2, <1>3, <1>4, <1>5, <1>6, <1>7, <1>8, <1>9, <1>10, <1>11, <1>12 DEF Next

LEMMA AlwaysFlow == Spec => [](Inv /\ MemInv /\ FlowInv)
<1>1. Init => Inv /\ MemInv /\ FlowInv
  BY InitInv, InitMem, InitFlow
<1>2. Inv /\ MemInv /\ FlowInv /\ [Next]_vars => Inv' /\ MemInv' /\ FlowInv'
  BY NextInv, NextMem, NextFlow
<1> QED
  BY <1>1, <1>2, PTL DEF Spec

\* Every instruction the handlers emit reads its operands from registers that hold
\* them, whatever was spilled, pushed, popped or evicted since they were computed:
\* pickRegForVar, fillReg and the cleanings of Arms, in every TAC whose labels
\* are placed with no pending temporary on the stack.
THEOREM OperandsAreRead ==
    ASSUME ~LabelsMayForget
    PROVE  Spec => []OperandsCorrect
<1>1. FlowInv => OperandsCorrect
  BY DEF FlowInv, Lossless, ValueInv, OperandsCorrect
<1> QED
  BY <1>1, AlwaysFlow, PTL

\* A temporary that is still needed is in the register that regDescriptor names,
\* or where the mirror `stack' says on the run-time stack: the loop of fillReg
\* over the mirror finds its value.
THEOREM PendingFound ==
    ASSUME ~LabelsMayForget
    PROVE  Spec => []PendingFindable
<1>1. Inv /\ FlowInv => PendingFindable
  <2> SUFFICES ASSUME Inv, FlowInv, flight = NoFlight, NEW t \in pending
               PROVE  \/ \E r \in Regs : regDescriptor[r] = t /\ reg[r] = t
                      \/ /\ Mirrors(Cur, t) # {}
                         /\ \A i \in Final(Mirrors(Cur, t)) : Beneath(Cur, i) = t
    BY DEF PendingFindable
  <2>1. Covered(Cur, t) /\ TopRight(Cur, t)
    BY DEF FlowInv, Lossless, ValueInv
  <2>2. CASE Holding(Cur, t) # {}
    <3>1. PICK r \in Regs : Cur.desc[r] = t
      BY <2>2 DEF Holding
    <3>2. Cur.reg[r] = t
      BY <2>1, <3>1 DEF TopRight, RegRight
    <3> QED
      BY <3>1, <3>2 DEF Cur
  <2>3. CASE Holding(Cur, t) = {}
    BY <2>1, <2>3 DEF Covered, TopRight
  <2> QED
    BY <2>2, <2>3
<1> QED
  BY <1>1, AlwaysFlow, PTL

\* What regDescriptor says of a variable, an array or a pending temporary is true of
\* the machine whenever the path runs the code being emitted.
THEOREM DescriptorTrue ==
    ASSUME ~LabelsMayForget
    PROVE  Spec => []DescriptorTruth
<1>1. Inv /\ MemInv /\ FlowInv => DescriptorTruth
  <2> SUFFICES ASSUME MemInv, FlowInv, flight = NoFlight, NEW r \in Regs,
                      regDescriptor[r] \in Scalars \cup Arrays \cup pending
               PROVE  reg[r] = regDescriptor[r]
    BY DEF DescriptorTruth
  <2>1. CASE regDescriptor[r] \in Scalars \cup Arrays
    BY <2>1 DEF MemInv, Named
  <2>2. CASE regDescriptor[r] \in pending
    BY <2>2 DEF FlowInv, Lossless, ValueInv, TopRight, RegRight, Cur
  <2> QED
    BY <2>1, <2>2
<1> QED
  BY <1>1, AlwaysFlow, PTL

\* While generateParam passes the parameters of a call, the first ones stay in r0 to r3
\* and the others in the words that their distance from sp names: no pop moves sp
\* once a word has been stored below it.
THEOREM ArgumentsStay ==
    ASSUME ~LabelsMayForget
    PROVE  Spec => []ArgumentsInPlace
<1>1. Inv /\ FlowInv => ArgumentsInPlace
  <2> SUFFICES ASSUME Inv, FlowInv, flight = NoFlight, NEW i \in DOMAIN sent
               PROVE  IF i <= NumArgRegs THEN reg[i - 1] = sent[i]
                      ELSE out[i - NumArgRegs] = [val |-> sent[i], at |-> Len(stk)]
    BY DEF ArgumentsInPlace
  <2>1. ArgInv
    BY DEF FlowInv, Lossless
  <2>2. /\ i \in 1 .. Len(sent) /\ Len(sent) \in Nat /\ NumArgRegs \in Nat
        /\ DOMAIN out = 1 .. Len(out)
    BY RegsAssumption DEF Inv, TacInv
  <2>3. CASE i <= NumArgRegs
    BY <2>1, <2>3 DEF ArgInv
  <2>4. CASE ~(i <= NumArgRegs)
    <3>1. Len(out) = Len(sent) - NumArgRegs
      BY <2>1, <2>2, <2>4 DEF ArgInv
    <3>2. PICK j : j = i - NumArgRegs
      OBVIOUS
    <3>3. j \in DOMAIN out /\ j + NumArgRegs = i
      BY <2>2, <2>4, <3>1, <3>2
    <3>4. out[j] = [val |-> sent[j + NumArgRegs], at |-> Len(stk)]
      BY <2>1, <3>3 DEF ArgInv
    <3> QED
      BY <2>4, <3>2, <3>3, <3>4
  <2> QED
    BY <2>3, <2>4
<1> QED
  BY <1>1, AlwaysFlow, PTL

\* generateReturn moves the value of the expression to r0, and nothing between there
\* and the end of the function, where the path arrives, touches it.
THEOREM ResultArrives ==
    ASSUME ~LabelsMayForget
    PROVE  Spec => []ResultInR0
<1>1. FlowInv => ResultInR0
  BY DEF FlowInv, Lossless, ArgInv, ResultInR0
<1> QED
  BY <1>1, AlwaysFlow, PTL

\* cleanRegForBranch at a statement's label leaves only constants mapped and
\* generateLabel empties the mirror, whatever the TAC: the code that follows
\* fits every path that reaches the label, a jump back to a loop head included.
THEOREM LabelForgets == Spec => LabelForgetsVariables
<1>1. ASSUME Inv, FlowInv, NEW l \in Labels, Label(l), jstep = 0, pending = {}
      PROVE  stack' = <<>> /\ \A r \in Regs : regDescriptor'[r] \in Consts \cup {NoVar}
  <2>1. PICK c : c = CleanForBranch(Cur)
    OBVIOUS
  <2> DEFINE f == [c EXCEPT !.stack = <<>>, !.stk = [i \in DOMAIN @ |-> Junk]]
  <2>2. Become(f)
    BY <1>1, <2>1 DEF Label, PlaceLabel
  <2>3. Good(Cur) /\ Good(c)
    BY <1>1, <2>1, CurGood, CleanForBranchGood DEF Inv
  <2>4. f.stack = <<>> /\ f.desc = c.desc
    BY <2>3 DEF Good, Config
  <2> HIDE DEF f
  <2>5. \A r \in Regs : c.desc[r] \notin Named
    BY <2>1, <2>3, CleanForBranchDesc
  <2>6. \A r \in Regs : c.desc[r] \notin Temps
    <3>1. \A t \in Temps : Absent(Cur, t)
      BY <1>1, NamedVars DEF FlowInv, TempInv
    <3>2. \A t \in Temps : Holding(c, t) = Holding(Cur, t)
      BY <2>1, <2>3, CleanForBranchKeeps
    <3> QED
      BY <3>1, <3>2 DEF Absent, Holding
  <2>7. \A r \in Regs : c.desc[r] \in Vars \cup {NoVar}
    BY <2>3 DEF Good, Config
  <2> QED
    BY <2>2, <2>4, <2>5, <2>6, <2>7 DEF Become, Vars, Named
<1>2. Inv /\ FlowInv /\ [Next]_vars =>
         [\A l \in Labels : Label(l) /\ jstep = 0 /\ pending = {} =>
            /\ stack' = <<>>
            /\ \A r \in Regs : regDescriptor'[r] \in Consts \cup {NoVar}]_vars
  BY <1>1
<1> QED
  BY <1>2, AlwaysFlow, PTL DEF Spec, LabelForgetsVariables
=============================================================================
