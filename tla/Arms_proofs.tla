----------------------------- MODULE Arms_proofs -----------------------------
(***************************************************************************)
(* Type correctness of Arms, the coherence of its register descriptor and  *)
(* the currency of the memory words, for every number of registers and     *)
(* every set of variables.  Each helper of Arms maps a good configuration  *)
(* to good configurations; an action is a composition of helpers that ends *)
(* with no register locked.                                                *)
(***************************************************************************)
EXTENDS Arms, FiniteSetTheorems, TLAPS

\* The part of OneRegisterPerVariable that holds inside a handler too.
Coherent(c) ==
    /\ \A r \in Regs : c.dirty[r] <=> c.desc[r] # NoVar
    /\ \A r, s \in Regs : c.desc[r] = c.desc[s] /\ c.desc[r] # NoVar => r = s

Good(c) == c \in Config /\ Coherent(c)

-----------------------------------------------------------------------------
(* The helpers *)

\* Replacing elements of a sequence by a member of its element set.
LEMMA ReplaceInSeq ==
    ASSUME NEW S, NEW q \in Seq(S), NEW x \in S, NEW T
    PROVE  [i \in DOMAIN q |-> IF q[i] \in T THEN x ELSE q[i]] \in Seq(S)
  OBVIOUS

\* Unmapping registers keeps a configuration good.
LEMMA UnmapGood ==
    ASSUME NEW c, Good(c), NEW R
    PROVE  Good(Unmap(c, R)) /\ Unmap(c, R).lock = c.lock
  BY DEF Good, Config, Coherent, Unmap, Tags

\* So does storing and unmapping them.
LEMMA FlushGood ==
    ASSUME NEW c, Good(c), NEW R
    PROVE  Good(Flush(c, R)) /\ Flush(c, R).lock = c.lock
<1> DEFINE stored(v) == {r \in R : c.desc[r] = v}
           current == {v \in Scalars : IF stored(v) = {} THEN v \in c.mem
                                    ELSE \E r \in Final(stored(v)) : c.reg[r] = v}
           d == [c EXCEPT !.mem = current]
<1>1. current \in SUBSET Scalars
  OBVIOUS
<1> HIDE DEF current
<1>2. Good(d) /\ d.lock = c.lock
  BY <1>1 DEF Good, Config, Coherent
<1>3. Flush(c, R) = Unmap(d, R)
  BY DEF Flush, current
<1> QED
  BY <1>2, <1>3, UnmapGood

\* Pushing registers that hold temporaries keeps the two stacks typed.
LEMMA PushGood ==
    ASSUME NEW c, Good(c), NEW n \in Nat, NEW q \in [1 .. n -> Regs],
           \A i \in 1 .. n : c.desc[q[i]] \in Temps
    PROVE  Good(Push(c, q)) /\ Push(c, q).lock = c.lock /\ Push(c, q).desc = c.desc
<1> DEFINE names == [i \in DOMAIN q |-> c.desc[q[i]]]
           tags  == [i \in DOMAIN q |-> c.reg[q[i]]]
<1>1. names \in Seq(Places) /\ tags \in Seq(Tags)
  BY DEF Good, Config, Places
<1>2. c.stack \o names \in Seq(Places) /\ c.stk \o tags \in Seq(Tags)
  BY <1>1 DEF Good, Config
<1> HIDE DEF names, tags
<1>3. Push(c, q) = [c EXCEPT !.stack = c.stack \o names, !.stk = c.stk \o tags]
  BY DEF Push, names, tags
<1> QED
  BY <1>2, <1>3 DEF Good, Config, Coherent

LEMMA EvictGood ==
    ASSUME NEW c, Good(c), NEW r \in Regs
    PROVE  Good(Evict(c, r)) /\ Evict(c, r).lock = c.lock
<1>1. CASE c.desc[r] \in Temps
  <2>1. Good(Push(c, <<r>>)) /\ Push(c, <<r>>).lock = c.lock
    <3>1. <<r>> \in [1 .. 1 -> Regs] /\ \A i \in 1 .. 1 : c.desc[<<r>>[i]] \in Temps
      BY <1>1
    <3> QED
      BY <3>1, PushGood
  <2> QED
    BY <1>1, <2>1, FlushGood DEF Evict
<1>2. CASE c.desc[r] \notin Temps
  BY <1>2, FlushGood DEF Evict
<1> QED
  BY <1>1, <1>2

\* A register picked for v is a register, and no other one holds v.
LEMMA PickGood ==
    ASSUME NEW c, Good(c), NEW v \in Vars, NEW p \in Pick(c, v)
    PROVE  /\ Good(p.c) /\ p.r \in Regs /\ p.c.lock = c.lock
           /\ Holding(p.c, v) \subseteq {p.r}
<1> DEFINE clean == {r \in Regs : ~c.dirty[r] /\ r \notin c.lock}
<1>1. CASE Holding(c, v) # {}
  <2>1. p.c = c /\ p.r \in Final(Holding(c, v))
    BY <1>1 DEF Pick
  <2>2. \A r, s \in Holding(c, v) : r = s
    BY VarsAssumption DEF Good, Coherent, Holding
  <2> QED
    BY <2>1, <2>2 DEF Final, Holding
<1>2. CASE Holding(c, v) = {} /\ clean # {}
  <2>1. p.c = c /\ p.r \in First(clean)
    BY <1>2 DEF Pick
  <2> QED
    BY <1>2, <2>1 DEF First
<1>3. CASE Holding(c, v) = {} /\ clean = {}
  <2>1. PICK r \in Regs \ c.lock : p = [r |-> r, c |-> Evict(c, r)]
    BY <1>3 DEF Pick
  <2>2. \A x \in Regs : Evict(c, r).desc[x] = v => c.desc[x] = v
    BY VarsAssumption DEF Evict, Flush, Unmap, Push, Good, Config
  <2> QED
    BY <1>3, <2>1, <2>2, EvictGood DEF Holding
<1> QED
  BY <1>1, <1>2, <1>3

LEMMA PopGood ==
    ASSUME NEW c, Good(c), NEW v \in Vars, NEW r \in Regs
    PROVE  Good(Pop(c, v, r)) /\ Pop(c, v, r).lock = c.lock /\ Pop(c, v, r).desc = c.desc
<1>1. Front(c.stack) \in Seq(Places) /\ Front(c.stk) \in Seq(Tags)
  BY DEF Good, Config, Front
<1> QED
  BY <1>1 DEF Pop, Loaded, Good, Config, Coherent, Tags

\* Filling a register leaves the descriptor alone.
LEMMA FillGood ==
    ASSUME NEW c, Good(c), NEW v \in Vars, NEW r \in Regs
    PROVE  Good(Fill(c, v, r)) /\ Fill(c, v, r).lock = c.lock /\ Fill(c, v, r).desc = c.desc
<1>1. \A ok \in BOOLEAN : /\ Good(Loaded(c, v, r, ok))
                         /\ Loaded(c, v, r, ok).lock = c.lock
                         /\ Loaded(c, v, r, ok).desc = c.desc
  BY DEF Loaded, Good, Config, Coherent, Tags
<1>2. /\ Good(FillTemp(c, v, r))
      /\ FillTemp(c, v, r).lock = c.lock /\ FillTemp(c, v, r).desc = c.desc
  <2>1. FillTemp(c, v, r) \in {c, Pop(c, v, r), Loaded(c, v, r, TRUE), Loaded(c, v, r, FALSE)}
    BY DEF FillTemp, Loaded
  <2> QED
    BY <1>1, <2>1, PopGood
<1>3. CASE v \in Consts
  <2>1. v \notin Arrays /\ v \notin Scalars /\ v \notin Temps
    BY <1>3, VarsAssumption
  <2>2. Fill(c, v, r) = Loaded(c, v, r, TRUE)
    BY <1>3, <2>1 DEF Fill
  <2> QED
    BY <1>1, <2>2
<1>4. CASE v \notin Consts /\ Holding(c, v) # {}
  <2>1. CASE r \in Final(Holding(c, v))
    <3>1. Fill(c, v, r) = c
      BY <1>4, <2>1 DEF Fill
    <3> QED
      BY <3>1
  <2>2. CASE r \notin Final(Holding(c, v))
    <3>1. Fill(c, v, r) \in {Loaded(c, v, r, TRUE), Loaded(c, v, r, FALSE)}
      BY <1>4, <2>2 DEF Fill, Loaded
    <3> QED
      BY <1>1, <3>1
  <2> QED
    BY <2>1, <2>2
<1>5. CASE v \in Arrays /\ Holding(c, v) = {}
  <2>1. v \notin Consts /\ v \notin Scalars /\ v \notin Temps
    BY <1>5, VarsAssumption
  <2>2. Fill(c, v, r) = Loaded(c, v, r, TRUE)
    BY <1>5, <2>1 DEF Fill
  <2> QED
    BY <1>1, <2>2
<1>6. CASE v \in Scalars /\ Holding(c, v) = {}
  <2>1. v \notin Consts /\ v \notin Arrays /\ v \notin Temps
    BY <1>6, VarsAssumption
  <2>2. Fill(c, v, r) \in {Loaded(c, v, r, TRUE), Loaded(c, v, r, FALSE)}
    BY <1>6, <2>1 DEF Fill, Loaded
  <2> QED
    BY <1>1, <2>2
<1>7. CASE v \in Temps /\ Holding(c, v) = {}
  <2>1. v \notin Consts /\ v \notin Arrays /\ v \notin Scalars
    BY <1>7, VarsAssumption
  <2>2. Fill(c, v, r) = FillTemp(c, v, r)
    BY <1>7, <2>1 DEF Fill
  <2> QED
    BY <1>2, <2>2
<1> QED
  BY <1>3, <1>4, <1>5, <1>6, <1>7 DEF Vars

\* Mapping v to the only register that may hold it.
LEMMA InsertGood ==
    ASSUME NEW c, Good(c), NEW v \in Vars, NEW r \in Regs, Holding(c, v) \subseteq {r}
    PROVE  Good(Insert(c, v, r)) /\ Insert(c, v, r).lock = c.lock
<1> DEFINE d == Insert(c, v, r)
<1>1. d \in Config /\ d.lock = c.lock
  BY DEF Insert, Good, Config
<1>2. /\ d.desc = [c.desc EXCEPT ![r] = v] /\ d.dirty = [c.dirty EXCEPT ![r] = TRUE]
      /\ c.desc \in [Regs -> Vars \cup {NoVar}] /\ c.dirty \in [Regs -> BOOLEAN]
  BY DEF Insert, Good, Config
<1>3. \A x \in Regs : c.desc[x] = v => x = r
  BY DEF Holding
<1>4. v # NoVar /\ Coherent(c)
  BY VarsAssumption DEF Good
<1> HIDE DEF d
<1>5. Coherent(d)
  BY <1>2, <1>3, <1>4 DEF Coherent
<1> QED
  BY <1>1, <1>5 DEF d, Good

\* Locks change nothing else.
LEMMA LockGood ==
    ASSUME NEW c, Good(c), NEW r \in Regs, NEW R
    PROVE  /\ Good(Lock(c, r)) /\ Lock(c, r).lock = c.lock \cup {r}
           /\ \A v : Holding(Lock(c, r), v) = Holding(c, v)
           /\ Good(Unlock(c, R)) /\ Unlock(c, R).lock = c.lock \ R
  BY DEF Lock, Unlock, Good, Config, Coherent, Holding

\* Gathering an operand locks the register it is in, and that only.
LEMMA OperandGood ==
    ASSUME NEW c, Good(c), NEW v \in Vars, NEW p \in Operand(c, v)
    PROVE  Good(p.c) /\ p.r \in Regs /\ p.c.lock = c.lock \cup {p.r}
<1>1. PICK q \in Pick(c, v) :
         p = [r |-> q.r, c |-> Insert(Fill(Lock(q.c, q.r), v, q.r), v, q.r)]
  BY DEF Operand
<1>2. /\ Good(q.c) /\ q.r \in Regs /\ q.c.lock = c.lock
      /\ Holding(q.c, v) \subseteq {q.r}
  BY PickGood
<1> DEFINE d == Lock(q.c, q.r)
           e == Fill(d, v, q.r)
<1>3. Good(d) /\ d.lock = c.lock \cup {q.r} /\ Holding(d, v) \subseteq {q.r}
  BY <1>2, LockGood
<1> HIDE DEF d
<1>4. Good(e) /\ e.lock = d.lock /\ Holding(e, v) \subseteq {q.r}
  BY <1>2, <1>3, FillGood DEF Holding
<1> HIDE DEF e
<1>5. Good(Insert(e, v, q.r)) /\ Insert(e, v, q.r).lock = e.lock
  BY <1>2, <1>4, InsertGood
<1> QED
  BY <1>1, <1>2, <1>3, <1>4, <1>5 DEF d, e

LEMMA DefineGood ==
    ASSUME NEW c, Good(c), NEW v \in Vars, NEW r \in Regs
    PROVE  Good(Define(c, v, r)) /\ Define(c, v, r).lock = c.lock
<1>1. [i \in DOMAIN c.stk |-> IF c.stk[i] = v THEN Junk ELSE c.stk[i]] \in Seq(Tags)
  BY DEF Good, Config, Tags
<1>2. [x \in Regs |-> IF x = r THEN v ELSE IF c.reg[x] = v THEN Junk ELSE c.reg[x]]
         \in [Regs -> Tags]
  BY DEF Good, Config, Tags
<1> QED
  BY <1>1, <1>2 DEF Define, Good, Config, Coherent

LEMMA SpillDstGood ==
    ASSUME NEW c, Good(c), NEW v, NEW r
    PROVE  Good(SpillDst(c, v, r)) /\ SpillDst(c, v, r).lock = c.lock
  BY FlushGood DEF SpillDst

LEMMA DiscardConstGood ==
    ASSUME NEW c, Good(c), NEW v, NEW r
    PROVE  Good(DiscardConst(c, v, r)) /\ DiscardConst(c, v, r).lock = c.lock
  BY UnmapGood DEF DiscardConst

LEMMA DiscardGood ==
    ASSUME NEW c, Good(c), NEW T
    PROVE  Good(Discard(c, T)) /\ Discard(c, T).lock = c.lock
<1> DEFINE dead == {r \in Regs : c.desc[r] \in T /\ r \in Final(Holding(c, c.desc[r]))}
           u == Unmap(c, dead)
           marked == [i \in DOMAIN u.stack |-> IF u.stack[i] \in T THEN Stale ELSE u.stack[i]]
<1>1. Good(u) /\ u.lock = c.lock
  BY UnmapGood
<1>2. Discard(c, T) = [u EXCEPT !.stack = marked]
  BY DEF Discard
<1> HIDE DEF u
<1>3. marked \in Seq(Places)
  <2>1. u.stack \in Seq(Places) /\ Stale \in Places
    BY <1>1 DEF Good, Config, Places
  <2> QED
    BY <2>1, ReplaceInSeq
<1> HIDE DEF marked
<1> QED
  BY <1>1, <1>2, <1>3 DEF Good, Config, Coherent

LEMMA ForgetGood ==
    ASSUME NEW c, Good(c), NEW T
    PROVE  Good(Forget(c, T)) /\ Forget(c, T).lock = c.lock
<1>1. [i \in DOMAIN c.stk |-> IF c.stk[i] \in T THEN Junk ELSE c.stk[i]] \in Seq(Tags)
  BY DEF Good, Config, Tags
<1> QED
  BY <1>1 DEF Forget, Good, Config, Coherent, Tags

LEMMA RetireGood ==
    ASSUME NEW c, Good(c), NEW T
    PROVE  Good(Retire(c, T)) /\ Retire(c, T).lock = c.lock
  BY DiscardGood, ForgetGood DEF Retire

LEMMA CleanForBranchGood ==
    ASSUME NEW c, Good(c)
    PROVE  Good(CleanForBranch(c)) /\ CleanForBranch(c).lock = c.lock
  BY FlushGood DEF CleanForBranch

\* A set of registers can be counted.
LEMMA RegsCount == \A S \in SUBSET Regs : Cardinality(S) \in Nat
<1>1. 0 \in Int /\ NumRegs - 1 \in Int
  BY RegsAssumption
<1>2. IsFiniteSet(0 .. (NumRegs - 1))
  BY <1>1, FS_Interval
<1> QED
  BY <1>2, FS_Subset, FS_CardinalityType DEF Regs

LEMMA CleanForCallGood ==
    ASSUME NEW c, Good(c), NEW d \in CleanForCall(c)
    PROVE  Good(d) /\ d.lock = c.lock
<1> DEFINE held == {r \in Regs : c.dirty[r] /\ c.desc[r] \in Temps}
           out0 == {r \in Regs : c.dirty[r] /\ c.desc[r] # NoVar}
<1>1. PICK q \in [1 .. Cardinality(held) -> held] : d = Flush(Push(c, q), out0)
  BY DEF CleanForCall, PushOrders
<1>2. Cardinality(held) \in Nat
  BY RegsCount
<1>3. q \in [1 .. Cardinality(held) -> Regs]
      /\ \A i \in 1 .. Cardinality(held) : c.desc[q[i]] \in Temps
  OBVIOUS
<1> HIDE DEF held
<1>4. Good(Push(c, q)) /\ Push(c, q).lock = c.lock
  BY <1>2, <1>3, PushGood
<1> QED
  BY <1>1, <1>4, FlushGood

LEMMA GatherGood ==
    ASSUME Good(Cur), mutexLock = {}, NEW x \in Vars, NEW y \in Vars, NEW z \in Vars,
           NEW p \in Gather(x, y, z)
    PROVE  /\ Good(p.c) /\ \A i \in 1 .. 3 : p.r[i] \in Regs
           /\ p.c.lock = {p.r[i] : i \in 1 .. 3}
<1>1. PICK p1 \in Operand(Cur, x) : \E p2 \in Operand(p1.c, y) : \E p3 \in Operand(p2.c, z) :
         p = [r |-> <<p1.r, p2.r, p3.r>>, c |-> p3.c]
  BY DEF Gather
<1>2. PICK p2 \in Operand(p1.c, y) : \E p3 \in Operand(p2.c, z) :
         p = [r |-> <<p1.r, p2.r, p3.r>>, c |-> p3.c]
  BY <1>1
<1>3. PICK p3 \in Operand(p2.c, z) : p = [r |-> <<p1.r, p2.r, p3.r>>, c |-> p3.c]
  BY <1>2
<1>4. Good(p1.c) /\ p1.r \in Regs /\ p1.c.lock = {p1.r}
  <2>1. Cur.lock = {}
    BY DEF Cur
  <2> QED
    BY <2>1, OperandGood
<1>5. Good(p2.c) /\ p2.r \in Regs /\ p2.c.lock = {p1.r, p2.r}
  BY <1>4, OperandGood
<1>6. Good(p3.c) /\ p3.r \in Regs /\ p3.c.lock = {p1.r, p2.r, p3.r}
  BY <1>5, OperandGood
<1>7. /\ p.c = p3.c /\ p.r[1] = p1.r /\ p.r[2] = p2.r /\ p.r[3] = p3.r
  BY <1>3
<1>8. {p.r[i] : i \in 1 .. 3} = {p1.r, p2.r, p3.r}
  <2>1. \A x1 : x1 \in {p.r[i] : i \in 1 .. 3} <=> x1 \in {p1.r, p2.r, p3.r}
    <3>1. 1 .. 3 = {1, 2, 3}
      OBVIOUS
    <3> QED
      BY <1>7, <3>1
  <2> QED
    BY <2>1
<1>9. \A i \in 1 .. 3 : p.r[i] \in Regs
  <2>1. 1 .. 3 = {1, 2, 3}
    OBVIOUS
  <2> QED
    BY <1>4, <1>5, <1>6, <1>7, <2>1
<1> QED
  BY <1>6, <1>7, <1>8, <1>9

-----------------------------------------------------------------------------
(* The inductive invariant: the allocator, and what the actions rely on.    *)

\* Between two actions the configuration is good and nothing is locked.
AllocInv ==
    /\ regDescriptor \in [Regs -> Vars \cup {NoVar}] /\ isDirty \in [Regs -> BOOLEAN]
    /\ stack \in Seq(Places) /\ reg \in [Regs -> Tags] /\ mem \subseteq Scalars
    /\ stk \in Seq(Tags)
    /\ OneRegisterPerVariable

\* The TAC side: the parameters passed so far are counted, and the 0/1 idiom
\* knows the temporary it defines.
TacInv ==
    /\ paramNum = Len(sent) /\ Len(sent) <= MaxParams /\ sent \in Seq(Vars)
    /\ out \in Seq([val : Tags, at : Nat])
    /\ flight \in Labels \cup {NoFlight, EndLabel, Gone}
    /\ misread \in BOOLEAN /\ returned \in Vars \cup {NoVar}
    /\ inFunc \in BOOLEAN /\ pending \in SUBSET Temps /\ acc \in SUBSET Temps
    /\ awaited \in [Labels -> (SUBSET Temps) \cup {NotYet}]
    /\ join \in Temps \cup {NoVar} /\ jstep \in 0 .. 4
    /\ jstep # 0 => join \in Temps

Inv == AllocInv /\ TacInv

LEMMA InvImplies == Inv => TypeOK /\ OneRegisterPerVariable
  BY RegsAssumption DEF Inv, AllocInv, TacInv, TypeOK, OneRegisterPerVariable

LEMMA InitInv == Init => Inv
<1>1. \A S : <<>> \in Seq(S) /\ Len(<<>>) = 0
  OBVIOUS
<1>2. Init => AllocInv
  BY DEF Init, AllocInv, OneRegisterPerVariable, Tags
<1>3. Init => TacInv
  <2> SUFFICES ASSUME Init PROVE TacInv
    OBVIOUS
  <2>1. /\ paramNum = Len(sent) /\ Len(sent) <= MaxParams /\ sent \in Seq(Vars)
        /\ out \in Seq([val : Tags, at : Nat])
    BY <1>1, RegsAssumption DEF Init
  <2>2. /\ flight \in Labels \cup {NoFlight, EndLabel, Gone}
        /\ returned \in Vars \cup {NoVar} /\ join \in Temps \cup {NoVar}
        /\ pending \in SUBSET Temps /\ acc \in SUBSET Temps
    BY DEF Init
  <2>3. misread \in BOOLEAN /\ inFunc \in BOOLEAN
    BY DEF Init
  <2>4. awaited \in [Labels -> (SUBSET Temps) \cup {NotYet}]
    BY DEF Init
  <2>5. jstep \in 0 .. 4 /\ (jstep # 0 => join \in Temps)
    BY DEF Init
  <2> QED
    BY <2>1, <2>2, <2>3, <2>4, <2>5 DEF TacInv
<1> QED
  BY <1>2, <1>3 DEF Inv

\* The configuration an action starts from.
LEMMA CurGood ==
    ASSUME AllocInv
    PROVE  Good(Cur) /\ Cur.lock = {}
  BY DEF AllocInv, OneRegisterPerVariable, Good, Config, Coherent, Cur

\* The configuration it ends in.
LEMMA BecomeGood ==
    ASSUME AllocInv, NEW c, Good(c), c.lock = {}, Become(c)
    PROVE  AllocInv'
<1>1. /\ regDescriptor' = c.desc /\ isDirty' = c.dirty /\ mutexLock' = {}
      /\ stack' = c.stack
  BY DEF Become
<1>2. /\ reg' \in [Regs -> Tags] /\ mem' \subseteq Scalars /\ stk' \in Seq(Tags)
  BY DEF Become, machVars, AllocInv, Good, Config
<1> QED
  BY <1>1, <1>2 DEF AllocInv, OneRegisterPerVariable, Good, Config, Coherent

LEMMA ConsumeTyped ==
    ASSUME TacInv, NEW used, NEW defs \in SUBSET Temps, Consume(used, defs)
    PROVE  pending' \in SUBSET Temps /\ acc' \in SUBSET Temps
  BY DEF TacInv, Consume

LEMMA ReadsTyped ==
    ASSUME NEW ok, Reads(ok)
    PROVE  misread' \in BOOLEAN
  BY DEF Reads

LEMMA BranchTyped ==
    ASSUME TacInv, NEW l \in Labels, NEW P \in SUBSET Temps, Branch(l, P)
    PROVE  /\ awaited' \in [Labels -> (SUBSET Temps) \cup {NotYet}]
           /\ flight' \in Labels \cup {NoFlight, EndLabel, Gone}
  BY DEF TacInv, Branch

LEMMA RvaluesTyped ==
    ASSUME TacInv
    PROVE  Rvalues \subseteq Vars /\ Fresh \subseteq Temps /\ Temps \subseteq Vars
  BY DEF TacInv, Rvalues, Fresh, Usable, Vars

-----------------------------------------------------------------------------
(* The actions *)

\* Unlocking all that a handler has locked.
LEMMA UnlockGood ==
    ASSUME NEW c, Good(c), NEW R, c.lock \subseteq R
    PROVE  Good(Unlock(c, R)) /\ Unlock(c, R).lock = {}
  BY DEF Unlock, Good, Config, Coherent

LEMMA BeginFuncInv ==
    ASSUME Inv, BeginFunc
    PROVE  Inv'
<1>1. AllocInv'
  BY DEF Inv, AllocInv, OneRegisterPerVariable, BeginFunc, Tags
<1>2. TacInv'
  <2>1. out' \in Seq([val : Tags, at : Nat]) /\ inFunc' \in BOOLEAN
        /\ returned' \in Vars \cup {NoVar}
        /\ flight' \in Labels \cup {NoFlight, EndLabel, Gone}
    BY DEF BeginFunc
  <2>2. UNCHANGED <<paramNum, misread, pending, acc, sent, awaited, join, jstep>>
    BY DEF BeginFunc
  <2> QED
    BY <2>1, <2>2 DEF Inv, TacInv
<1> QED
  BY <1>1, <1>2 DEF Inv

\* What generateAssign leaves.
LEMMA AssignInv ==
    ASSUME Inv, NEW dst \in Vars, NEW src \in Vars, Assign(dst, src)
    PROVE  /\ AllocInv' /\ misread' \in BOOLEAN
           /\ pending' \in SUBSET Temps /\ acc' \in SUBSET Temps
<1>1. Good(Cur) /\ Cur.lock = {}
  BY CurGood DEF Inv
<1> DEFINE used == {src} \cap Temps
           From == IF src \in Consts THEN {[r |-> 0, c |-> Cur]} ELSE Operand(Cur, src)
           c1(p1, p2) == Unlock(Define(p2.c, dst, p2.r), {p1.r, p2.r})
           c2(p1, p2) == SpillDst(c1(p1, p2), dst, p2.r)
<1>2. PICK p1 \in From : \E p2 \in Operand(p1.c, dst) :
         /\ Become(Retire(c2(p1, p2), used))
         /\ Reads(src \in Consts \/ p2.c.reg[p1.r] = src)
         /\ Consume(used, {dst} \cap Temps)
  BY DEF Assign
<1>3. PICK p2 \in Operand(p1.c, dst) :
         /\ Become(Retire(c2(p1, p2), used))
         /\ Reads(src \in Consts \/ p2.c.reg[p1.r] = src)
         /\ Consume(used, {dst} \cap Temps)
  BY <1>2
<1>4. Good(p1.c) /\ p1.c.lock \subseteq {p1.r}
  <2>1. CASE src \in Consts
    BY <1>1, <2>1
  <2>2. CASE src \notin Consts
    BY <1>1, <2>2, OperandGood
  <2> QED
    BY <2>1, <2>2
<1>5. Good(p2.c) /\ p2.r \in Regs /\ p2.c.lock \subseteq {p1.r, p2.r}
  BY <1>4, OperandGood
<1> DEFINE d == Define(p2.c, dst, p2.r)
           e == c1(p1, p2)
           f == c2(p1, p2)
<1>6. Good(d) /\ d.lock \subseteq {p1.r, p2.r}
  BY <1>5, DefineGood
<1>7. Good(e) /\ e.lock = {}
  <2> HIDE DEF d
  <2>1. e = Unlock(d, {p1.r, p2.r})
    BY DEF d
  <2> QED
    BY <1>6, <2>1, UnlockGood
<1>8. Good(f) /\ f.lock = {}
  <2> HIDE DEF e
  <2>1. f = SpillDst(e, dst, p2.r)
    BY DEF e
  <2> QED
    BY <1>7, <2>1, SpillDstGood
<1> HIDE DEF f
<1>9. Good(Retire(f, used)) /\ Retire(f, used).lock = {}
  BY <1>8, RetireGood
<1>10. Become(Retire(f, used))
  BY <1>3 DEF f
<1>11. AllocInv'
  BY <1>9, <1>10, BecomeGood DEF Inv
<1>12. misread' \in BOOLEAN
  BY <1>3, ReadsTyped
<1>13. pending' \in SUBSET Temps /\ acc' \in SUBSET Temps
  <2>1. {dst} \cap Temps \in SUBSET Temps
    OBVIOUS
  <2> QED
    BY <1>3, <2>1, ConsumeTyped DEF Inv
<1> QED
  BY <1>11, <1>12, <1>13

LEMMA AssignVarInv ==
    ASSUME Inv, AssignVar
    PROVE  Inv'
<1>1. PICK dst \in Scalars, src \in Rvalues : Assign(dst, src)
  BY DEF AssignVar
<1>2. dst \in Vars /\ src \in Vars
  BY RvaluesTyped DEF Inv, Vars
<1>3. /\ AllocInv' /\ misread' \in BOOLEAN
      /\ pending' \in SUBSET Temps /\ acc' \in SUBSET Temps
  BY <1>1, <1>2, AssignInv
<1>4. UNCHANGED <<paramNum, out, flight, returned, inFunc, sent, awaited, join, jstep>>
  BY DEF AssignVar
<1>5. TacInv'
  BY <1>3, <1>4 DEF Inv, TacInv
<1> QED
  BY <1>3, <1>5 DEF Inv

LEMMA AssignTempInv ==
    ASSUME Inv, AssignTemp
    PROVE  Inv'
<1>1. PICK src \in Consts :
        \/ /\ jstep = 0
           /\ \E dst \in Fresh :
                /\ Assign(dst, src)
                /\ \/ UNCHANGED <<join, jstep>>
                   \/ join' = dst /\ jstep' = 1
        \/ jstep = 3 /\ Assign(join, src) /\ jstep' = 4 /\ UNCHANGED join
  BY DEF AssignTemp
<1>2. src \in Vars /\ Fresh \subseteq Temps /\ Temps \subseteq Vars
  BY RvaluesTyped DEF Inv, Vars
<1>3. UNCHANGED <<paramNum, out, flight, returned, inFunc, sent, awaited>>
  BY DEF AssignTemp
<1>4. /\ AllocInv' /\ misread' \in BOOLEAN
      /\ pending' \in SUBSET Temps /\ acc' \in SUBSET Temps
      /\ join' \in Temps \cup {NoVar} /\ jstep' \in 0 .. 4
      /\ jstep' # 0 => join' \in Temps
  <2>1. ASSUME NEW dst \in Fresh, jstep = 0, Assign(dst, src),
               \/ UNCHANGED <<join, jstep>>
               \/ join' = dst /\ jstep' = 1
        PROVE  <1>4
    <3>1. /\ AllocInv' /\ misread' \in BOOLEAN
          /\ pending' \in SUBSET Temps /\ acc' \in SUBSET Temps
      BY <1>2, <2>1, AssignInv
    <3>2. /\ join' \in Temps \cup {NoVar} /\ jstep' \in 0 .. 4
          /\ jstep' # 0 => join' \in Temps
      BY <1>2, <2>1 DEF Inv, TacInv
    <3> QED
      BY <3>1, <3>2
  <2>2. ASSUME jstep = 3, Assign(join, src), jstep' = 4, UNCHANGED join
        PROVE  <1>4
    <3>1. join \in Temps
      BY <2>2 DEF Inv, TacInv
    <3>2. /\ AllocInv' /\ misread' \in BOOLEAN
          /\ pending' \in SUBSET Temps /\ acc' \in SUBSET Temps
      BY <1>2, <2>2, <3>1, AssignInv
    <3>3. /\ join' \in Temps \cup {NoVar} /\ jstep' \in 0 .. 4
          /\ jstep' # 0 => join' \in Temps
      BY <2>2, <3>1
    <3> QED
      BY <3>2, <3>3
  <2> QED
    BY <1>1, <2>1, <2>2
<1>5. TacInv'
  BY <1>3, <1>4 DEF Inv, TacInv
<1> QED
  BY <1>4, <1>5 DEF Inv

\* What the three-address handlers leave: the operands p are unlocked, and
\* constants and scalars are handled by the helpers above.
LEMMA BinaryOPInv ==
    ASSUME Inv, NEW dst \in Temps, NEW src1 \in Vars, NEW src2 \in Vars,
           BinaryOP(dst, src1, src2)
    PROVE  /\ AllocInv' /\ misread' \in BOOLEAN
           /\ pending' \in SUBSET Temps /\ acc' \in SUBSET Temps
<1> DEFINE used == {src1, src2} \cap Temps
           c1(p) == Unlock(Define(p.c, dst, p.r[3]), {p.r[i] : i \in 1 .. 3})
           c2(p) == DiscardConst(DiscardConst(c1(p), src1, p.r[1]), src2, p.r[2])
           c3(p) == SpillDst(c2(p), dst, p.r[3])
<1>1. PICK p \in Gather(src1, src2, dst) :
         /\ Become(Retire(c3(p), used \ {dst}))
         /\ Reads(p.c.reg[p.r[1]] = src1 /\ p.c.reg[p.r[2]] = src2)
         /\ Consume(used, {dst})
  BY DEF BinaryOP
<1>2. dst \in Vars
  BY DEF Vars
<1>3. /\ Good(p.c) /\ \A i \in 1 .. 3 : p.r[i] \in Regs
      /\ p.c.lock = {p.r[i] : i \in 1 .. 3}
  <2>1. Good(Cur) /\ mutexLock = {}
    BY CurGood DEF Inv, Cur
  <2> QED
    BY <1>2, <2>1, GatherGood
<1> DEFINE d == Define(p.c, dst, p.r[3])
           all == {p.r[i] : i \in 1 .. 3}
           e == Unlock(d, all)
           f == DiscardConst(e, src1, p.r[1])
           g == DiscardConst(f, src2, p.r[2])
           h == SpillDst(g, dst, p.r[3])
<1>4. Good(d) /\ d.lock \subseteq all
  <2>1. p.r[3] \in Regs
    BY <1>3
  <2> QED
    BY <1>2, <1>3, <2>1, DefineGood
<1> HIDE DEF d, all
<1>5. Good(e) /\ e.lock = {}
  BY <1>4, UnlockGood
<1> HIDE DEF e
<1>6. Good(f) /\ f.lock = {}
  BY <1>5, DiscardConstGood
<1> HIDE DEF f
<1>7. Good(g) /\ g.lock = {}
  BY <1>6, DiscardConstGood
<1> HIDE DEF g
<1>8. Good(h) /\ h.lock = {}
  BY <1>7, SpillDstGood
<1>9. Become(Retire(h, used \ {dst}))
  BY <1>1 DEF d, all, e, f, g
<1> HIDE DEF h
<1>10. Good(Retire(h, used \ {dst})) /\ Retire(h, used \ {dst}).lock = {}
  BY <1>8, RetireGood
<1>11. AllocInv'
  BY <1>9, <1>10, BecomeGood DEF Inv
<1>12. misread' \in BOOLEAN
  BY <1>1, ReadsTyped
<1>13. pending' \in SUBSET Temps /\ acc' \in SUBSET Temps
  <2>1. {dst} \in SUBSET Temps
    OBVIOUS
  <2> QED
    BY <1>1, <2>1, ConsumeTyped DEF Inv
<1> QED
  BY <1>11, <1>12, <1>13

LEMMA LoadInv ==
    ASSUME Inv, NEW dst \in Temps, NEW src \in Vars, NEW offset \in Vars,
           Load(dst, src, offset)
    PROVE  /\ AllocInv' /\ misread' \in BOOLEAN
           /\ pending' \in SUBSET Temps /\ acc' \in SUBSET Temps
<1> DEFINE used == {offset} \cap Temps
           c1(p) == Unlock(Define(p.c, dst, p.r[3]), {p.r[i] : i \in 1 .. 3})
           c2(p) == SpillDst(DiscardConst(c1(p), offset, p.r[2]), dst, p.r[3])
<1>1. PICK p \in Gather(src, offset, dst) :
         /\ Become(Retire(c2(p), used))
         /\ Reads(p.c.reg[p.r[1]] = src /\ p.c.reg[p.r[2]] = offset)
         /\ Consume(used, {dst})
  BY DEF Load
<1>2. dst \in Vars
  BY DEF Vars
<1>3. /\ Good(p.c) /\ p.r[3] \in Regs
      /\ p.c.lock = {p.r[i] : i \in 1 .. 3}
  <2>1. Good(Cur) /\ mutexLock = {} /\ 3 \in 1 .. 3
    BY CurGood DEF Inv, Cur
  <2> QED
    BY <1>2, <2>1, GatherGood
<1> DEFINE d == Define(p.c, dst, p.r[3])
           all == {p.r[i] : i \in 1 .. 3}
           e == Unlock(d, all)
           f == DiscardConst(e, offset, p.r[2])
           g == SpillDst(f, dst, p.r[3])
<1>4. Good(d) /\ d.lock \subseteq all
  BY <1>2, <1>3, DefineGood
<1> HIDE DEF d, all
<1>5. Good(e) /\ e.lock = {}
  BY <1>4, UnlockGood
<1> HIDE DEF e
<1>6. Good(f) /\ f.lock = {}
  BY <1>5, DiscardConstGood
<1> HIDE DEF f
<1>7. Good(g) /\ g.lock = {}
  BY <1>6, SpillDstGood
<1>8. Become(Retire(g, used))
  BY <1>1 DEF d, all, e, f
<1> HIDE DEF g
<1>9. Good(Retire(g, used)) /\ Retire(g, used).lock = {}
  BY <1>7, RetireGood
<1>10. AllocInv'
  BY <1>8, <1>9, BecomeGood DEF Inv
<1>11. misread' \in BOOLEAN
  BY <1>1, ReadsTyped
<1>12. pending' \in SUBSET Temps /\ acc' \in SUBSET Temps
  <2>1. {dst} \in SUBSET Temps
    OBVIOUS
  <2> QED
    BY <1>1, <2>1, ConsumeTyped DEF Inv
<1> QED
  BY <1>10, <1>11, <1>12

LEMMA StoreInv ==
    ASSUME Inv, NEW dst \in Vars, NEW offset \in Vars, NEW src \in Vars,
           Store(dst, offset, src)
    PROVE  /\ AllocInv' /\ misread' \in BOOLEAN
           /\ pending' \in SUBSET Temps /\ acc' \in SUBSET Temps
<1> DEFINE used == {src, offset} \cap Temps
           c1(p) == Unlock(p.c, {p.r[i] : i \in 1 .. 3})
<1>1. PICK p \in Gather(src, offset, dst) :
         /\ Become(Retire(DiscardConst(c1(p), offset, p.r[2]), used))
         /\ Reads(/\ p.c.reg[p.r[1]] = src /\ p.c.reg[p.r[2]] = offset
                  /\ p.c.reg[p.r[3]] = dst)
         /\ Consume(used, {})
  BY DEF Store
<1>2. Good(p.c) /\ p.c.lock = {p.r[i] : i \in 1 .. 3}
  <2>1. Good(Cur) /\ mutexLock = {}
    BY CurGood DEF Inv, Cur
  <2> QED
    BY <2>1, GatherGood
<1> DEFINE all == {p.r[i] : i \in 1 .. 3}
           e == Unlock(p.c, all)
           f == DiscardConst(e, offset, p.r[2])
<1>3. p.c.lock \subseteq all
  BY <1>2
<1> HIDE DEF all
<1>4. Good(e) /\ e.lock = {}
  BY <1>2, <1>3, UnlockGood
<1> HIDE DEF e
<1>5. Good(f) /\ f.lock = {}
  BY <1>4, DiscardConstGood
<1>6. Become(Retire(f, used))
  BY <1>1 DEF all, e
<1> HIDE DEF f
<1>7. Good(Retire(f, used)) /\ Retire(f, used).lock = {}
  BY <1>5, RetireGood
<1>8. AllocInv'
  BY <1>6, <1>7, BecomeGood DEF Inv
<1>9. misread' \in BOOLEAN
  BY <1>1, ReadsTyped
<1>10. pending' \in SUBSET Temps /\ acc' \in SUBSET Temps
  BY <1>1, ConsumeTyped DEF Inv
<1> QED
  BY <1>8, <1>9, <1>10

LEMMA ComputeInv ==
    ASSUME Inv, Compute
    PROVE  Inv'
<1>1. /\ Rvalues \subseteq Vars /\ Fresh \subseteq Temps /\ Temps \subseteq Vars
      /\ Arrays \subseteq Vars
  BY RvaluesTyped DEF Inv, Vars
<1>2. \/ \E src1 \in Rvalues \cup Arrays, src2 \in Rvalues :
            \E dst \in Fresh \cup ({src1} \cap Temps) : BinaryOP(dst, src1, src2)
      \/ \E src \in Arrays, offset \in Rvalues, dst \in Fresh : Load(dst, src, offset)
      \/ \E dst \in Arrays, offset \in Rvalues, src \in Rvalues : Store(dst, offset, src)
  BY DEF Compute
<1>3. UNCHANGED <<paramNum, out, flight, returned, inFunc, sent, awaited, join, jstep>>
  BY DEF Compute
<1>4. /\ AllocInv' /\ misread' \in BOOLEAN
      /\ pending' \in SUBSET Temps /\ acc' \in SUBSET Temps
  BY <1>1, <1>2, BinaryOPInv, LoadInv, StoreInv
<1>5. TacInv'
  BY <1>3, <1>4 DEF Inv, TacInv
<1> QED
  BY <1>4, <1>5 DEF Inv

LEMMA IfZInv ==
    ASSUME Inv, NEW test \in Vars, NEW l \in Labels, IfZ(test, l)
    PROVE  /\ AllocInv' /\ misread' \in BOOLEAN
           /\ pending' \in SUBSET Temps /\ acc' \in SUBSET Temps
           /\ awaited' \in [Labels -> (SUBSET Temps) \cup {NotYet}]
           /\ flight' \in Labels \cup {NoFlight, EndLabel, Gone}
<1> DEFINE used == {test} \cap Temps
           b == CleanForBranch(Cur)
<1>1. PICK p \in Operand(b, test) :
         /\ Become(Retire(DiscardConst(Unlock(p.c, {p.r}), test, p.r), used))
         /\ Reads(p.c.reg[p.r] = test)
         /\ Consume(used, {}) /\ Branch(l, pending \ used)
  BY DEF IfZ
<1>2. Good(b) /\ b.lock = {}
  BY CurGood, CleanForBranchGood DEF Inv
<1> HIDE DEF b
<1>3. Good(p.c) /\ p.c.lock \subseteq {p.r}
  BY <1>2, OperandGood
<1> DEFINE e == Unlock(p.c, {p.r})
           f == DiscardConst(e, test, p.r)
<1>4. Good(e) /\ e.lock = {}
  BY <1>3, UnlockGood
<1> HIDE DEF e
<1>5. Good(f) /\ f.lock = {}
  BY <1>4, DiscardConstGood
<1>6. Become(Retire(f, used))
  BY <1>1 DEF e
<1> HIDE DEF f
<1>7. Good(Retire(f, used)) /\ Retire(f, used).lock = {}
  BY <1>5, RetireGood
<1>8. AllocInv'
  BY <1>6, <1>7, BecomeGood DEF Inv
<1>9. misread' \in BOOLEAN
  BY <1>1, ReadsTyped
<1>10. pending' \in SUBSET Temps /\ acc' \in SUBSET Temps
  BY <1>1, ConsumeTyped DEF Inv
<1>11. pending \ used \in SUBSET Temps
  BY DEF Inv, TacInv
<1>12. /\ awaited' \in [Labels -> (SUBSET Temps) \cup {NotYet}]
       /\ flight' \in Labels \cup {NoFlight, EndLabel, Gone}
  BY <1>1, <1>11, BranchTyped DEF Inv
<1> QED
  BY <1>8, <1>9, <1>10, <1>12

LEMMA CMPInv ==
    ASSUME Inv, NEW src1 \in Vars, NEW src2 \in Vars, NEW l \in Labels, CMP(src1, src2, l)
    PROVE  /\ AllocInv' /\ misread' \in BOOLEAN
           /\ pending' \in SUBSET Temps /\ acc' \in SUBSET Temps
           /\ awaited' \in [Labels -> (SUBSET Temps) \cup {NotYet}]
           /\ flight' \in Labels \cup {NoFlight, EndLabel, Gone}
<1> DEFINE used == {src1, src2} \cap Temps
           b == CleanForBranch(Cur)
           c1(p1, p2) == DiscardConst(Unlock(p2.c, {p1.r, p2.r}), src1, p1.r)
<1>1. PICK p1 \in Operand(b, src1) : \E p2 \in Operand(p1.c, src2) :
         /\ Become(Retire(DiscardConst(c1(p1, p2), src2, p2.r), used))
         /\ Reads(p2.c.reg[p1.r] = src1 /\ p2.c.reg[p2.r] = src2)
         /\ Consume(used, {}) /\ Branch(l, pending \ used)
  BY DEF CMP
<1>2. PICK p2 \in Operand(p1.c, src2) :
         /\ Become(Retire(DiscardConst(c1(p1, p2), src2, p2.r), used))
         /\ Reads(p2.c.reg[p1.r] = src1 /\ p2.c.reg[p2.r] = src2)
         /\ Consume(used, {}) /\ Branch(l, pending \ used)
  BY <1>1
<1>3. Good(b) /\ b.lock = {}
  BY CurGood, CleanForBranchGood DEF Inv
<1> HIDE DEF b
<1>4. Good(p1.c) /\ p1.c.lock = {p1.r}
  BY <1>3, OperandGood
<1>5. Good(p2.c) /\ p2.c.lock \subseteq {p1.r, p2.r}
  BY <1>4, OperandGood
<1> DEFINE e == Unlock(p2.c, {p1.r, p2.r})
           f == DiscardConst(e, src1, p1.r)
           g == DiscardConst(f, src2, p2.r)
<1>6. Good(e) /\ e.lock = {}
  BY <1>5, UnlockGood
<1> HIDE DEF e
<1>7. Good(f) /\ f.lock = {}
  BY <1>6, DiscardConstGood
<1> HIDE DEF f
<1>8. Good(g) /\ g.lock = {}
  BY <1>7, DiscardConstGood
<1>9. Become(Retire(g, used))
  BY <1>2 DEF e, f
<1> HIDE DEF g
<1>10. Good(Retire(g, used)) /\ Retire(g, used).lock = {}
  BY <1>8, RetireGood
<1>11. AllocInv'
  BY <1>9, <1>10, BecomeGood DEF Inv
<1>12. misread' \in BOOLEAN
  BY <1>2, ReadsTyped
<1>13. pending' \in SUBSET Temps /\ acc' \in SUBSET Temps
  BY <1>2, ConsumeTyped DEF Inv
<1>14. pending \ used \in SUBSET Temps
  BY DEF Inv, TacInv
<1>15. /\ awaited' \in [Labels -> (SUBSET Temps) \cup {NotYet}]
       /\ flight' \in Labels \cup {NoFlight, EndLabel, Gone}
  BY <1>2, <1>14, BranchTyped DEF Inv
<1> QED
  BY <1>11, <1>12, <1>13, <1>15

LEMMA CondBranchInv ==
    ASSUME Inv, CondBranch
    PROVE  Inv'
<1>1. Rvalues \subseteq Vars
  BY RvaluesTyped DEF Inv
<1>2. \E l \in Labels : \/ \E test \in Rvalues : IfZ(test, l)
                        \/ \E src1 \in Rvalues, src2 \in Rvalues : CMP(src1, src2, l)
  BY DEF CondBranch
<1>3. UNCHANGED <<paramNum, out, returned, inFunc, sent, join, jstep>>
  BY DEF CondBranch
<1>4. /\ AllocInv' /\ misread' \in BOOLEAN
      /\ pending' \in SUBSET Temps /\ acc' \in SUBSET Temps
      /\ awaited' \in [Labels -> (SUBSET Temps) \cup {NotYet}]
      /\ flight' \in Labels \cup {NoFlight, EndLabel, Gone}
  BY <1>1, <1>2, IfZInv, CMPInv
<1>5. TacInv'
  BY <1>3, <1>4 DEF Inv, TacInv
<1> QED
  BY <1>4, <1>5 DEF Inv

LEMMA GotoInv ==
    ASSUME Inv, NEW l \in Labels, GOTO(l)
    PROVE  Inv'
<1>1. AllocInv'
  BY CurGood, CleanForBranchGood, BecomeGood DEF GOTO, Inv
<1>2. TacInv'
  <2>1. UNCHANGED <<paramNum, out, misread, returned, inFunc, pending, acc, sent, join>>
    BY DEF GOTO
  <2>2. jstep' \in 0 .. 4 /\ (jstep' # 0 => join' \in Temps)
    BY DEF GOTO, Inv, TacInv
  <2>3. /\ awaited' \in [Labels -> (SUBSET Temps) \cup {NotYet}]
        /\ flight' \in Labels \cup {NoFlight, EndLabel, Gone}
    BY DEF GOTO, Inv, TacInv
  <2> QED
    BY <2>1, <2>2, <2>3 DEF Inv, TacInv
<1> QED
  BY <1>1, <1>2 DEF Inv

LEMMA GotoHeadInv ==
    ASSUME Inv, GotoHead
    PROVE  Inv'
<1>1. AllocInv'
  BY CurGood, CleanForBranchGood, BecomeGood DEF GotoHead, Inv
<1>2. TacInv'
  <2>1. UNCHANGED <<paramNum, out, misread, returned, tacVars>>
    BY DEF GotoHead
  <2>2. flight' \in Labels \cup {NoFlight, EndLabel, Gone}
    BY DEF GotoHead, Inv, TacInv
  <2> QED
    BY <2>1, <2>2 DEF Inv, TacInv, tacVars
<1> QED
  BY <1>1, <1>2 DEF Inv

LEMMA PlaceLabelInv ==
    ASSUME Inv, NEW l \in Labels, NEW P \in SUBSET Temps, PlaceLabel(l, P)
    PROVE  /\ AllocInv'
           /\ pending' \in SUBSET Temps /\ acc' \in SUBSET Temps
           /\ awaited' \in [Labels -> (SUBSET Temps) \cup {NotYet}]
           /\ flight' \in Labels \cup {NoFlight, EndLabel, Gone}
<1> DEFINE b == CleanForBranch(Cur)
           d == [b EXCEPT !.stack = <<>>, !.stk = [i \in DOMAIN @ |-> Junk]]
<1>1. Good(b) /\ b.lock = {}
  BY CurGood, CleanForBranchGood DEF Inv
<1>2. Become(d)
  BY DEF PlaceLabel
<1> HIDE DEF b
<1>3. [i \in DOMAIN b.stk |-> Junk] \in Seq(Tags) /\ <<>> \in Seq(Places)
  BY <1>1 DEF Good, Config, Tags
<1>4. Good(d) /\ d.lock = {}
  BY <1>1, <1>3 DEF Good, Config, Coherent
<1> HIDE DEF d
<1>5. AllocInv'
  BY <1>2, <1>4, BecomeGood DEF Inv
<1>6. /\ pending' \in SUBSET Temps /\ acc' \in SUBSET Temps
      /\ awaited' \in [Labels -> (SUBSET Temps) \cup {NotYet}]
      /\ flight' \in Labels \cup {NoFlight, EndLabel, Gone}
  BY DEF PlaceLabel, Inv, TacInv
<1> QED
  BY <1>5, <1>6

LEMMA LabelInv ==
    ASSUME Inv, NEW l \in Labels, Label(l)
    PROVE  Inv'
<1>1. PICK P \in {pending, {}, pending \ {join}} : PlaceLabel(l, P)
  BY DEF Label
<1>2. P \in SUBSET Temps
  BY DEF Inv, TacInv
<1>3. /\ AllocInv'
      /\ pending' \in SUBSET Temps /\ acc' \in SUBSET Temps
      /\ awaited' \in [Labels -> (SUBSET Temps) \cup {NotYet}]
      /\ flight' \in Labels \cup {NoFlight, EndLabel, Gone}
  BY <1>1, <1>2, PlaceLabelInv
<1>4. UNCHANGED <<paramNum, out, misread, returned, inFunc, sent>>
  BY <1>1 DEF PlaceLabel
<1>5. /\ join' \in Temps \cup {NoVar} /\ jstep' \in 0 .. 4
      /\ jstep' # 0 => join' \in Temps
  BY DEF Label, Inv, TacInv
<1>6. TacInv'
  BY <1>3, <1>4, <1>5 DEF Inv, TacInv
<1> QED
  BY <1>3, <1>6 DEF Inv

LEMMA ReturnInv ==
    ASSUME Inv, NEW result \in Vars, Return(result)
    PROVE  /\ AllocInv' /\ returned' \in Vars \cup {NoVar}
           /\ pending' \in SUBSET Temps /\ acc' \in SUBSET Temps
<1> DEFINE used == {result} \cap Temps
           b == CleanForBranch(Cur)
           c1(p) == Unlock(Fill(Lock(p.c, p.r), result, p.r), {p.r})
           c2(p) == CleanForBranch(Discard(c1(p), used))
<1>1. PICK p \in Pick(b, result) :
         /\ Become([c2(p) EXCEPT !.reg[0] = c1(p).reg[p.r]])
         /\ Consume(used, {})
         /\ returned' = IF flight = NoFlight THEN result ELSE returned
  BY DEF Return
<1>2. Good(b) /\ b.lock = {}
  BY CurGood, CleanForBranchGood DEF Inv
<1> HIDE DEF b
<1>3. Good(p.c) /\ p.r \in Regs /\ p.c.lock = {}
  BY <1>2, PickGood
<1> DEFINE k == Lock(p.c, p.r)
           f == Fill(k, result, p.r)
           e == Unlock(f, {p.r})
           g == Discard(e, used)
           h == CleanForBranch(g)
           w == [h EXCEPT !.reg[0] = e.reg[p.r]]
<1>4. Good(k) /\ k.lock = {p.r}
  BY <1>3, LockGood
<1> HIDE DEF k
<1>5. Good(f) /\ f.lock \subseteq {p.r}
  BY <1>3, <1>4, FillGood
<1> HIDE DEF f
<1>6. Good(e) /\ e.lock = {}
  BY <1>5, UnlockGood
<1> HIDE DEF e
<1>7. Good(g) /\ g.lock = {}
  BY <1>6, DiscardGood
<1> HIDE DEF g
<1>8. Good(h) /\ h.lock = {}
  BY <1>7, CleanForBranchGood
<1>9. Become(w)
  BY <1>1 DEF k, f, e, g
<1> HIDE DEF h
<1>10. Good(w) /\ w.lock = {}
  <2>1. e.reg[p.r] \in Tags
    BY <1>3, <1>6 DEF Good, Config
  <2> QED
    BY <1>8, <2>1 DEF Good, Config, Coherent
<1> HIDE DEF w
<1>11. AllocInv'
  BY <1>9, <1>10, BecomeGood DEF Inv
<1>12. returned' \in Vars \cup {NoVar}
  BY <1>1 DEF Inv, TacInv
<1>13. pending' \in SUBSET Temps /\ acc' \in SUBSET Temps
  BY <1>1, ConsumeTyped DEF Inv
<1> QED
  BY <1>11, <1>12, <1>13

LEMMA ReturnStatementInv ==
    ASSUME Inv, ReturnStatement
    PROVE  Inv'
<1>1. /\ AllocInv' /\ returned' \in Vars \cup {NoVar}
      /\ pending' \in SUBSET Temps /\ acc' \in SUBSET Temps
  <2>1. CASE \E result \in Rvalues : Return(result)
    BY <2>1, ReturnInv, RvaluesTyped DEF Inv
  <2>2. CASE /\ Become(CleanForBranch(CleanForBranch(Cur)))
             /\ UNCHANGED <<pending, acc, returned>>
    <3>1. AllocInv'
      BY <2>2, CurGood, CleanForBranchGood, BecomeGood DEF Inv
    <3> QED
      BY <2>2, <3>1 DEF Inv, TacInv
  <2> QED
    BY <2>1, <2>2 DEF ReturnStatement
<1>2. /\ flight' \in Labels \cup {NoFlight, EndLabel, Gone}
      /\ UNCHANGED <<paramNum, out, misread, inFunc, sent, awaited, join, jstep>>
  BY DEF ReturnStatement, Inv, TacInv
<1>3. TacInv'
  BY <1>1, <1>2 DEF Inv, TacInv
<1> QED
  BY <1>1, <1>3 DEF Inv

LEMMA EndFuncInv ==
    ASSUME Inv, EndFunc
    PROVE  Inv'
<1> DEFINE b == CleanForBranch(Cur)
           d == [b EXCEPT !.stack = <<>>, !.desc  = [r \in Regs |-> NoVar],
                          !.dirty = [r \in Regs |-> FALSE]]
<1>1. Good(b) /\ b.lock = {}
  BY CurGood, CleanForBranchGood DEF Inv
<1>2. Become(d)
  BY DEF EndFunc
<1> HIDE DEF b
<1>3. Good(d) /\ d.lock = {}
  <2>1. d \in Config /\ d.lock = {}
    <3>1. <<>> \in Seq(Places)
      OBVIOUS
    <3> QED
      BY <1>1, <3>1 DEF Good, Config
  <2>2. d.desc = [r \in Regs |-> NoVar] /\ d.dirty = [r \in Regs |-> FALSE]
    BY <1>1 DEF Good, Config
  <2> HIDE DEF d
  <2>3. Coherent(d)
    BY <2>2 DEF Coherent
  <2> QED
    BY <2>1, <2>3 DEF Good
<1> HIDE DEF d
<1>4. AllocInv'
  BY <1>2, <1>3, BecomeGood DEF Inv
<1>5. /\ UNCHANGED <<paramNum, out, misread, pending, acc, sent, awaited, join, jstep>>
      /\ inFunc' = FALSE /\ flight' = NoFlight /\ returned' = NoVar
  BY DEF EndFunc
<1>6. TacInv'
  BY <1>5 DEF Inv, TacInv
<1> QED
  BY <1>4, <1>6 DEF Inv

\* The registers a call passes parameters in are registers.
LEMMA ArgRegister ==
    ASSUME TacInv
    PROVE  (IF paramNum < NumArgRegs THEN paramNum ELSE NumArgRegs) \in Regs
  BY RegsAssumption DEF TacInv, Regs

\* The configuration in which the first Param, or a Call without any, starts.
LEMMA CalleeGood ==
    ASSUME AllocInv, NEW b, NEW c \in IF b THEN CleanForCall(Cur) ELSE {Cur}
    PROVE  Good(c) /\ c.lock = {}
<1>1. Good(Cur) /\ Cur.lock = {}
  BY CurGood
<1>2. CASE b
  BY <1>1, <1>2, CleanForCallGood
<1>3. CASE ~b
  BY <1>1, <1>3
<1> QED
  BY <1>2, <1>3

LEMMA PassTempGood ==
    ASSUME NEW c, Good(c), NEW v \in Vars, NEW r \in Regs
    PROVE  Good(PassTemp(c, v, r)) /\ PassTemp(c, v, r).lock = c.lock
<1>1. \A ok \in BOOLEAN : Good(Loaded(c, v, r, ok)) /\ Loaded(c, v, r, ok).lock = c.lock
  BY DEF Loaded, Good, Config, Coherent, Tags
<1>2. PassTemp(c, v, r) \in {Pop(c, v, r), Loaded(c, v, r, TRUE), Loaded(c, v, r, FALSE)}
  BY DEF PassTemp, Loaded
<1> QED
  BY <1>1, <1>2, PopGood

LEMMA ParamInv ==
    ASSUME Inv, NEW arg \in Rvalues \cup Arrays, Param(arg)
    PROVE  Inv'
<1> DEFINE r == IF paramNum < NumArgRegs THEN paramNum ELSE NumArgRegs
           used == {arg} \cap Temps
           c1(c) == IF arg \in Temps THEN PassTemp(c, arg, r) ELSE Fill(c, arg, r)
<1>1. arg \in Vars
  BY RvaluesTyped DEF Inv, Vars
<1>2. PICK c \in IF paramNum = 0 THEN CleanForCall(Cur) ELSE {Cur} :
         /\ Become(Discard(c1(c), used))
         /\ Consume(used, {})
         /\ out' = IF flight # NoFlight \/ r < NumArgRegs THEN out
                   ELSE Append(out, [val |-> c1(c).reg[r], at |-> Len(c1(c).stk)])
  BY DEF Param
<1>3. Good(c) /\ c.lock = {}
  BY <1>2, CalleeGood DEF Inv
<1>4. r \in Regs
  BY ArgRegister DEF Inv
<1> HIDE DEF r
<1> DEFINE d == c1(c)
<1>5. Good(d) /\ d.lock = {}
  BY <1>1, <1>3, <1>4, FillGood, PassTempGood
<1> HIDE DEF d
<1>6. Good(Discard(d, used)) /\ Discard(d, used).lock = {}
  BY <1>5, DiscardGood
<1>7. Become(Discard(d, used))
  BY <1>2 DEF d
<1>8. AllocInv'
  BY <1>6, <1>7, BecomeGood DEF Inv
<1>9. out' \in Seq([val : Tags, at : Nat])
  <2>1. [val |-> d.reg[r], at |-> Len(d.stk)] \in [val : Tags, at : Nat]
    BY <1>4, <1>5 DEF Good, Config
  <2>2. out' \in {out, Append(out, [val |-> d.reg[r], at |-> Len(d.stk)])}
    BY <1>2 DEF d
  <2>3. out \in Seq([val : Tags, at : Nat])
    BY DEF Inv, TacInv
  <2>4. \A S : \A q \in Seq(S), x \in S : Append(q, x) \in Seq(S)
    OBVIOUS
  <2> QED
    BY <2>1, <2>2, <2>3, <2>4
<1>10. pending' \in SUBSET Temps /\ acc' \in SUBSET Temps
  BY <1>2, ConsumeTyped DEF Inv
<1>11. paramNum' = Len(sent') /\ Len(sent') <= MaxParams /\ sent' \in Seq(Vars)
  <2>1. /\ Len(sent) < MaxParams /\ paramNum' = paramNum + 1 /\ sent' = Append(sent, arg)
    BY DEF Param
  <2>2. paramNum = Len(sent) /\ sent \in Seq(Vars)
    BY DEF Inv, TacInv
  <2> QED
    BY <1>1, <2>1, <2>2, RegsAssumption
<1>12. UNCHANGED <<flight, misread, returned, inFunc, awaited, join, jstep>>
  BY DEF Param
<1>13. TacInv'
  BY <1>9, <1>10, <1>11, <1>12 DEF Inv, TacInv
<1> QED
  BY <1>8, <1>13 DEF Inv

LEMMA CallInv ==
    ASSUME Inv, Call
    PROVE  Inv'
<1> DEFINE gone == {sent[i] : i \in DOMAIN sent} \cap Temps
           lost(c) == [c EXCEPT !.reg = [r \in Regs |-> Junk]]
           Returns(c, v, r) == [c EXCEPT !.reg = [x \in Regs |-> IF x = r THEN v ELSE Junk]]
           Result(c, rr, result) ==
               \E p \in Operand(Returns(c, result, rr), result) :
                  /\ Become(Forget(Unlock(Define(p.c, result, p.r), {p.r}), gone))
                  /\ Reads(p.c.reg[rr] = result)
                  /\ Consume({}, {result})
<1>1. PICK c \in IF sent = <<>> THEN CleanForCall(Cur) ELSE {Cur} :
         \/ /\ Become(Forget(lost(c), gone))
            /\ UNCHANGED <<pending, acc, misread>>
         \/ \E rr \in IF Len(sent) = 2 THEN {0, 1} ELSE {0}, result \in Fresh \ gone :
               Result(c, rr, result)
  BY DEF Call
<1>2. Good(c) /\ c.lock = {}
  BY <1>1, CalleeGood DEF Inv
<1> HIDE DEF gone
<1>3. /\ AllocInv' /\ misread' \in BOOLEAN
      /\ pending' \in SUBSET Temps /\ acc' \in SUBSET Temps
  <2>1. CASE Become(Forget(lost(c), gone)) /\ UNCHANGED <<pending, acc, misread>>
    <3>1. Good(lost(c)) /\ lost(c).lock = {}
      BY <1>2 DEF Good, Config, Coherent, Tags
    <3> HIDE DEF lost
    <3>2. Good(Forget(lost(c), gone)) /\ Forget(lost(c), gone).lock = {}
      BY <3>1, ForgetGood
    <3>3. AllocInv'
      BY <2>1, <3>2, BecomeGood DEF Inv
    <3> QED
      BY <2>1, <3>3 DEF Inv, TacInv
  <2>2. ASSUME NEW rr \in IF Len(sent) = 2 THEN {0, 1} ELSE {0}, NEW result \in Fresh,
               Result(c, rr, result)
        PROVE  /\ AllocInv' /\ misread' \in BOOLEAN
               /\ pending' \in SUBSET Temps /\ acc' \in SUBSET Temps
    <3>1. result \in Temps /\ result \in Vars
      BY RvaluesTyped DEF Inv
    <3> DEFINE a == Returns(c, result, rr)
    <3>2. Good(a) /\ a.lock = {}
      BY <1>2, <3>1 DEF Good, Config, Coherent, Tags
    <3>3. PICK p \in Operand(a, result) :
             /\ Become(Forget(Unlock(Define(p.c, result, p.r), {p.r}), gone))
             /\ Reads(p.c.reg[rr] = result)
             /\ Consume({}, {result})
      BY <2>2
    <3> HIDE DEF a
    <3>4. Good(p.c) /\ p.r \in Regs /\ p.c.lock = {p.r}
      BY <3>1, <3>2, OperandGood
    <3> DEFINE d == Define(p.c, result, p.r)
               e == Unlock(d, {p.r})
    <3>5. Good(d) /\ d.lock \subseteq {p.r}
      BY <3>1, <3>4, DefineGood
    <3> HIDE DEF d
    <3>6. Good(e) /\ e.lock = {}
      BY <3>5, UnlockGood
    <3>7. Become(Forget(e, gone))
      BY <3>3 DEF d
    <3> HIDE DEF e
    <3>8. Good(Forget(e, gone)) /\ Forget(e, gone).lock = {}
      BY <3>6, ForgetGood
    <3>9. AllocInv'
      BY <3>7, <3>8, BecomeGood DEF Inv
    <3>10. misread' \in BOOLEAN
      BY <3>3, ReadsTyped
    <3>11. pending' \in SUBSET Temps /\ acc' \in SUBSET Temps
      <4>1. {result} \in SUBSET Temps
        BY <3>1
      <4> QED
        BY <3>3, <4>1, ConsumeTyped DEF Inv
    <3> QED
      BY <3>9, <3>10, <3>11
  <2> HIDE DEF Result
  <2> QED
    BY <1>1, <2>1, <2>2
<1>4. /\ paramNum' = 0 /\ sent' = <<>> /\ out' = <<>>
      /\ UNCHANGED <<flight, returned, inFunc, awaited, join, jstep>>
  BY DEF Call
<1>5. TacInv'
  <2>1. \A S : <<>> \in Seq(S) /\ Len(<<>>) = 0
    OBVIOUS
  <2> QED
    BY <1>3, <1>4, <2>1, RegsAssumption DEF Inv, TacInv
<1> QED
  BY <1>3, <1>5 DEF Inv

-----------------------------------------------------------------------------
(* The theorems *)

\* Every step of the generator, and every stuttering step, keeps Inv.
LEMMA NextInv == Inv /\ [Next]_vars => Inv'
<1> SUFFICES ASSUME Inv, [Next]_vars
             PROVE  Inv'
  OBVIOUS
<1>1. CASE BeginFunc
  BY <1>1, BeginFuncInv
<1>2. CASE AssignVar
  BY <1>2, AssignVarInv
<1>3. CASE AssignTemp
  BY <1>3, AssignTempInv
<1>4. CASE Compute
  BY <1>4, ComputeInv
<1>5. CASE CondBranch
  BY <1>5, CondBranchInv
<1>6. CASE \E l \in Labels : GOTO(l) \/ Label(l)
  BY <1>6, GotoInv, LabelInv
<1>7. CASE GotoHead
  BY <1>7, GotoHeadInv
<1>8. CASE ReturnStatement
  BY <1>8, ReturnStatementInv
<1>9. CASE EndFunc
  BY <1>9, EndFuncInv
<1>10. CASE \E arg \in Rvalues \cup Arrays : arg \notin acc /\ Param(arg)
  BY <1>10, ParamInv
<1>11. CASE Call
  BY <1>11, CallInv
<1>12. CASE UNCHANGED vars
  BY <1>12 DEF Inv, AllocInv, TacInv, OneRegisterPerVariable,
               vars, armsVars, machVars, tacVars
<1> QED
  BY <1>1, <1>2, <1>3, <1>4, <1>5, <1>6, <1>7, <1>8, <1>9, <1>10, <1>11, <1>12 DEF Next

\* The state of the generator and of the machine is well typed in every state:
\* the handlers index registers, stacks and parameters within their ranges.
THEOREM TypeCorrect == Spec => []TypeOK
<1>1. Spec => []Inv
  BY InitInv, NextInv, PTL DEF Spec
<1> QED
  BY <1>1, InvImplies, PTL

\* Between two instructions the handlers leave no register locked, the
\* descriptor and the dirty bits agree, and no variable is in two registers,
\* whatever the registers, variables and parameters of the functions compiled
\* and whichever register rand() evicts (pickRegForVar, regDescriptorInsert).
THEOREM Coherence == Spec => []OneRegisterPerVariable
<1>1. Spec => []Inv
  BY InitInv, NextInv, PTL DEF Spec
<1> QED
  BY <1>1, InvImplies, PTL

-----------------------------------------------------------------------------
(***************************************************************************)
(* The memory of the program compiled is current between two instructions, *)
(* and no register outlives a call.  The argument follows what the         *)
(* descriptor claims of scalars and arrays through the helpers.            *)
(***************************************************************************)

Named == Scalars \cup Arrays

\* What the descriptor says of scalars and arrays is true.
Truthful(c) ==
    Good(c) /\ \A r \in Regs : c.desc[r] \in Named => c.reg[r] = c.desc[r]

\* Between two instructions; inside a handler the scalar it defines is missing.
Settled(c) == Truthful(c) /\ c.mem = Scalars

Unmapped(c) == \A r \in Regs : c.desc[r] = NoVar

-----------------------------------------------------------------------------
(* The helpers *)

LEMMA NamedVars ==
    /\ Named \subseteq Vars /\ NoVar \notin Vars
    /\ Scalars \subseteq Vars /\ Temps \subseteq Vars /\ Consts \subseteq Vars
    /\ Named \cap Temps = {} /\ Named \cap Consts = {}
  BY VarsAssumption DEF Named, Vars

LEMMA UnmapTruth ==
    ASSUME NEW c, Truthful(c), NEW R
    PROVE  Truthful(Unmap(c, R)) /\ Unmap(c, R).mem = c.mem
<1>1. Good(Unmap(c, R))
  BY UnmapGood DEF Truthful
<1>2. \A r \in Regs : /\ Unmap(c, R).desc[r] = IF r \in R THEN NoVar ELSE c.desc[r]
                      /\ Unmap(c, R).reg[r] = IF r \in R THEN Junk ELSE c.reg[r]
  BY DEF Unmap, Truthful, Good, Config
<1>3. Unmap(c, R).mem = c.mem
  BY DEF Unmap, Truthful, Good, Config
<1> QED
  BY <1>1, <1>2, <1>3, NamedVars DEF Truthful

\* Flushed registers are unmapped, and only those.
LEMMA FlushDesc ==
    ASSUME NEW c, Good(c), NEW R
    PROVE  \A r \in Regs : Flush(c, R).desc[r] = IF r \in R THEN NoVar ELSE c.desc[r]
  BY DEF Flush, Unmap, Good, Config

\* Flushing registers writes back every scalar that is current in one of them.
LEMMA FlushTruth ==
    ASSUME NEW c, Truthful(c), NEW R \in SUBSET Regs,
           \A v \in Scalars \ c.mem : \E r \in R : c.desc[r] = v
    PROVE  Settled(Flush(c, R))
<1> DEFINE stored(v) == {r \in R : c.desc[r] = v}
           current == {v \in Scalars : IF stored(v) = {} THEN v \in c.mem
                                    ELSE \E r \in Final(stored(v)) : c.reg[r] = v}
           d == [c EXCEPT !.mem = current]
<1>1. ASSUME NEW v \in Scalars
      PROVE  v \in current
  <2>1. CASE stored(v) = {}
    BY <2>1
  <2>2. CASE stored(v) # {}
    <3>1. PICK r \in R : c.desc[r] = v
      BY <2>2
    <3>2. stored(v) = {r}
      BY <3>1, NamedVars DEF Truthful, Good, Coherent
    <3>3. r \in Final(stored(v))
      BY <3>1, <3>2 DEF Final, Regs
    <3>4. c.reg[r] = v
      BY <3>1 DEF Truthful, Named
    <3> HIDE DEF stored
    <3> QED
      BY <2>2, <3>3, <3>4
  <2> QED
    BY <2>1, <2>2
<1>2. current = Scalars
  BY <1>1
<1> HIDE DEF current
<1>3. Truthful(d) /\ d.mem = Scalars
  BY <1>2 DEF Truthful, Good, Config, Coherent
<1>4. Flush(c, R) = Unmap(d, R)
  BY DEF Flush, current
<1> HIDE DEF d
<1> QED
  BY <1>3, <1>4, UnmapTruth DEF Settled

\* Pushing touches the stacks only.
LEMMA PushTruth ==
    ASSUME NEW c, Settled(c), NEW n \in Nat, NEW q \in [1 .. n -> Regs],
           \A i \in 1 .. n : c.desc[q[i]] \in Temps
    PROVE  Settled(Push(c, q)) /\ Push(c, q).desc = c.desc
<1>1. Good(Push(c, q)) /\ Push(c, q).desc = c.desc
  BY PushGood DEF Settled, Truthful
<1>2. Push(c, q).reg = c.reg /\ Push(c, q).mem = c.mem
  BY DEF Push, Settled, Truthful, Good, Config
<1> QED
  BY <1>1, <1>2 DEF Settled, Truthful

LEMMA EvictTruth ==
    ASSUME NEW c, Settled(c), NEW r \in Regs
    PROVE  Settled(Evict(c, r)) /\ Evict(c, r).desc[r] = NoVar
<1>1. \A d : Settled(d) => Settled(Flush(d, {r})) /\ Flush(d, {r}).desc[r] = NoVar
  BY FlushTruth, FlushDesc DEF Settled, Truthful
<1>2. CASE c.desc[r] \in Temps
  <2>1. Settled(Push(c, <<r>>))
    <3>1. <<r>> \in [1 .. 1 -> Regs] /\ \A i \in 1 .. 1 : c.desc[<<r>>[i]] \in Temps
      BY <1>2
    <3> QED
      BY <3>1, PushTruth
  <2> QED
    BY <1>1, <1>2, <2>1 DEF Evict
<1>3. CASE c.desc[r] \notin Temps
  BY <1>1, <1>3 DEF Evict
<1> QED
  BY <1>2, <1>3

\* The register picked for v holds v, or is mapped to nothing.
LEMMA PickTruth ==
    ASSUME NEW c, Settled(c), NEW v \in Vars, NEW p \in Pick(c, v)
    PROVE  /\ Settled(p.c) /\ p.r \in Regs /\ p.c.desc[p.r] \in {v, NoVar}
           /\ Holding(p.c, v) \subseteq {p.r}
<1> DEFINE clean == {r \in Regs : ~c.dirty[r] /\ r \notin c.lock}
<1>1. p.r \in Regs /\ Holding(p.c, v) \subseteq {p.r}
  BY PickGood DEF Settled, Truthful
<1>2. CASE Holding(c, v) # {}
  <2>1. p.c = c /\ p.r \in Final(Holding(c, v))
    BY <1>2 DEF Pick
  <2>2. c.desc[p.r] = v
    BY <2>1 DEF Final, Holding
  <2> QED
    BY <1>1, <2>1, <2>2
<1>3. CASE Holding(c, v) = {} /\ clean # {}
  <2>1. p.c = c /\ p.r \in First(clean)
    BY <1>3 DEF Pick
  <2>2. ~c.dirty[p.r]
    BY <2>1 DEF First
  <2> QED
    BY <1>1, <2>1, <2>2 DEF Settled, Truthful, Good, Coherent
<1>4. CASE Holding(c, v) = {} /\ clean = {}
  <2>1. PICK r \in Regs \ c.lock : p = [r |-> r, c |-> Evict(c, r)]
    BY <1>4 DEF Pick
  <2> QED
    BY <1>1, <2>1, EvictTruth
<1> QED
  BY <1>1, <1>2, <1>3, <1>4

\* Writing to a register that claims nothing of a scalar or an array, or
\* claims what is written.
LEMMA LoadedTruth ==
    ASSUME NEW c, Settled(c), NEW v \in Vars, NEW r \in Regs,
           c.desc[r] \notin Named, NEW ok \in BOOLEAN
    PROVE  /\ Settled(Loaded(c, v, r, ok)) /\ Loaded(c, v, r, ok).desc = c.desc
           /\ ok => Loaded(c, v, r, ok).reg[r] = v
<1>1. /\ Loaded(c, v, r, ok) \in Config /\ Loaded(c, v, r, ok).desc = c.desc
      /\ Loaded(c, v, r, ok).dirty = c.dirty /\ Loaded(c, v, r, ok).mem = c.mem
      /\ \A x \in Regs : x # r => Loaded(c, v, r, ok).reg[x] = c.reg[x]
      /\ ok => Loaded(c, v, r, ok).reg[r] = v
  BY DEF Loaded, Settled, Truthful, Good, Config, Tags
<1> QED
  BY <1>1 DEF Settled, Truthful, Good, Coherent

LEMMA PopTruth ==
    ASSUME NEW c, Settled(c), NEW v \in Vars, NEW r \in Regs, c.desc[r] \notin Named
    PROVE  Settled(Pop(c, v, r)) /\ Pop(c, v, r).desc = c.desc
<1>1. Good(Pop(c, v, r)) /\ Pop(c, v, r).desc = c.desc
  BY PopGood DEF Settled, Truthful
<1>2. /\ Pop(c, v, r).mem = c.mem
      /\ \A x \in Regs : x # r => Pop(c, v, r).reg[x] = c.reg[x]
  BY DEF Pop, Loaded, Settled, Truthful, Good, Config
<1> QED
  BY <1>1, <1>2 DEF Settled, Truthful

\* After fillReg a scalar or an array is in the register.
LEMMA FillTruth ==
    ASSUME NEW c, Settled(c), NEW v \in Vars, NEW r \in Regs,
           c.desc[r] \in {v, NoVar}, Holding(c, v) \subseteq {r}
    PROVE  /\ Settled(Fill(c, v, r)) /\ Fill(c, v, r).desc = c.desc
           /\ v \in Named => Fill(c, v, r).reg[r] = v
<1>a. c.desc[r] \notin Named =>
         /\ Settled(Loaded(c, v, r, TRUE)) /\ Loaded(c, v, r, TRUE).desc = c.desc
         /\ Loaded(c, v, r, TRUE).reg[r] = v
         /\ Settled(Loaded(c, v, r, FALSE)) /\ Loaded(c, v, r, FALSE).desc = c.desc
  <2>1. TRUE \in BOOLEAN /\ FALSE \in BOOLEAN
    OBVIOUS
  <2> QED
    BY <2>1, LoadedTruth
<1>1. CASE v \in Consts
  <2>1. v \notin Named /\ v \notin Arrays /\ v \notin Scalars /\ v \notin Temps
        /\ c.desc[r] \notin Named
    BY <1>1, NamedVars, VarsAssumption DEF Named
  <2>2. Fill(c, v, r) = Loaded(c, v, r, TRUE)
    BY <1>1, <2>1 DEF Fill
  <2> QED
    BY <2>1, <2>2, <1>a
<1>2. CASE v \notin Consts /\ Holding(c, v) # {}
  <2>1. Holding(c, v) = {r}
    BY <1>2
  <2>2. r \in Final(Holding(c, v))
    BY <2>1 DEF Final, Regs
  <2>3. Fill(c, v, r) = c
    BY <1>2, <2>2 DEF Fill
  <2>4. c.desc[r] = v
    BY <2>1 DEF Holding
  <2> QED
    BY <2>3, <2>4 DEF Settled, Truthful
<1>3. CASE v \notin Consts /\ Holding(c, v) = {}
  <2>1. c.desc[r] = NoVar /\ c.desc[r] \notin Named
    BY <1>3, NamedVars DEF Holding
  <2>2. CASE v \in Arrays
    <3>1. v \notin Scalars /\ v \notin Temps
      BY <2>2, NamedVars, VarsAssumption DEF Named
    <3>2. Fill(c, v, r) = Loaded(c, v, r, TRUE)
      BY <1>3, <2>2, <3>1 DEF Fill
    <3> QED
      BY <2>1, <3>2, <1>a
  <2>3. CASE v \in Scalars
    <3>1. v \notin Arrays /\ v \notin Temps /\ c.mem = Scalars
      BY <2>3, NamedVars, VarsAssumption DEF Named, Settled
    <3>2. Fill(c, v, r) = Loaded(c, v, r, TRUE)
      BY <1>3, <2>3, <3>1 DEF Fill, Loaded
    <3> QED
      BY <2>1, <3>2, <1>a
  <2>4. CASE v \in Temps
    <3>1. v \notin Arrays /\ v \notin Scalars /\ v \notin Named
      BY <2>4, NamedVars DEF Named
    <3>2. Fill(c, v, r) = FillTemp(c, v, r)
      BY <1>3, <2>4, <3>1 DEF Fill
    <3>3. FillTemp(c, v, r) \in {c, Pop(c, v, r), Loaded(c, v, r, TRUE), Loaded(c, v, r, FALSE)}
      BY DEF FillTemp, Loaded
    <3>4. Settled(Pop(c, v, r)) /\ Pop(c, v, r).desc = c.desc
      BY <2>1, PopTruth
    <3> QED
      BY <2>1, <3>1, <3>2, <3>3, <3>4, <1>a
  <2> QED
    BY <1>3, <2>2, <2>3, <2>4 DEF Vars
<1> QED
  BY <1>1, <1>2, <1>3

LEMMA LockTruth ==
    ASSUME NEW c, Truthful(c), NEW r \in Regs, NEW R
    PROVE  /\ Truthful(Lock(c, r)) /\ Lock(c, r).mem = c.mem /\ Lock(c, r).desc = c.desc
           /\ Truthful(Unlock(c, R)) /\ Unlock(c, R).mem = c.mem
           /\ Unlock(c, R).desc = c.desc
  BY DEF Lock, Unlock, Truthful, Good, Config, Coherent

LEMMA InsertTruth ==
    ASSUME NEW c, Settled(c), NEW v \in Vars, NEW r \in Regs, Holding(c, v) \subseteq {r},
           v \in Named => c.reg[r] = v
    PROVE  /\ Settled(Insert(c, v, r)) /\ Insert(c, v, r).desc[r] = v
           /\ \A x \in Regs : x # r => Insert(c, v, r).desc[x] = c.desc[x]
<1>1. Good(Insert(c, v, r))
  BY InsertGood DEF Settled, Truthful
<1>2. /\ Insert(c, v, r).desc = [c.desc EXCEPT ![r] = v]
      /\ Insert(c, v, r).reg = c.reg /\ Insert(c, v, r).mem = c.mem
      /\ c.desc \in [Regs -> Vars \cup {NoVar}]
  BY DEF Insert, Settled, Truthful, Good, Config
<1> QED
  BY <1>1, <1>2 DEF Settled, Truthful

LEMMA OperandTruth ==
    ASSUME NEW c, Settled(c), NEW v \in Vars, NEW p \in Operand(c, v)
    PROVE  Settled(p.c) /\ p.r \in Regs /\ p.c.desc[p.r] = v
<1>1. PICK q \in Pick(c, v) :
         p = [r |-> q.r, c |-> Insert(Fill(Lock(q.c, q.r), v, q.r), v, q.r)]
  BY DEF Operand
<1>2. /\ Settled(q.c) /\ q.r \in Regs /\ q.c.desc[q.r] \in {v, NoVar}
      /\ Holding(q.c, v) \subseteq {q.r}
  BY PickTruth
<1> DEFINE d == Lock(q.c, q.r)
           e == Fill(d, v, q.r)
<1>3. Settled(d) /\ d.desc[q.r] \in {v, NoVar} /\ Holding(d, v) \subseteq {q.r}
  BY <1>2, LockTruth DEF Settled, Holding
<1> HIDE DEF d
<1>4. Settled(e) /\ Holding(e, v) \subseteq {q.r} /\ (v \in Named => e.reg[q.r] = v)
  BY <1>2, <1>3, FillTruth DEF Holding
<1> HIDE DEF e
<1>5. Settled(Insert(e, v, q.r)) /\ Insert(e, v, q.r).desc[q.r] = v
  BY <1>2, <1>4, InsertTruth
<1> QED
  BY <1>1, <1>2, <1>5 DEF d, e

\* A definition makes memory stale for the variable it defines only, and that
\* variable is in the register.
LEMMA DefineTruth ==
    ASSUME NEW c, Settled(c), NEW v \in Vars, NEW r \in Regs, c.desc[r] = v
    PROVE  /\ Truthful(Define(c, v, r)) /\ Define(c, v, r).desc = c.desc
           /\ Define(c, v, r).mem = Scalars \ {v}
<1>1. Good(Define(c, v, r))
  BY DefineGood DEF Settled, Truthful
<1>2. /\ Define(c, v, r).reg = [x \in Regs |-> IF x = r THEN v
                                      ELSE IF c.reg[x] = v THEN Junk ELSE c.reg[x]]
      /\ Define(c, v, r).desc = c.desc /\ Define(c, v, r).mem = Scalars \ {v}
  BY DEF Define, Settled, Truthful, Good, Config
<1>3. \A x \in Regs : x # r => c.desc[x] # v
  BY NamedVars DEF Settled, Truthful, Good, Coherent
<1> QED
  BY <1>1, <1>2, <1>3 DEF Settled, Truthful

\* Writing a scalar through makes memory current again.
LEMMA SpillDstTruth ==
    ASSUME NEW c, Truthful(c), NEW v \in Vars, NEW r \in Regs, c.desc[r] = v,
           Scalars \ {v} \subseteq c.mem
    PROVE  Settled(SpillDst(c, v, r))
<1>1. CASE v \in Scalars
  <2>1. Settled(Flush(c, {r}))
    BY FlushTruth
  <2> QED
    BY <1>1, <2>1 DEF SpillDst
<1>2. CASE v \notin Scalars
  <2>1. c.mem = Scalars
    BY <1>2 DEF Truthful, Good, Config
  <2> QED
    BY <1>2, <2>1 DEF SpillDst, Settled
<1> QED
  BY <1>1, <1>2

LEMMA DiscardConstTruth ==
    ASSUME NEW c, Settled(c), NEW v, NEW r
    PROVE  Settled(DiscardConst(c, v, r))
  BY UnmapTruth DEF DiscardConst, Settled

LEMMA DiscardTruth ==
    ASSUME NEW c, Settled(c), NEW T
    PROVE  Settled(Discard(c, T))
           /\ (Unmapped(c) => Unmapped(Discard(c, T)))
<1> DEFINE dead == {r \in Regs : c.desc[r] \in T /\ r \in Final(Holding(c, c.desc[r]))}
           u == Unmap(c, dead)
<1>1. Truthful(u) /\ u.mem = Scalars
  BY UnmapTruth DEF Settled
<1>2. Unmapped(c) => Unmapped(u)
  BY DEF Unmapped, Unmap, Settled, Truthful, Good, Config
<1>3. Good(Discard(c, T))
  BY DiscardGood DEF Settled, Truthful
<1> HIDE DEF u
<1>4. /\ Discard(c, T).desc = u.desc /\ Discard(c, T).reg = u.reg
      /\ Discard(c, T).mem = u.mem
  BY <1>1 DEF Discard, u, Truthful, Good, Config
<1> QED
  BY <1>1, <1>2, <1>3, <1>4 DEF Settled, Truthful, Unmapped

LEMMA ForgetTruth ==
    ASSUME NEW c, Settled(c), NEW T \in SUBSET Temps
    PROVE  Settled(Forget(c, T)) /\ Forget(c, T).desc = c.desc
<1>1. Good(Forget(c, T))
  BY ForgetGood DEF Settled, Truthful
<1>2. /\ Forget(c, T).reg = [r \in Regs |-> IF c.reg[r] \in T THEN Junk ELSE c.reg[r]]
      /\ Forget(c, T).mem = c.mem /\ Forget(c, T).desc = c.desc
  BY DEF Forget, Settled, Truthful, Good, Config
<1> QED
  BY <1>1, <1>2, NamedVars DEF Settled, Truthful

LEMMA RetireTruth ==
    ASSUME NEW c, Settled(c), NEW T \in SUBSET Temps
    PROVE  Settled(Retire(c, T))
  BY DiscardTruth, ForgetTruth DEF Retire

\* After the cleaning for a branch no scalar and no array is in a register.
LEMMA CleanForBranchDesc ==
    ASSUME NEW c, Good(c)
    PROVE  \A r \in Regs : CleanForBranch(c).desc[r] \notin Named
<1> DEFINE R == {r \in Regs : c.dirty[r] /\ c.desc[r] \in Scalars \cup Arrays}
<1>1. \A r \in Regs : Flush(c, R).desc[r] = IF r \in R THEN NoVar ELSE c.desc[r]
  BY FlushDesc
<1>2. \A r \in Regs : c.desc[r] \in Named => r \in R
  BY NamedVars DEF Good, Coherent, Named
<1>3. CleanForBranch(c) = Flush(c, R)
  BY DEF CleanForBranch
<1> HIDE DEF R
<1> QED
  BY <1>1, <1>2, <1>3, NamedVars

LEMMA CleanForBranchTruth ==
    ASSUME NEW c, Settled(c)
    PROVE  Settled(CleanForBranch(c))
  BY FlushTruth DEF CleanForBranch, Settled

\* After the cleaning for a call nothing is in a register.
LEMMA CleanForCallDesc ==
    ASSUME NEW c, Good(c), NEW d \in CleanForCall(c)
    PROVE  Unmapped(d)
<1> DEFINE R == {r \in Regs : c.dirty[r] /\ c.desc[r] # NoVar}
<1>1. PICK q \in PushOrders(c) : d = Flush(Push(c, q), R)
  BY DEF CleanForCall
<1>2. \A r \in Regs : Flush(Push(c, q), R).desc[r] = IF r \in R THEN NoVar ELSE c.desc[r]
  BY DEF Flush, Unmap, Push, Good, Config
<1>3. \A r \in Regs : r \notin R => c.desc[r] = NoVar
  BY DEF Good, Coherent
<1> HIDE DEF R
<1> QED
  BY <1>1, <1>2, <1>3 DEF Unmapped

LEMMA CleanForCallTruth ==
    ASSUME NEW c, Settled(c), NEW d \in CleanForCall(c)
    PROVE  Settled(d)
<1> DEFINE held == {r \in Regs : c.dirty[r] /\ c.desc[r] \in Temps}
           R == {r \in Regs : c.dirty[r] /\ c.desc[r] # NoVar}
<1>1. PICK q \in [1 .. Cardinality(held) -> held] : d = Flush(Push(c, q), R)
  BY DEF CleanForCall, PushOrders
<1>2. Cardinality(held) \in Nat
  BY RegsCount
<1>3. q \in [1 .. Cardinality(held) -> Regs]
      /\ \A i \in 1 .. Cardinality(held) : c.desc[q[i]] \in Temps
  OBVIOUS
<1>4. R \in SUBSET Regs
  OBVIOUS
<1> HIDE DEF held, R
<1>5. Settled(Push(c, q))
  BY <1>2, <1>3, PushTruth
<1> DEFINE e == Push(c, q)
<1>6. Truthful(e) /\ e.mem = Scalars /\ d = Flush(e, R)
  BY <1>1, <1>5 DEF Settled
<1> HIDE DEF e
<1> QED
  BY <1>4, <1>6, FlushTruth

-----------------------------------------------------------------------------
(* The inductive invariant *)

MemInv ==
    /\ inFunc => mem = Scalars
    /\ flight = NoFlight
          => \A r \in Regs : regDescriptor[r] \in Named => reg[r] = regDescriptor[r]
    /\ ~inFunc \/ sent # <<>> => \A r \in Regs : regDescriptor[r] = NoVar

\* The configuration an action starts from, when the path runs its code ...
LEMMA CurSettled ==
    ASSUME Inv, MemInv, inFunc, flight = NoFlight
    PROVE  Settled(Cur)
<1>1. Good(Cur)
  BY CurGood DEF Inv
<1> QED
  BY <1>1 DEF MemInv, Settled, Truthful, Cur

\* ... and the one it ends in.
LEMMA BecomeSettled ==
    ASSUME MemInv, inFunc, inFunc', NEW c, Become(c),
           flight = NoFlight => Settled(c), flight' = NoFlight => flight = NoFlight,
           sent' # <<>> => Unmapped(c)
    PROVE  MemInv'
<1>1. CASE flight = NoFlight
  <2>1. mem' = Scalars /\ \A r \in Regs : regDescriptor'[r] \in Named => reg'[r] = regDescriptor'[r]
    BY <1>1 DEF Become, Settled, Truthful
  <2>2. sent' # <<>> => \A r \in Regs : regDescriptor'[r] = NoVar
    BY DEF Become, Unmapped
  <2> QED
    BY <2>1, <2>2 DEF MemInv
<1>2. CASE flight # NoFlight
  <2>1. mem' = Scalars
    BY <1>2 DEF Become, machVars, MemInv
  <2>2. sent' # <<>> => \A r \in Regs : regDescriptor'[r] = NoVar
    BY DEF Become, Unmapped
  <2> QED
    BY <1>2, <2>1, <2>2 DEF MemInv
<1> QED
  BY <1>1, <1>2

LEMMA InitMem == Init => MemInv
  BY NamedVars DEF Init, MemInv

-----------------------------------------------------------------------------
(* The actions *)

LEMMA BeginFuncMem ==
    ASSUME Inv, MemInv, BeginFunc
    PROVE  MemInv'
<1> DEFINE inRegs == {i \in DOMAIN Params : i <= NumArgRegs}
           entry  == [r \in Regs |-> IF r + 1 \in inRegs THEN Params[r + 1] ELSE Junk]
<1>1. mem' = {v \in Scalars : \A i \in inRegs : Params[i] = v => entry[i - 1] = v}
  BY DEF BeginFunc
<1>2. \A i \in inRegs : entry[i - 1] = Params[i]
  <2>1. SUFFICES ASSUME NEW i \in inRegs PROVE entry[i - 1] = Params[i]
    OBVIOUS
  <2>2. i \in Nat /\ i >= 1 /\ i <= NumArgRegs
    BY VarsAssumption, RegsAssumption
  <2>3. i - 1 \in Regs /\ (i - 1) + 1 = i
    BY <2>2, RegsAssumption DEF Regs
  <2> QED
    BY <2>3
<1> HIDE DEF inRegs, entry
<1>3. mem' = Scalars
  BY <1>1, <1>2
<1>4. \A r \in Regs : regDescriptor'[r] = NoVar
  BY DEF BeginFunc, MemInv
<1>5. sent' = sent /\ inFunc'
  BY DEF BeginFunc
<1> QED
  BY <1>3, <1>4, <1>5, NamedVars DEF MemInv

\* generateAssign writes a scalar through.
LEMMA AssignMem ==
    ASSUME Inv, MemInv, inFunc, inFunc', sent' = <<>>, flight' = flight,
           NEW dst \in Vars, NEW src \in Vars, Assign(dst, src)
    PROVE  MemInv'
<1> DEFINE used == {src} \cap Temps
           From == IF src \in Consts THEN {[r |-> 0, c |-> Cur]} ELSE Operand(Cur, src)
           c2(p1, p2) == SpillDst(Unlock(Define(p2.c, dst, p2.r), {p1.r, p2.r}), dst, p2.r)
<1>1. PICK p1 \in From : \E p2 \in Operand(p1.c, dst) : Become(Retire(c2(p1, p2), used))
  BY DEF Assign
<1>2. PICK p2 \in Operand(p1.c, dst) : Become(Retire(c2(p1, p2), used))
  BY <1>1
<1> DEFINE f == Retire(c2(p1, p2), used)
<1>3. ASSUME flight = NoFlight
      PROVE  Settled(f)
  <2>1. Settled(Cur)
    BY <1>3, CurSettled
  <2>2. Settled(p1.c)
    <3>1. CASE src \in Consts
      BY <2>1, <3>1
    <3>2. CASE src \notin Consts
      BY <2>1, <3>2, OperandTruth
    <3> QED
      BY <3>1, <3>2
  <2>3. Settled(p2.c) /\ p2.r \in Regs /\ p2.c.desc[p2.r] = dst
    BY <2>2, OperandTruth
  <2> DEFINE d == Define(p2.c, dst, p2.r)
             e == Unlock(d, {p1.r, p2.r})
             g == SpillDst(e, dst, p2.r)
  <2>4. Truthful(d) /\ d.mem = Scalars \ {dst} /\ d.desc[p2.r] = dst
    BY <2>3, DefineTruth
  <2> HIDE DEF d
  <2>5. Truthful(e) /\ e.mem = Scalars \ {dst} /\ e.desc[p2.r] = dst
    BY <2>3, <2>4, LockTruth
  <2> HIDE DEF e
  <2>6. Settled(g)
    BY <2>3, <2>5, SpillDstTruth
  <2>7. f = Retire(g, used)
    BY DEF d, e
  <2> HIDE DEF g
  <2> QED
    BY <2>6, <2>7, RetireTruth
<1> HIDE DEF f
<1>4. Become(f)
  BY <1>2 DEF f
<1> QED
  BY <1>3, <1>4, BecomeSettled

LEMMA GatherTruth ==
    ASSUME Settled(Cur), NEW x \in Vars, NEW y \in Vars, NEW z \in Vars,
           NEW p \in Gather(x, y, z)
    PROVE  Settled(p.c) /\ p.r[3] \in Regs /\ p.c.desc[p.r[3]] = z
<1>1. PICK p1 \in Operand(Cur, x) : \E p2 \in Operand(p1.c, y) : \E p3 \in Operand(p2.c, z) :
         p = [r |-> <<p1.r, p2.r, p3.r>>, c |-> p3.c]
  BY DEF Gather
<1>2. PICK p2 \in Operand(p1.c, y) : \E p3 \in Operand(p2.c, z) :
         p = [r |-> <<p1.r, p2.r, p3.r>>, c |-> p3.c]
  BY <1>1
<1>3. PICK p3 \in Operand(p2.c, z) : p = [r |-> <<p1.r, p2.r, p3.r>>, c |-> p3.c]
  BY <1>2
<1>4. Settled(p1.c)
  BY OperandTruth
<1>5. Settled(p2.c)
  BY <1>4, OperandTruth
<1>6. Settled(p3.c) /\ p3.r \in Regs /\ p3.c.desc[p3.r] = z
  BY <1>5, OperandTruth
<1>7. p.c = p3.c /\ p.r[3] = p3.r
  BY <1>3
<1> QED
  BY <1>6, <1>7

\* A temporary's definition, its operands unlocked, settles memory.
LEMMA DefineTempTruth ==
    ASSUME NEW c, Settled(c), NEW v \in Temps, NEW r \in Regs, c.desc[r] = v, NEW R
    PROVE  Settled(Unlock(Define(c, v, r), R))
<1>1. v \in Vars /\ v \notin Scalars
  BY NamedVars DEF Named
<1>2. Truthful(Define(c, v, r)) /\ Define(c, v, r).mem = Scalars
  BY <1>1, DefineTruth
<1> QED
  BY <1>2, LockTruth DEF Settled

LEMMA SpillTempTruth ==
    ASSUME NEW c, Settled(c), NEW v \in Temps, NEW r
    PROVE  Settled(SpillDst(c, v, r))
  BY NamedVars DEF SpillDst, Named

LEMMA BinaryOPMem ==
    ASSUME Inv, MemInv, inFunc, inFunc', sent' = <<>>, flight' = flight,
           NEW dst \in Temps, NEW src1 \in Vars, NEW src2 \in Vars,
           BinaryOP(dst, src1, src2)
    PROVE  MemInv'
<1> DEFINE used == {src1, src2} \cap Temps
           c1(p) == Unlock(Define(p.c, dst, p.r[3]), {p.r[i] : i \in 1 .. 3})
           c2(p) == DiscardConst(DiscardConst(c1(p), src1, p.r[1]), src2, p.r[2])
           c3(p) == SpillDst(c2(p), dst, p.r[3])
<1>1. PICK p \in Gather(src1, src2, dst) : Become(Retire(c3(p), used \ {dst}))
  BY DEF BinaryOP
<1> DEFINE f == Retire(c3(p), used \ {dst})
<1>2. ASSUME flight = NoFlight
      PROVE  Settled(f)
  <2>1. Settled(p.c) /\ p.r[3] \in Regs /\ p.c.desc[p.r[3]] = dst
    BY <1>2, CurSettled, GatherTruth, NamedVars
  <2> DEFINE e == c1(p)
             g == c2(p)
             h == c3(p)
  <2>2. Settled(e)
    BY <2>1, DefineTempTruth
  <2>3. g = DiscardConst(DiscardConst(e, src1, p.r[1]), src2, p.r[2])
    OBVIOUS
  <2> HIDE DEF e
  <2>4. Settled(g)
    BY <2>2, <2>3, DiscardConstTruth
  <2>5. h = SpillDst(g, dst, p.r[3])
    BY DEF e
  <2> HIDE DEF g
  <2>6. Settled(h)
    BY <2>4, <2>5, SpillTempTruth
  <2>7. f = Retire(h, used \ {dst}) /\ used \ {dst} \in SUBSET Temps
    BY DEF e, g
  <2> HIDE DEF h, f, used
  <2> QED
    BY <2>6, <2>7, RetireTruth
<1> HIDE DEF f
<1>3. Become(f)
  BY <1>1 DEF f
<1> QED
  BY <1>2, <1>3, BecomeSettled

LEMMA LoadMem ==
    ASSUME Inv, MemInv, inFunc, inFunc', sent' = <<>>, flight' = flight,
           NEW dst \in Temps, NEW src \in Vars, NEW offset \in Vars,
           Load(dst, src, offset)
    PROVE  MemInv'
<1> DEFINE used == {offset} \cap Temps
           c1(p) == Unlock(Define(p.c, dst, p.r[3]), {p.r[i] : i \in 1 .. 3})
           c2(p) == SpillDst(DiscardConst(c1(p), offset, p.r[2]), dst, p.r[3])
<1>1. PICK p \in Gather(src, offset, dst) : Become(Retire(c2(p), used))
  BY DEF Load
<1> DEFINE f == Retire(c2(p), used)
<1>2. ASSUME flight = NoFlight
      PROVE  Settled(f)
  <2>1. Settled(p.c) /\ p.r[3] \in Regs /\ p.c.desc[p.r[3]] = dst
    BY <1>2, CurSettled, GatherTruth, NamedVars
  <2> DEFINE e == c1(p)
             g == DiscardConst(e, offset, p.r[2])
             h == c2(p)
  <2>2. Settled(e)
    BY <2>1, DefineTempTruth
  <2> HIDE DEF e
  <2>3. Settled(g)
    BY <2>2, DiscardConstTruth
  <2>4. h = SpillDst(g, dst, p.r[3])
    BY DEF e
  <2> HIDE DEF g
  <2>5. Settled(h)
    BY <2>3, <2>4, SpillTempTruth
  <2> HIDE DEF h
  <2>6. f = Retire(h, used) /\ used \in SUBSET Temps
    BY DEF h
  <2> HIDE DEF f, used
  <2> QED
    BY <2>5, <2>6, RetireTruth
<1> HIDE DEF f
<1>3. Become(f)
  BY <1>1 DEF f
<1> QED
  BY <1>2, <1>3, BecomeSettled

LEMMA StoreMem ==
    ASSUME Inv, MemInv, inFunc, inFunc', sent' = <<>>, flight' = flight,
           NEW dst \in Vars, NEW offset \in Vars, NEW src \in Vars,
           Store(dst, offset, src)
    PROVE  MemInv'
<1> DEFINE used == {src, offset} \cap Temps
           c1(p) == Unlock(p.c, {p.r[i] : i \in 1 .. 3})
<1>1. PICK p \in Gather(src, offset, dst) :
         Become(Retire(DiscardConst(c1(p), offset, p.r[2]), used))
  BY DEF Store
<1> DEFINE e == c1(p)
           g == DiscardConst(e, offset, p.r[2])
           f == Retire(g, used)
<1>2. ASSUME flight = NoFlight
      PROVE  Settled(f)
  <2>1. Settled(p.c) /\ p.r[3] \in Regs
    BY <1>2, CurSettled, GatherTruth
  <2>2. Settled(e)
    BY <2>1, LockTruth DEF Settled
  <2> HIDE DEF e
  <2>3. Settled(g) /\ used \in SUBSET Temps
    BY <2>2, DiscardConstTruth
  <2> HIDE DEF g, used
  <2> QED
    BY <2>3, RetireTruth
<1> HIDE DEF f
<1>3. Become(f)
  BY <1>1 DEF f
<1> QED
  BY <1>2, <1>3, BecomeSettled

\* The straight-line actions.
LEMMA StraightMem ==
    ASSUME Inv, MemInv, AssignVar \/ AssignTemp \/ Compute
    PROVE  MemInv'
<1>1. /\ Rvalues \subseteq Vars /\ Fresh \subseteq Temps /\ Temps \subseteq Vars
      /\ Scalars \subseteq Vars /\ Arrays \subseteq Vars /\ Consts \subseteq Vars
  BY RvaluesTyped DEF Inv, Vars
<1>2. inFunc /\ inFunc' /\ sent' = <<>> /\ flight' = flight
  BY DEF AssignVar, AssignTemp, Compute, Quiet
<1>3. CASE AssignVar
  <2>1. PICK dst \in Scalars, src \in Rvalues : Assign(dst, src)
    BY <1>3 DEF AssignVar
  <2> QED
    BY <1>1, <1>2, <2>1, AssignMem
<1>4. CASE AssignTemp
  <2>1. \E dst \in Temps, src \in Consts : Assign(dst, src)
    <3>1. jstep = 3 => join \in Temps
      BY DEF Inv, TacInv
    <3> QED
      BY <1>1, <1>4, <3>1 DEF AssignTemp
  <2> QED
    BY <1>1, <1>2, <2>1, AssignMem
<1>5. CASE Compute
  <2>1. \/ \E src1 \in Rvalues \cup Arrays, src2 \in Rvalues :
            \E dst \in Fresh \cup ({src1} \cap Temps) : BinaryOP(dst, src1, src2)
        \/ \E src \in Arrays, offset \in Rvalues, dst \in Fresh : Load(dst, src, offset)
        \/ \E dst \in Arrays, offset \in Rvalues, src \in Rvalues : Store(dst, offset, src)
    BY <1>5 DEF Compute
  <2> QED
    BY <1>1, <1>2, <2>1, BinaryOPMem, LoadMem, StoreMem
<1> QED
  BY <1>3, <1>4, <1>5

LEMMA CondBranchMem ==
    ASSUME Inv, MemInv, CondBranch
    PROVE  MemInv'
<1>1. Rvalues \subseteq Vars
  BY RvaluesTyped DEF Inv
<1>2. inFunc /\ inFunc' /\ sent' = <<>>
  BY DEF CondBranch, Quiet
<1> DEFINE b == CleanForBranch(Cur)
<1>3. flight = NoFlight => Settled(b)
  BY <1>2, CurSettled, CleanForBranchTruth
<1>4. ASSUME NEW l \in Labels, NEW test \in Rvalues, IfZ(test, l)
      PROVE  MemInv'
  <2> DEFINE used == {test} \cap Temps
  <2>1. PICK p \in Operand(b, test) :
           /\ Become(Retire(DiscardConst(Unlock(p.c, {p.r}), test, p.r), used))
           /\ Branch(l, pending \ used)
    BY <1>4 DEF IfZ
  <2>2. flight' = NoFlight => flight = NoFlight
    BY <2>1 DEF Branch
  <2> DEFINE e == Unlock(p.c, {p.r})
             g == DiscardConst(e, test, p.r)
             f == Retire(g, used)
  <2>3. ASSUME flight = NoFlight
        PROVE  Settled(f)
    <3>1. Settled(p.c) /\ p.r \in Regs
      <4> HIDE DEF b
      <4> QED
        BY <1>1, <1>3, <2>3, OperandTruth
    <3>2. Settled(e)
      BY <3>1, LockTruth DEF Settled
    <3> HIDE DEF e
    <3>3. Settled(g) /\ used \in SUBSET Temps
      BY <3>2, DiscardConstTruth
    <3> HIDE DEF g, used
    <3> QED
      BY <3>3, RetireTruth
  <2> HIDE DEF f
  <2>4. Become(f)
    BY <2>1 DEF f
  <2> QED
    BY <1>2, <2>2, <2>3, <2>4, BecomeSettled
<1>5. ASSUME NEW l \in Labels, NEW src1 \in Rvalues, NEW src2 \in Rvalues,
             CMP(src1, src2, l)
      PROVE  MemInv'
  <2> DEFINE used == {src1, src2} \cap Temps
             c1(p1, p2) == DiscardConst(Unlock(p2.c, {p1.r, p2.r}), src1, p1.r)
  <2>1. PICK p1 \in Operand(b, src1) : \E p2 \in Operand(p1.c, src2) :
           /\ Become(Retire(DiscardConst(c1(p1, p2), src2, p2.r), used))
           /\ Branch(l, pending \ used)
    BY <1>5 DEF CMP
  <2>2. PICK p2 \in Operand(p1.c, src2) :
           /\ Become(Retire(DiscardConst(c1(p1, p2), src2, p2.r), used))
           /\ Branch(l, pending \ used)
    BY <2>1
  <2>3. flight' = NoFlight => flight = NoFlight
    BY <2>2 DEF Branch
  <2> DEFINE e == Unlock(p2.c, {p1.r, p2.r})
             g == c1(p1, p2)
             h == DiscardConst(g, src2, p2.r)
             f == Retire(h, used)
  <2>4. ASSUME flight = NoFlight
        PROVE  Settled(f)
    <3>1. Settled(p1.c)
      <4> HIDE DEF b
      <4> QED
        BY <1>1, <1>3, <2>4, OperandTruth
    <3>2. Settled(p2.c) /\ p2.r \in Regs
      BY <1>1, <3>1, OperandTruth
    <3>3. Settled(e)
      BY <3>2, LockTruth DEF Settled
    <3>4. g = DiscardConst(e, src1, p1.r)
      OBVIOUS
    <3> HIDE DEF e
    <3>5. Settled(g)
      BY <3>3, <3>4, DiscardConstTruth
    <3> HIDE DEF g
    <3>6. Settled(h) /\ used \in SUBSET Temps
      BY <3>5, DiscardConstTruth
    <3> HIDE DEF h, used
    <3> QED
      BY <3>6, RetireTruth
  <2> HIDE DEF f
  <2>5. Become(f)
    BY <2>2 DEF f
  <2> QED
    BY <1>2, <2>3, <2>4, <2>5, BecomeSettled
<1>6. \E l \in Labels : \/ \E test \in Rvalues : IfZ(test, l)
                        \/ \E src1 \in Rvalues, src2 \in Rvalues : CMP(src1, src2, l)
  BY DEF CondBranch
<1> QED
  BY <1>4, <1>5, <1>6

LEMMA GotoMem ==
    ASSUME Inv, MemInv, GotoHead \/ \E l \in Labels : GOTO(l)
    PROVE  MemInv'
<1>1. /\ inFunc /\ inFunc' /\ sent' = <<>> /\ Become(CleanForBranch(Cur))
      /\ flight' # NoFlight
  BY VarsAssumption DEF GotoHead, GOTO, Quiet, tacVars
<1>2. flight = NoFlight => Settled(CleanForBranch(Cur))
  BY <1>1, CurSettled, CleanForBranchTruth
<1> QED
  BY <1>1, <1>2, BecomeSettled

\* Where a path lands the descriptor claims no scalar and no array.
LEMMA LabelMem ==
    ASSUME Inv, MemInv, NEW l \in Labels, Label(l)
    PROVE  MemInv'
<1> DEFINE b == CleanForBranch(Cur)
           d == [b EXCEPT !.stack = <<>>, !.stk = [i \in DOMAIN @ |-> Junk]]
<1>1. inFunc /\ inFunc' /\ sent' = <<>> /\ Become(d)
  BY DEF Label, PlaceLabel
<1>2. Good(b) /\ \A r \in Regs : b.desc[r] \notin Named
  BY CurGood, CleanForBranchGood, CleanForBranchDesc DEF Inv
<1>3. \A r \in Regs : regDescriptor'[r] \notin Named
  <2> HIDE DEF b
  <2>1. d.desc = b.desc
    BY <1>2 DEF Good, Config
  <2> QED
    BY <1>1, <1>2, <2>1 DEF Become
<1>4. mem' = Scalars
  <2>1. CASE flight = NoFlight
    <3>1. Settled(b)
      BY <1>1, <2>1, CurSettled, CleanForBranchTruth
    <3> HIDE DEF b
    <3>2. d.mem = b.mem
      BY <1>2 DEF Good, Config
    <3> QED
      BY <1>1, <2>1, <3>1, <3>2 DEF Become, Settled
  <2>2. CASE flight # NoFlight
    BY <1>1, <2>2 DEF Become, machVars, MemInv
  <2> QED
    BY <2>1, <2>2
<1> QED
  BY <1>1, <1>3, <1>4 DEF MemInv

\* generateReturn: r0 is written when no scalar and no array is in a register.
LEMMA ReturnMem ==
    ASSUME Inv, MemInv, ReturnStatement
    PROVE  MemInv'
<1>1. inFunc /\ inFunc' /\ sent' = <<>> /\ flight' # NoFlight
  BY VarsAssumption DEF ReturnStatement, Quiet
<1>2. ASSUME NEW result \in Rvalues, Return(result)
      PROVE  MemInv'
  <2> DEFINE used == {result} \cap Temps
             b == CleanForBranch(Cur)
             c1(p) == Unlock(Fill(Lock(p.c, p.r), result, p.r), {p.r})
             c2(p) == CleanForBranch(Discard(c1(p), used))
  <2>1. PICK p \in Pick(b, result) : Become([c2(p) EXCEPT !.reg[0] = c1(p).reg[p.r]])
    BY <1>2 DEF Return
  <2>2. result \in Vars
    BY RvaluesTyped DEF Inv
  <2> DEFINE k == Lock(p.c, p.r)
             f == Fill(k, result, p.r)
             e == Unlock(f, {p.r})
             g == Discard(e, used)
             h == CleanForBranch(g)
             w == [h EXCEPT !.reg[0] = e.reg[p.r]]
  <2>3. ASSUME flight = NoFlight
        PROVE  Settled(w)
    <3>1. Settled(b)
      BY <1>1, <2>3, CurSettled, CleanForBranchTruth
    <3> HIDE DEF b
    <3>2. /\ Settled(p.c) /\ p.r \in Regs /\ p.c.desc[p.r] \in {result, NoVar}
          /\ Holding(p.c, result) \subseteq {p.r}
      BY <2>2, <3>1, PickTruth
    <3>3. Settled(k) /\ k.desc[p.r] \in {result, NoVar} /\ Holding(k, result) \subseteq {p.r}
      BY <3>2, LockTruth DEF Settled, Holding
    <3> HIDE DEF k
    <3>4. Settled(f)
      BY <2>2, <3>2, <3>3, FillTruth
    <3> HIDE DEF f
    <3>5. Settled(e)
      BY <3>2, <3>4, LockTruth DEF Settled
    <3> HIDE DEF e
    <3>6. Settled(g)
      BY <3>5, DiscardTruth
    <3> HIDE DEF g
    <3>7. Settled(h) /\ \A r \in Regs : h.desc[r] \notin Named
      BY <3>6, CleanForBranchTruth, CleanForBranchDesc DEF Settled, Truthful
    <3> HIDE DEF h
    <3>8. e.reg[p.r] \in Tags
      BY <3>2, <3>5 DEF Settled, Truthful, Good, Config
    <3> QED
      BY <3>7, <3>8 DEF Settled, Truthful, Good, Config, Coherent
  <2> HIDE DEF w
  <2>4. Become(w)
    BY <2>1 DEF w
  <2> QED
    BY <1>1, <2>3, <2>4, BecomeSettled
<1>3. ASSUME Become(CleanForBranch(CleanForBranch(Cur)))
      PROVE  MemInv'
  <2>1. flight = NoFlight => Settled(CleanForBranch(CleanForBranch(Cur)))
    BY <1>1, CurSettled, CleanForBranchTruth
  <2> QED
    BY <1>1, <1>3, <2>1, BecomeSettled
<1> QED
  BY <1>2, <1>3 DEF ReturnStatement

LEMMA EndFuncMem ==
    ASSUME Inv, MemInv, EndFunc
    PROVE  MemInv'
<1>1. ~inFunc'
  BY DEF EndFunc
<1>2. \A r \in Regs : regDescriptor'[r] = NoVar
  <2> DEFINE b == CleanForBranch(Cur)
             d == [b EXCEPT !.stack = <<>>, !.desc  = [r \in Regs |-> NoVar],
                            !.dirty = [r \in Regs |-> FALSE]]
  <2>1. Good(b)
    BY CurGood, CleanForBranchGood DEF Inv
  <2>2. Become(d)
    BY DEF EndFunc
  <2> HIDE DEF b
  <2>3. d.desc = [r \in Regs |-> NoVar]
    BY <2>1 DEF Good, Config
  <2> HIDE DEF d
  <2> QED
    BY <2>2, <2>3 DEF Become
<1> QED
  BY <1>1, <1>2, NamedVars DEF MemInv

\* The configuration the first Param, or a Call without any, starts from: no
\* register is mapped, now or since the first Param.
LEMMA CalleeUnmapped ==
    ASSUME Inv, MemInv, inFunc, NEW b, b \/ sent # <<>>,
           NEW c \in IF b THEN CleanForCall(Cur) ELSE {Cur}
    PROVE  Good(c) /\ Unmapped(c) /\ (flight = NoFlight => Settled(c))
<1>1. Good(Cur) /\ (flight = NoFlight => Settled(Cur))
  BY CurGood, CurSettled DEF Inv
<1>2. CASE b
  BY <1>1, <1>2, CleanForCallGood, CleanForCallDesc, CleanForCallTruth
<1>3. CASE ~b
  BY <1>1, <1>3 DEF MemInv, Unmapped, Cur
<1> QED
  BY <1>2, <1>3

\* Passing a parameter writes to an unmapped register.
LEMMA PassTruth ==
    ASSUME NEW c, Settled(c), Unmapped(c), NEW v \in Vars, NEW r \in Regs
    PROVE  Settled(PassTemp(c, v, r)) /\ Settled(Fill(c, v, r))
<1>1. c.desc[r] = NoVar /\ c.desc[r] \notin Named /\ Holding(c, v) = {}
  BY NamedVars DEF Unmapped, Holding
<1>2. Settled(Fill(c, v, r))
  BY <1>1, FillTruth
<1>3. PassTemp(c, v, r) \in {Pop(c, v, r), Loaded(c, v, r, TRUE), Loaded(c, v, r, FALSE)}
  BY DEF PassTemp, Loaded
<1>4. Settled(Pop(c, v, r))
  BY <1>1, PopTruth
<1>5. Settled(Loaded(c, v, r, TRUE)) /\ Settled(Loaded(c, v, r, FALSE))
  <2>1. TRUE \in BOOLEAN /\ FALSE \in BOOLEAN
    OBVIOUS
  <2> QED
    BY <1>1, <2>1, LoadedTruth
<1> QED
  BY <1>2, <1>3, <1>4, <1>5

LEMMA PassGood ==
    ASSUME NEW c, Good(c), Unmapped(c), NEW v \in Vars, NEW r \in Regs
    PROVE  /\ Good(PassTemp(c, v, r)) /\ Unmapped(PassTemp(c, v, r))
           /\ Good(Fill(c, v, r)) /\ Unmapped(Fill(c, v, r))
<1>1. Good(PassTemp(c, v, r)) /\ Good(Fill(c, v, r)) /\ Unmapped(Fill(c, v, r))
  BY PassTempGood, FillGood DEF Unmapped
<1>2. PassTemp(c, v, r).desc = c.desc
  <2>1. PassTemp(c, v, r) \in {Pop(c, v, r), Loaded(c, v, r, TRUE), Loaded(c, v, r, FALSE)}
    BY DEF PassTemp, Loaded
  <2>2. Pop(c, v, r).desc = c.desc
    BY PopGood
  <2>3. Loaded(c, v, r, TRUE).desc = c.desc /\ Loaded(c, v, r, FALSE).desc = c.desc
    BY DEF Loaded, Good, Config
  <2> QED
    BY <2>1, <2>2, <2>3
<1> QED
  BY <1>1, <1>2 DEF Unmapped

LEMMA ParamMem ==
    ASSUME Inv, MemInv, NEW arg \in Rvalues \cup Arrays, Param(arg)
    PROVE  MemInv'
<1> DEFINE r == IF paramNum < NumArgRegs THEN paramNum ELSE NumArgRegs
           used == {arg} \cap Temps
           c1(c) == IF arg \in Temps THEN PassTemp(c, arg, r) ELSE Fill(c, arg, r)
<1>1. inFunc /\ inFunc' /\ flight' = flight
  BY DEF Param
<1>2. PICK c \in IF paramNum = 0 THEN CleanForCall(Cur) ELSE {Cur} :
         Become(Discard(c1(c), used))
  BY DEF Param
<1>3. paramNum = 0 \/ sent # <<>>
  BY DEF Inv, TacInv
<1>4. Good(c) /\ Unmapped(c) /\ (flight = NoFlight => Settled(c))
  BY <1>1, <1>2, <1>3, CalleeUnmapped
<1>5. arg \in Vars /\ r \in Regs
  BY RvaluesTyped, ArgRegister DEF Inv, Vars
<1> HIDE DEF r
<1> DEFINE d == c1(c)
<1>6. Good(d) /\ Unmapped(d) /\ (flight = NoFlight => Settled(d))
  BY <1>4, <1>5, PassGood, PassTruth
<1>7. Become(Discard(d, used))
  BY <1>2
<1> HIDE DEF d, used
<1>8. Unmapped(Discard(d, used))
  BY <1>6 DEF Unmapped, Discard, Unmap, Good, Config
<1>9. flight = NoFlight => Settled(Discard(d, used))
  BY <1>6, DiscardTruth
<1> QED
  BY <1>1, <1>7, <1>8, <1>9, BecomeSettled

\* The registers are the callee's: nothing is mapped when the result is placed.
LEMMA CallMem ==
    ASSUME Inv, MemInv, Call
    PROVE  MemInv' /\ \A r \in Regs : regDescriptor'[r] # NoVar
                                        => regDescriptor'[r] \in pending' \ pending
<1> DEFINE gone == {sent[i] : i \in DOMAIN sent} \cap Temps
           lost(c) == [c EXCEPT !.reg = [r \in Regs |-> Junk]]
           Returns(c, v, r) == [c EXCEPT !.reg = [x \in Regs |-> IF x = r THEN v ELSE Junk]]
           Final1(p, result) == Forget(Unlock(Define(p.c, result, p.r), {p.r}), gone)
<1>1. PICK c \in IF sent = <<>> THEN CleanForCall(Cur) ELSE {Cur} :
         \/ Become(Forget(lost(c), gone))
         \/ \E rr \in IF Len(sent) = 2 THEN {0, 1} ELSE {0}, result \in Fresh \ gone :
              \E p \in Operand(Returns(c, result, rr), result) :
                 /\ Become(Final1(p, result))
                 /\ Consume({}, {result})
  BY DEF Call
<1>2. inFunc /\ inFunc' /\ flight' = flight /\ sent' = <<>>
  BY DEF Call
<1>3. Good(c) /\ Unmapped(c) /\ (flight = NoFlight => Settled(c))
  BY <1>1, <1>2, CalleeUnmapped
<1>4. gone \in SUBSET Temps
  OBVIOUS
<1> HIDE DEF gone
<1>5. CASE Become(Forget(lost(c), gone))
  <2> DEFINE f == Forget(lost(c), gone)
  <2>1. Good(lost(c)) /\ lost(c).desc = c.desc /\ lost(c).mem = c.mem
    BY <1>3 DEF Good, Config, Coherent, Tags
  <2>2. flight = NoFlight => Settled(lost(c))
    BY <1>3, <2>1, NamedVars DEF Settled, Truthful, Unmapped
  <2> HIDE DEF lost
  <2>3. f.desc = c.desc
    BY <2>1 DEF Forget, Good, Config
  <2>4. flight = NoFlight => Settled(f)
    BY <1>4, <2>2, ForgetTruth
  <2>5. Become(f)
    BY <1>5
  <2> HIDE DEF f
  <2>6. MemInv'
    BY <1>2, <2>4, <2>5, BecomeSettled
  <2>7. \A r \in Regs : regDescriptor'[r] = NoVar
    BY <1>3, <2>3, <2>5 DEF Become, Unmapped
  <2> QED
    BY <2>6, <2>7
<1>6. ASSUME NEW rr \in IF Len(sent) = 2 THEN {0, 1} ELSE {0}, NEW result \in Fresh \ gone,
             NEW p \in Operand(Returns(c, result, rr), result),
             Become(Final1(p, result)), Consume({}, {result})
      PROVE  MemInv' /\ \A r \in Regs : regDescriptor'[r] # NoVar
                                          => regDescriptor'[r] \in pending' \ pending
  <2>1. result \in Temps /\ result \in Vars /\ result \notin pending
    BY RvaluesTyped DEF Inv, Fresh
  <2> DEFINE a == Returns(c, result, rr)
             d == Define(p.c, result, p.r)
             e == Unlock(d, {p.r})
             f == Forget(e, gone)
  <2>2. Good(a) /\ Unmapped(a) /\ a.mem = c.mem /\ a.desc = c.desc
    BY <1>3, <2>1 DEF Good, Config, Coherent, Tags, Unmapped
  <2>3. flight = NoFlight => Settled(a)
    BY <1>3, <2>2, NamedVars DEF Settled, Truthful, Unmapped
  <2>4. p \in Operand(a, result)
    OBVIOUS
  <2> HIDE DEF a
  <2>5. Good(p.c) /\ p.r \in Regs
    BY <2>1, <2>2, <2>4, OperandGood
  <2>6. \A r \in Regs : p.c.desc[r] \in {NoVar, result}
    <3>1. PICK q \in Pick(a, result) :
             p = [r |-> q.r, c |-> Insert(Fill(Lock(q.c, q.r), result, q.r), result, q.r)]
      BY <2>4 DEF Operand
    <3>2. Good(q.c) /\ q.r \in Regs /\ Unmapped(q.c)
      <4>1. Good(q.c) /\ q.r \in Regs
        BY <2>1, <2>2, PickGood
      <4>2. Holding(a, result) = {} /\ \A r \in Regs : ~a.dirty[r]
        BY <2>1, <2>2, NamedVars DEF Holding, Unmapped, Good, Coherent
      <4>3. \A r \in Regs : Unmapped(Evict(a, r))
        BY <2>2 DEF Evict, Flush, Unmap, Push, Unmapped, Good, Config
      <4>4. q.c = a \/ \E r \in Regs : q.c = Evict(a, r)
        <5> DEFINE clean == {r \in Regs : ~a.dirty[r] /\ r \notin a.lock}
        <5>1. CASE clean # {}
          <6>1. \E r \in First(clean) : q = [r |-> r, c |-> a]
            BY <4>2, <5>1 DEF Pick
          <6> QED
            BY <6>1
        <5>2. CASE clean = {}
          <6>1. \E r \in Regs \ a.lock : q = [r |-> r, c |-> Evict(a, r)]
            BY <4>2, <5>2 DEF Pick
          <6> QED
            BY <6>1
        <5> QED
          BY <5>1, <5>2
      <4> QED
        BY <2>2, <4>1, <4>3, <4>4
    <3> DEFINE k == Lock(q.c, q.r)
               g == Fill(k, result, q.r)
    <3>3. Good(k) /\ k.desc = q.c.desc
      BY <3>2 DEF Lock, Good, Config, Coherent
    <3> HIDE DEF k
    <3>4. Good(g) /\ g.desc = k.desc
      BY <2>1, <3>2, <3>3, FillGood
    <3> HIDE DEF g
    <3>5. Insert(g, result, q.r).desc = [g.desc EXCEPT ![q.r] = result]
      BY <3>4 DEF Insert, Good, Config
    <3>6. p.c = Insert(g, result, q.r)
      BY <3>1 DEF g, k
    <3>7. g.desc \in [Regs -> Vars \cup {NoVar}] /\ \A r \in Regs : g.desc[r] = NoVar
      BY <3>2, <3>3, <3>4 DEF Unmapped, Good, Config
    <3> QED
      BY <3>5, <3>6, <3>7
  <2>7. Good(d) /\ d.desc = p.c.desc
    <3>1. Good(d)
      BY <2>1, <2>5, DefineGood
    <3> QED
      BY <2>5, <3>1 DEF Define, Good, Config
  <2>8. flight = NoFlight => Settled(e)
    BY <2>1, <2>3, <2>4, OperandTruth, DefineTempTruth
  <2> HIDE DEF d
  <2>9. Good(e) /\ e.desc = d.desc
    BY <2>7 DEF Unlock, Good, Config, Coherent
  <2> HIDE DEF e
  <2>10. f.desc = e.desc
    BY <2>9 DEF Forget, Good, Config
  <2>11. flight = NoFlight => Settled(f)
    BY <1>4, <2>8, ForgetTruth
  <2>12. Become(f)
    BY <1>6 DEF e, d
  <2> HIDE DEF f
  <2>13. MemInv'
    BY <1>2, <2>11, <2>12, BecomeSettled
  <2>14. pending' = pending \cup {result}
    BY <1>6 DEF Consume
  <2>15. \A r \in Regs : regDescriptor'[r] \in {NoVar, result}
    BY <2>6, <2>7, <2>9, <2>10, <2>12 DEF Become
  <2> QED
    BY <2>1, <2>13, <2>14, <2>15
<1> HIDE DEF lost, Returns, Final1
<1> QED
  BY <1>1, <1>5, <1>6

-----------------------------------------------------------------------------
(* The theorems *)

LEMMA NextMem == Inv /\ MemInv /\ [Next]_vars => MemInv'
<1> SUFFICES ASSUME Inv, MemInv, [Next]_vars
             PROVE  MemInv'
  OBVIOUS
<1>1. CASE BeginFunc
  BY <1>1, BeginFuncMem
<1>2. CASE AssignVar \/ AssignTemp \/ Compute
  BY <1>2, StraightMem
<1>3. CASE CondBranch
  BY <1>3, CondBranchMem
<1>4. CASE GotoHead \/ \E l \in Labels : GOTO(l)
  BY <1>4, GotoMem
<1>5. CASE \E l \in Labels : Label(l)
  BY <1>5, LabelMem
<1>6. CASE ReturnStatement
  BY <1>6, ReturnMem
<1>7. CASE EndFunc
  BY <1>7, EndFuncMem
<1>8. CASE \E arg \in Rvalues \cup Arrays : arg \notin acc /\ Param(arg)
  BY <1>8, ParamMem
<1>9. CASE Call
  BY <1>9, CallMem
<1>10. CASE UNCHANGED vars
  BY <1>10 DEF MemInv, vars, armsVars, machVars, tacVars
<1> QED
  BY <1>1, <1>2, <1>3, <1>4, <1>5, <1>6, <1>7, <1>8, <1>9, <1>10 DEF Next

LEMMA AlwaysInv == Spec => [](Inv /\ MemInv)
  BY InitInv, InitMem, NextInv, NextMem, PTL DEF Spec

\* Between two instructions the memory word of every scalar is current, so a
\* jump, a call or the end of the function may forget every register: the
\* handlers write every assigned scalar through, and evictions, branches and
\* calls store only what a register really holds (spillReg, cleanRegFor*).
THEOREM MemoryCurrent == Spec => []MemoryIsCurrent
<1>1. Inv /\ MemInv => MemoryIsCurrent
  BY DEF MemInv, MemoryIsCurrent
<1> QED
  BY <1>1, AlwaysInv, PTL

\* After a call the descriptor maps no register but that of the result, however
\* many parameters the call has (cleanRegForCall, generateCall).
THEOREM CallForgets == Spec => CallForgetsRegisters
<1>1. Inv /\ MemInv /\ [Next]_vars =>
        [Call => \A r \in Regs : regDescriptor'[r] # NoVar
                                   => regDescriptor'[r] \in pending' \ pending]_vars
  BY CallMem
<1> QED
  BY <1>1, AlwaysInv, PTL DEF Spec, CallForgetsRegisters
=============================================================================
