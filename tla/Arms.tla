-------------------------------- MODULE Arms --------------------------------
(***************************************************************************)
(* The register allocator and ARM emitter of kisyshot, class Arms          *)
(* (src/src/ast/arms.cc), driven by ArmCodeGenerator::generateArmCode      *)
(* (src/src/compiler/armcode.cc).                                          *)
(*                                                                         *)
(* The generator walks the three-address code (TAC) of a function once, in *)
(* the order of the text, and keeps a picture of the machine its output    *)
(* will run on: regDescriptor says which variable each register holds and  *)
(* `stack` mirrors what the emitted pushes put on the run-time stack.  The *)
(* specification runs the emitted code along with the generator: reg, mem  *)
(* and stk are the machine, and a place holds either the tag of a variable *)
(* (the place has that variable's current value) or Junk.  One execution   *)
(* path is followed through the text; while it is jumping over code that   *)
(* is being emitted (flight # NoFlight) that code does not touch it.       *)
(***************************************************************************)
EXTENDS Integers, Sequences, FiniteSets

CONSTANTS
    NumRegs,     \* allocatable registers r0 .. r(NumRegs-1); 11 in the code
    NumArgRegs,  \* parameters passed in registers; 4 in the code
    Locals,      \* scalar VarType::LocalVar
    Globals,     \* scalar VarType::GlobalVar
    Arrays,      \* local and global arrays: their registers hold an address
    Consts,      \* VarType::ConstVar and VarType::StringVar
    Temps,       \* VarType::TempVar, reused once consumed
    Labels,      \* forward labels and loop heads, reused once placed
    Params,      \* the parameters of the function being compiled, in order
    MaxParams,   \* bound: parameters of a call in the TAC
    MaxStack,    \* bound: words pushed on the run-time stack
    LabelsMayForget,  \* TRUE: the TAC may place a label while a pending
                      \* temporary is on the stack
    NoVar, Junk, Stale, NoFlight, EndLabel, Gone

Regs    == 0 .. (NumRegs - 1)
Scalars == Locals \cup Globals
Vars    == Scalars \cup Arrays \cup Consts \cup Temps
Places  == Temps \cup {Stale}           \* what the mirror of the stack lists
Tags    == Vars \cup {Junk}             \* what a machine place holds
NotYet  == {NoVar}                      \* no branch to a label so far

ASSUME RegsAssumption ==
    /\ NumRegs \in Nat /\ NumArgRegs \in Nat
    /\ NumArgRegs >= 2 /\ NumRegs > NumArgRegs
    /\ MaxParams \in Nat /\ MaxStack \in Nat
    /\ LabelsMayForget \in BOOLEAN

ASSUME VarsAssumption ==
    /\ Locals \cap Globals = {} /\ Scalars \cap (Arrays \cup Consts) = {}
    /\ Arrays \cap Consts = {}
    /\ Temps \cap (Scalars \cup Arrays \cup Consts) = {}
    /\ NoVar \notin Vars /\ Junk \notin Vars /\ Stale \notin Vars
    /\ Params \in Seq(Locals)
    /\ \A l \in Labels : l \notin {NoFlight, EndLabel, Gone}
    /\ NoFlight \notin {EndLabel, Gone}

VARIABLES
    \* --- class Arms
    regDescriptor,  \* register -> variable it holds, NoVar when unmapped
    isDirty,        \* RegContents.isDirty
    mutexLock,      \* the registers whose RegContents.mutexLock is set
    stack,          \* mirror of the emitted pushes, oldest first
    \* --- class ArmCodeGenerator
    paramNum,       \* Param instructions since the last Call
    \* --- the machine that runs the emitted code
    reg,            \* register -> tag
    mem,            \* the scalars whose memory word is current
    stk,            \* run-time stack of tags since BeginFunc, oldest first
    out,            \* words stored below sp for the parameters past NumArgRegs
    flight,         \* NoFlight, or where the execution path is jumping to
    misread,        \* an instruction read a register without its operand
    returned,       \* the operand of the Return the path went through
    \* --- the TAC being translated
    inFunc,         \* between BeginFunc and EndFunc
    pending,        \* temporaries computed and not yet used
    acc,            \* those an index computation has redefined (t = t + u)
    sent,           \* operands of the Params since the last Call
    awaited,        \* label -> the pending temporaries where it was jumped to
    join,           \* temporary a comparison or && || ! materialises as 0/1
    jstep           \* progress through that idiom, 0 outside it

armsVars == <<regDescriptor, isDirty, mutexLock, stack>>
machVars == <<reg, mem, stk>>
tacVars  == <<inFunc, pending, acc, sent, awaited, join, jstep>>
vars == <<armsVars, paramNum, machVars, out, flight, misread, returned, tacVars>>

-----------------------------------------------------------------------------
(* One handler runs several helpers in turn, so the helpers map            *)
(* configurations to configurations: the allocator and the machine.        *)

Cur == [desc |-> regDescriptor, dirty |-> isDirty, lock |-> mutexLock,
        stack |-> stack, reg |-> reg, mem |-> mem, stk |-> stk]

Config == [desc : [Regs -> Vars \cup {NoVar}], dirty : [Regs -> BOOLEAN],
           lock : SUBSET Regs, stack : Seq(Places),
           reg : [Regs -> Tags], mem : SUBSET Scalars, stk : Seq(Tags)]

\* Code that is emitted while the path is jumping over it leaves the machine.
Become(c) ==
    /\ Len(c.stack) <= MaxStack /\ (flight = NoFlight => Len(c.stk) <= MaxStack)
    /\ regDescriptor' = c.desc /\ isDirty' = c.dirty
    /\ mutexLock' = c.lock /\ stack' = c.stack
    /\ IF flight = NoFlight
       THEN reg' = c.reg /\ mem' = c.mem /\ stk' = c.stk
       ELSE UNCHANGED machVars

First(S) == {x \in S : \A y \in S : x <= y}
Final(S) == {x \in S : \A y \in S : y <= x}
At(q, i) == IF i \in DOMAIN q THEN q[i] ELSE Junk
Front(q) == SubSeq(q, 1, Len(q) - 1)

\* The registers that hold v; findRegForVar answers the last of them.
Holding(c, v) == {r \in Regs : c.desc[r] = v}

\* Mutant: the register is mapped but left clean.
InsertClean(c, v, r) == [c EXCEPT !.desc[r] = v, !.dirty[r] = FALSE]

\* regDescriptorInsert, with its default argument dirty = true.
Insert(c, v, r) == [c EXCEPT !.desc[r] = v, !.dirty[r] = TRUE]
Lock(c, r) == [c EXCEPT !.lock = @ \cup {r}]
Unlock(c, R) == [c EXCEPT !.lock = @ \ R]

\* regDescriptorRemove of the registers R.  Nothing may count on what an
\* unmapped register holds, so its tag becomes Junk.
Unmap(c, R) ==
    [c EXCEPT !.desc  = [r \in Regs |-> IF r \in R THEN NoVar ELSE @[r]],
              !.dirty = [r \in Regs |-> IF r \in R THEN FALSE ELSE @[r]],
              !.reg   = [r \in Regs |-> IF r \in R THEN Junk ELSE @[r]]]

\* spillReg of the registers R in turn: scalars are stored, all are unmapped.
Flush(c, R) ==
    LET stored(v) == {r \in R : c.desc[r] = v}
        current == {v \in Scalars : IF stored(v) = {} THEN v \in c.mem
                                    ELSE \E r \in Final(stored(v)) : c.reg[r] = v}
    IN  Unmap([c EXCEPT !.mem = current], R)

\* The registers of q, in that order, are pushed and mirrored.
Push(c, q) == [c EXCEPT !.stack = @ \o [i \in DOMAIN q |-> c.desc[q[i]]],
                        !.stk   = @ \o [i \in DOMAIN q |-> c.reg[q[i]]]]

\* Mutants: every variable is pushed; a temporary is unmapped without a push.
EvictPushesAll(c, r) == Flush(IF c.desc[r] # NoVar THEN Push(c, <<r>>) ELSE c, {r})
EvictDrops(c, r) == Flush(c, {r})

\* selectRandomReg and the cleanReg after it, once rand() has chosen r: a
\* temporary is pushed, anything else is spilled.
Evict(c, r) == Flush(IF c.desc[r] \in Temps THEN Push(c, <<r>>) ELSE c, {r})

\* Mutant: selectRandomReg does not look at mutexLock.
PickIgnoringLocks(c, v) ==
    LET clean == {r \in Regs : ~c.dirty[r] /\ r \notin c.lock}
    IN  IF Holding(c, v) # {} THEN {[r |-> r, c |-> c] : r \in Final(Holding(c, v))}
        ELSE IF clean # {} THEN {[r |-> r, c |-> c] : r \in First(clean)}
        ELSE {[r |-> r, c |-> Evict(c, r)] : r \in Regs}

\* pickRegForVar: the register that has v, or else the first clean one
\* (findCleanReg), or else an unlocked one that rand() chooses to evict.
Pick(c, v) ==
    LET clean == {r \in Regs : ~c.dirty[r] /\ r \notin c.lock}
    IN  IF Holding(c, v) # {} THEN {[r |-> r, c |-> c] : r \in Final(Holding(c, v))}
        ELSE IF clean # {} THEN {[r |-> r, c |-> c] : r \in First(clean)}
        ELSE {[r |-> r, c |-> Evict(c, r)] : r \in Regs \ c.lock}

\* An instruction that loads v into r from a place that should hold it.
Loaded(c, v, r, ok) == [c EXCEPT !.reg[r] = IF ok THEN v ELSE Junk]

Mirrors(c, v) == {i \in DOMAIN c.stack : c.stack[i] = v}
\* What ldr finds at [sp, #(stack.size() - i - 1) * 4], i counted from 1.
Beneath(c, i) == At(c.stk, Len(c.stk) - (Len(c.stack) - i))
Pop(c, v, r) ==
    [Loaded(c, v, r, At(c.stk, Len(c.stk)) = v)
        EXCEPT !.stack = Front(@), !.stk = Front(@)]

\* Mutant: the offset of the ldr is one word short.
FillTempShort(c, v, r) ==
    IF Mirrors(c, v) = {} THEN c
    ELSE IF Len(c.stack) \in Mirrors(c, v) THEN Pop(c, v, r)
    ELSE Loaded(c, v, r, \E i \in Final(Mirrors(c, v)) : Beneath(c, i + 1) = v)

\* fillReg of a temporary in no register: found from the top of the mirror.
FillTemp(c, v, r) ==
    IF Mirrors(c, v) = {} THEN c
    ELSE IF Len(c.stack) \in Mirrors(c, v) THEN Pop(c, v, r)
    ELSE Loaded(c, v, r, \E i \in Final(Mirrors(c, v)) : Beneath(c, i) = v)

\* Mutant: a scalar that is in no register is not loaded.
FillNoLoad(c, v, r) ==
    CASE v \in Consts \cup Arrays -> Loaded(c, v, r, TRUE)
      [] v \in Scalars -> c
      [] v \in Temps -> IF Holding(c, v) = {} THEN FillTemp(c, v, r) ELSE c

\* fillReg: constants are always emitted again, a variable in another
\* register is copied from there, one in no register is loaded.
Fill(c, v, r) ==
    CASE v \in Consts -> Loaded(c, v, r, TRUE)
      [] v \notin Consts /\ Holding(c, v) # {} ->
            IF r \in Final(Holding(c, v)) THEN c
            ELSE Loaded(c, v, r, \E p \in Final(Holding(c, v)) : c.reg[p] = v)
      [] v \in Arrays /\ Holding(c, v) = {}  -> Loaded(c, v, r, TRUE)
      [] v \in Scalars /\ Holding(c, v) = {} -> Loaded(c, v, r, v \in c.mem)
      [] v \in Temps /\ Holding(c, v) = {}   -> FillTemp(c, v, r)

\* The sequence every handler runs for an operand:
\* pickRegForVar, mutexLock = true, fillReg, regDescriptorInsert.
Operand(c, v) ==
    {[r |-> p.r, c |-> Insert(Fill(Lock(p.c, p.r), v, p.r), v, p.r)] : p \in Pick(c, v)}

\* The instruction of the handler writes v's new value to r: what other
\* places hold is no longer the value of v.
Define(c, v, r) ==
    [c EXCEPT !.reg = [x \in Regs |-> IF x = r THEN v
                                      ELSE IF @[x] = v THEN Junk ELSE @[x]],
              !.mem = @ \ {v},
              !.stk = [i \in DOMAIN @ |-> IF @[i] = v THEN Junk ELSE @[i]]]

\* Mutant: only local variables are written through.
SpillLocalDst(c, v, r) == IF v \in Locals THEN Flush(c, {r}) ELSE c

\* "if (dst is LocalVar or GlobalVar) spillReg(dst, rd)" after a definition.
SpillDst(c, v, r) == IF v \in Scalars THEN Flush(c, {r}) ELSE c

\* "if (src is ConstVar) discardVarInReg(src, rs)" after a use.
DiscardConst(c, v, r) == IF v \in Consts THEN Unmap(c, {r}) ELSE c

\* generateDiscardVar of the temporaries T this instruction is the last to
\* mention.  Their copies on the stack are never looked up again: Stale.
Discard(c, T) ==
    LET dead == {r \in Regs : c.desc[r] \in T /\ r \in Final(Holding(c, c.desc[r]))}
    IN  [Unmap(c, dead) EXCEPT
            !.stack = [i \in DOMAIN @ |-> IF @[i] \in T THEN Stale ELSE @[i]]]

\* No instruction reads T any more: its values are of no interest.
Forget(c, T) ==
    [c EXCEPT !.reg = [r \in Regs |-> IF @[r] \in T THEN Junk ELSE @[r]],
              !.stk = [i \in DOMAIN @ |-> IF @[i] \in T THEN Junk ELSE @[i]]]
Retire(c, T) == Forget(Discard(c, T), T)

\* Mutant: local variables survive a branch.
CleanGlobalsForBranch(c) == Flush(c, {r \in Regs : c.dirty[r] /\ c.desc[r] \in Globals})

\* cleanRegForBranch and cleanRegForEndFunc: local and global variables only.
CleanForBranch(c) == Flush(c, {r \in Regs : c.dirty[r] /\ c.desc[r] \in Scalars \cup Arrays})

\* cleanRegForCall pushes the temporaries in the order of the registers (the
\* set below has one member) and spills the other variables.
PushOrders(c) ==
    LET held == {r \in Regs : c.dirty[r] /\ c.desc[r] \in Temps}
    IN  {q \in [1 .. Cardinality(held) -> held] :
            \A i, j \in DOMAIN q : i < j => q[i] < q[j]}
\* Mutants: local variables survive a call; temporaries are not pushed for it.
CleanForCallKeepingLocals(c) ==
    {Flush(Push(c, q), {r \in Regs : c.dirty[r] /\ c.desc[r] \notin Locals}) : q \in PushOrders(c)}
CleanForCallDropping(c) == {Flush(c, Regs)}
CleanForCall(c) ==
    {Flush(Push(c, q), {r \in Regs : c.dirty[r] /\ c.desc[r] # NoVar}) : q \in PushOrders(c)}

-----------------------------------------------------------------------------
(* The TAC, as the genCode methods of src/src/ast/syntax emit it: each      *)
(* temporary is defined once and used once (but an index computation        *)
(* redefines its own, and the 0/1 idiom defines one in two branches), the   *)
(* Params of a call are adjacent to it, and the temporaries pending where a *)
(* label is placed are those pending at every jump to it.                   *)

Awaited == UNION {awaited[l] : l \in {k \in Labels : awaited[k] # NotYet}}
Fresh   == Temps \ (pending \cup Awaited)
Usable  == pending \ Awaited
Rvalues == Scalars \cup Consts \cup Usable

Quiet == inFunc /\ sent = <<>> /\ jstep = 0

\* The instruction is the last use of the temporaries `used`, and the
\* definition of those in `defs`.
Consume(used, defs) ==
    /\ pending' = (pending \ used) \cup defs
    /\ acc' = (acc \ used) \cup (defs \cap used)

\* An operand register that does not hold its operand is read.
Reads(ok) == misread' = (misread \/ (flight = NoFlight /\ ~ok))

\* A branch to l: the path may take it.
Branch(l, P) ==
    /\ awaited[l] \in {NotYet, P}
    /\ awaited' = [awaited EXCEPT ![l] = P]
    /\ IF flight = NoFlight THEN flight' \in {NoFlight, l} ELSE flight' = flight

-----------------------------------------------------------------------------
(* The handlers.  Each action is one TAC instruction: the handler of class  *)
(* Arms, then the generateDiscardVar calls of the generator.                *)

\* generateLabel(funName) and generateBeginFunc: the parameters that arrive
\* in registers are stored to their slots.
BeginFunc ==
    /\ ~inFunc
    /\ LET inRegs == {i \in DOMAIN Params : i <= NumArgRegs}
           entry  == [r \in Regs |-> IF r + 1 \in inRegs THEN Params[r + 1] ELSE Junk]
       IN  /\ reg' = [r \in Regs |-> Junk]
           /\ mem' = {v \in Scalars : \A i \in inRegs : Params[i] = v => entry[i - 1] = v}
    /\ stack' = <<>> /\ stk' = <<>> /\ out' = <<>>
    /\ inFunc' = TRUE /\ flight' = NoFlight /\ returned' = NoVar
    /\ UNCHANGED <<regDescriptor, isDirty, mutexLock, paramNum, misread,
                   pending, acc, sent, awaited, join, jstep>>

\* generateAssign: the source first, unless it is a constant
\* (generateAssignConst), then the destination.
Assign(dst, src) ==
    \E p1 \in IF src \in Consts THEN {[r |-> 0, c |-> Cur]} ELSE Operand(Cur, src) :
    \E p2 \in Operand(p1.c, dst) :
        LET used == {src} \cap Temps
            c1 == Unlock(Define(p2.c, dst, p2.r), {p1.r, p2.r})
            c2 == SpillDst(c1, dst, p2.r)
        IN  /\ Become(Retire(c2, used))
            /\ Reads(src \in Consts \/ p2.c.reg[p1.r] = src)
            /\ Consume(used, {dst} \cap Temps)

AssignVar ==
    /\ Quiet
    /\ \E dst \in Scalars, src \in Rvalues : Assign(dst, src)
    /\ UNCHANGED <<paramNum, out, flight, returned, inFunc, sent, awaited, join, jstep>>

\* The 0/1 idiom of comparisons, && , || and !:
\*    t = 0; GOTO end; other: t = 1; end:     (or with 1 and 0 exchanged)
\* jstep 1: the first t = const is out, 2: the GOTO, 3: `other:', 4: the
\* second t = const.  A plain t = const leaves jstep at 0.
AssignTemp ==
    /\ inFunc /\ sent = <<>>
    /\ \E src \in Consts :
        \/ /\ jstep = 0
           /\ \E dst \in Fresh :
                /\ Assign(dst, src)
                /\ \/ UNCHANGED <<join, jstep>>
                   \/ /\ \E other, end \in Labels : awaited[other] = pending
                                                    /\ awaited[end] = NotYet
                      /\ join' = dst /\ jstep' = 1
        \/ /\ jstep = 3
           /\ Assign(join, src)
           /\ jstep' = 4 /\ UNCHANGED join
    /\ UNCHANGED <<paramNum, out, flight, returned, inFunc, sent, awaited>>

\* The three operands every three-address handler gathers, in its order.
Gather(x, y, z) ==
    UNION {UNION {{[r |-> <<p1.r, p2.r, p3.r>>, c |-> p3.c] :
            p3 \in Operand(p2.c, z)} : p2 \in Operand(p1.c, y)} : p1 \in Operand(Cur, x)}

\* generateBinaryOP.  dst is a new temporary, or src1 again where an index
\* computation accumulates an offset; src1 is an array for a partial index.
BinaryOP(dst, src1, src2) ==
    \E p \in Gather(src1, src2, dst) :
        LET used == {src1, src2} \cap Temps
            c1 == Unlock(Define(p.c, dst, p.r[3]), {p.r[i] : i \in 1 .. 3})
            c2 == DiscardConst(DiscardConst(c1, src1, p.r[1]), src2, p.r[2])
            c3 == SpillDst(c2, dst, p.r[3])
        IN  /\ Become(Retire(c3, used \ {dst}))
            /\ Reads(p.c.reg[p.r[1]] = src1 /\ p.c.reg[p.r[2]] = src2)
            /\ Consume(used, {dst})

\* generateLoad: dst = src[offset].
Load(dst, src, offset) ==
    \E p \in Gather(src, offset, dst) :
        LET used == {offset} \cap Temps
            c1 == Unlock(Define(p.c, dst, p.r[3]), {p.r[i] : i \in 1 .. 3})
            c2 == SpillDst(DiscardConst(c1, offset, p.r[2]), dst, p.r[3])
        IN  /\ Become(Retire(c2, used))
            /\ Reads(p.c.reg[p.r[1]] = src /\ p.c.reg[p.r[2]] = offset)
            /\ Consume(used, {dst})

\* generateStore: dst[offset] = src.  Array elements live in memory only.
Store(dst, offset, src) ==
    \E p \in Gather(src, offset, dst) :
        LET used == {src, offset} \cap Temps
            c1 == Unlock(p.c, {p.r[i] : i \in 1 .. 3})
        IN  /\ Become(Retire(DiscardConst(c1, offset, p.r[2]), used))
            /\ Reads(/\ p.c.reg[p.r[1]] = src /\ p.c.reg[p.r[2]] = offset
                     /\ p.c.reg[p.r[3]] = dst)
            /\ Consume(used, {})

Compute ==
    /\ Quiet
    /\ \/ \E src1 \in Rvalues \cup Arrays, src2 \in Rvalues :
            /\ src1 \in Temps => src1 # src2
            /\ \E dst \in Fresh \cup ({src1} \cap Temps) : BinaryOP(dst, src1, src2)
       \/ \E src \in Arrays, offset \in Rvalues, dst \in Fresh : Load(dst, src, offset)
       \/ \E dst \in Arrays, offset \in Rvalues, src \in Rvalues :
            (src \in Temps => src # offset) /\ Store(dst, offset, src)
    /\ UNCHANGED <<paramNum, out, flight, returned, inFunc, sent, awaited, join, jstep>>

\* generateIfZ and generateCMP: clean for the branch first, then gather.
IfZ(test, l) ==
    \E p \in Operand(CleanForBranch(Cur), test) :
        LET used == {test} \cap Temps
        IN  /\ Become(Retire(DiscardConst(Unlock(p.c, {p.r}), test, p.r), used))
            /\ Reads(p.c.reg[p.r] = test)
            /\ Consume(used, {}) /\ Branch(l, pending \ used)

CMP(src1, src2, l) ==
    \E p1 \in Operand(CleanForBranch(Cur), src1) : \E p2 \in Operand(p1.c, src2) :
        LET used == {src1, src2} \cap Temps
            c1 == DiscardConst(Unlock(p2.c, {p1.r, p2.r}), src1, p1.r)
        IN  /\ Become(Retire(DiscardConst(c1, src2, p2.r), used))
            /\ Reads(p2.c.reg[p1.r] = src1 /\ p2.c.reg[p2.r] = src2)
            /\ Consume(used, {}) /\ Branch(l, pending \ used)

CondBranch ==
    /\ Quiet
    /\ \E l \in Labels :
        \/ \E test \in Rvalues : IfZ(test, l)
        \/ \E src1 \in Rvalues, src2 \in Rvalues :
              (src1 \in Temps => src1 # src2) /\ CMP(src1, src2, l)
    /\ UNCHANGED <<paramNum, out, returned, inFunc, sent, join, jstep>>

\* generateGOTO, forward to a label that is placed later ...
GOTO(l) ==
    /\ inFunc /\ sent = <<>>
    /\ \/ jstep = 0 /\ awaited[l] \in {NotYet, pending} /\ UNCHANGED jstep
       \/ jstep = 1 /\ awaited[l] = NotYet /\ jstep' = 2
    /\ Become(CleanForBranch(Cur))
    /\ awaited' = [awaited EXCEPT ![l] = pending]
    /\ flight' = IF flight = NoFlight THEN l ELSE flight
    /\ UNCHANGED <<paramNum, out, misread, returned, inFunc, pending, acc, sent, join>>

\* ... or back to the head of a loop, a statement: the path leaves the text
\* that is still to be emitted.
GotoHead ==
    /\ Quiet /\ pending = {}
    /\ Become(CleanForBranch(Cur))
    /\ flight' = IF flight = NoFlight THEN Gone ELSE flight
    /\ UNCHANGED <<paramNum, out, misread, returned, tacVars>>

\* generateLabel of a `.L' label: the stores cleanRegForBranch emits precede
\* the label, so only the path that falls into it runs them.  What the mirror
\* no longer lists cannot be addressed: Junk.
PlaceLabel(l, P) ==
    /\ LabelsMayForget \/ \A i \in DOMAIN stack : stack[i] \notin P
    /\ Become([CleanForBranch(Cur) EXCEPT !.stack = <<>>, !.stk = [i \in DOMAIN @ |-> Junk]])
    /\ flight' = IF flight = l THEN NoFlight ELSE flight
    /\ awaited' = [awaited EXCEPT ![l] = NotYet]
    /\ pending' = P /\ acc' = acc \cap P
    /\ UNCHANGED <<paramNum, out, misread, returned, inFunc, sent>>

Label(l) ==
    /\ inFunc /\ sent = <<>>
    /\ \/ /\ jstep = 0 /\ awaited[l] = pending            \* the target of a branch
          /\ PlaceLabel(l, pending) /\ UNCHANGED <<join, jstep>>
       \/ /\ jstep = 0 /\ awaited[l] = NotYet /\ pending = {}   \* a loop head
          /\ PlaceLabel(l, {}) /\ UNCHANGED <<join, jstep>>
       \/ /\ jstep = 2 /\ awaited[l] = pending \ {join}
          /\ PlaceLabel(l, pending \ {join}) /\ jstep' = 3 /\ UNCHANGED join
       \/ /\ jstep = 4 /\ awaited[l] = pending
          /\ PlaceLabel(l, pending) /\ jstep' = 0 /\ join' = NoVar

\* generateReturn, then the generateGOTO to the end of the function that
\* ReturnStatement::genCode emits with it.
Return(result) ==
    \E p \in Pick(CleanForBranch(Cur), result) :
        LET used == {result} \cap Temps
            c1 == Unlock(Fill(Lock(p.c, p.r), result, p.r), {p.r})
            c2 == CleanForBranch(Discard(c1, used))
        IN  /\ Become([c2 EXCEPT !.reg[0] = c1.reg[p.r]])     \* mov r0, rs
            /\ Consume(used, {})
            /\ returned' = IF flight = NoFlight THEN result ELSE returned

ReturnStatement ==
    /\ Quiet
    /\ \/ \E result \in Rvalues : pending \subseteq {result} /\ Return(result)
       \/ /\ pending = {}
          /\ Become(CleanForBranch(CleanForBranch(Cur)))
          /\ UNCHANGED <<pending, acc, returned>>
    /\ flight' = IF flight = NoFlight THEN EndLabel ELSE flight
    /\ UNCHANGED <<paramNum, out, misread, inFunc, sent, awaited, join, jstep>>

\* generateLabel(endFuncLabel) and generateEndFunc.
EndFunc ==
    /\ Quiet /\ pending = {}
    /\ \A l \in Labels : awaited[l] = NotYet
    /\ Become([CleanForBranch(Cur) EXCEPT !.stack = <<>>,
                                          !.desc  = [r \in Regs |-> NoVar],
                                          !.dirty = [r \in Regs |-> FALSE]])
    /\ inFunc' = FALSE /\ flight' = NoFlight /\ returned' = NoVar
    /\ UNCHANGED <<paramNum, out, misread, pending, acc, sent, awaited, join, jstep>>

\* Mutant: pops when the temporary is at the bottom of the stack.
PassTempFromBottom(c, v, r) ==
    IF r < NumArgRegs /\ First(Mirrors(c, v)) = {1}
    THEN Pop(c, v, r)
    ELSE Loaded(c, v, r, \E i \in First(Mirrors(c, v)) : Beneath(c, i) = v)

\* generateParam of a temporary looks it up from the bottom of the mirror; a
\* register parameter that is on top is popped.
PassTemp(c, v, r) ==
    IF r < NumArgRegs /\ First(Mirrors(c, v)) = {Len(c.stack)}
    THEN Pop(c, v, r)
    ELSE Loaded(c, v, r, \E i \in First(Mirrors(c, v)) : Beneath(c, i) = v)

\* generateParam.  r(NumArgRegs) carries the further parameters to the words
\* below sp; `at' is the height of the stack where the word was stored.
Param(arg) ==
    /\ inFunc /\ jstep = 0 /\ Len(sent) < MaxParams
    /\ \E c \in IF paramNum = 0 THEN CleanForCall(Cur) ELSE {Cur} :
        LET r    == IF paramNum < NumArgRegs THEN paramNum ELSE NumArgRegs
            c1   == IF arg \in Temps THEN PassTemp(c, arg, r) ELSE Fill(c, arg, r)
            used == {arg} \cap Temps
        IN  /\ Become(Discard(c1, used))
            /\ Consume(used, {})
            /\ out' = IF flight # NoFlight \/ r < NumArgRegs THEN out
                      ELSE Append(out, [val |-> c1.reg[r], at |-> Len(c1.stk)])
    /\ paramNum' = paramNum + 1
    /\ sent' = Append(sent, arg)
    /\ UNCHANGED <<flight, misread, returned, inFunc, awaited, join, jstep>>

\* generateCall.  The callee keeps no register; its result is in r0, that of
\* __aeabi_idivmod in r1.
Call ==
    /\ inFunc /\ jstep = 0
    /\ paramNum' = 0 /\ sent' = <<>> /\ out' = <<>>
    /\ \E c \in IF sent = <<>> THEN CleanForCall(Cur) ELSE {Cur} :
        LET gone == {sent[i] : i \in DOMAIN sent} \cap Temps
            Returns(v, r) == [c EXCEPT !.reg = [x \in Regs |-> IF x = r THEN v ELSE Junk]]
        IN  \/ /\ Become(Forget([c EXCEPT !.reg = [r \in Regs |-> Junk]], gone))
               /\ UNCHANGED <<pending, acc, misread>>
            \/ \E rr \in IF Len(sent) = 2 THEN {0, 1} ELSE {0}, result \in Fresh \ gone :
               \E p \in Operand(Returns(result, rr), result) :
                  /\ Become(Forget(Unlock(Define(p.c, result, p.r), {p.r}), gone))
                  /\ Reads(p.c.reg[rr] = result)
                  /\ Consume({}, {result})
    /\ UNCHANGED <<flight, returned, inFunc, awaited, join, jstep>>

-----------------------------------------------------------------------------
Init ==
    /\ regDescriptor = [r \in Regs |-> NoVar] /\ isDirty = [r \in Regs |-> FALSE]
    /\ mutexLock = {} /\ stack = <<>> /\ paramNum = 0
    /\ reg = [r \in Regs |-> Junk] /\ mem = Scalars /\ stk = <<>> /\ out = <<>>
    /\ flight = NoFlight /\ misread = FALSE /\ returned = NoVar
    /\ inFunc = FALSE /\ pending = {} /\ acc = {} /\ sent = <<>>
    /\ awaited = [l \in Labels |-> NotYet] /\ join = NoVar /\ jstep = 0

Next ==
    \/ BeginFunc \/ AssignVar \/ AssignTemp \/ Compute \/ CondBranch
    \/ (\E l \in Labels : GOTO(l) \/ Label(l)) \/ GotoHead
    \/ ReturnStatement \/ EndFunc
    \/ (\E arg \in Rvalues \cup Arrays : arg \notin acc /\ Param(arg)) \/ Call

Spec == Init /\ [][Next]_vars
-----------------------------------------------------------------------------
(* Properties *)

\* Every variable has its type.
TypeOK ==
    /\ regDescriptor \in [Regs -> Vars \cup {NoVar}] /\ isDirty \in [Regs -> BOOLEAN]
    /\ mutexLock \subseteq Regs /\ stack \in Seq(Places) /\ paramNum \in 0 .. MaxParams
    /\ reg \in [Regs -> Tags] /\ mem \subseteq Scalars /\ stk \in Seq(Tags)
    /\ out \in Seq([val : Tags, at : Nat])
    /\ flight \in Labels \cup {NoFlight, EndLabel, Gone}
    /\ misread \in BOOLEAN /\ returned \in Vars \cup {NoVar}
    /\ inFunc \in BOOLEAN /\ pending \subseteq Temps /\ acc \subseteq Temps
    /\ sent \in Seq(Vars) /\ awaited \in [Labels -> (SUBSET Temps) \cup {NotYet}]
    /\ join \in Temps \cup {NoVar} /\ jstep \in 0 .. 4

\* Between two instructions no register is locked, a register is dirty exactly
\* when the descriptor maps it, and no variable is in two registers: an
\* update of one copy would leave the other one stale (regDescriptorInsert
\* and the handlers' unlock lines).
OneRegisterPerVariable ==
    /\ mutexLock = {}
    /\ \A r \in Regs : isDirty[r] <=> regDescriptor[r] # NoVar
    /\ \A r, s \in Regs :
        regDescriptor[r] = regDescriptor[s] /\ regDescriptor[r] # NoVar => r = s

\* What the descriptor says of a variable, an array or an awaited temporary is
\* true of the machine whenever the execution path runs the code being emitted.
\* (Constants are excepted: fillReg emits them again.)
DescriptorTruth ==
    flight = NoFlight =>
        \A r \in Regs : regDescriptor[r] \in Scalars \cup Arrays \cup pending
                            => reg[r] = regDescriptor[r]

\* The memory word of every scalar is current between two instructions, so a
\* jump, a call or the end of the function may forget every register.
MemoryIsCurrent == inFunc => mem = Scalars

\* The value of a temporary that is still needed is in the register that the
\* descriptor names, or on the stack where the mirror says.
PendingFindable ==
    flight = NoFlight =>
        \A t \in pending :
            \/ \E r \in Regs : regDescriptor[r] = t /\ reg[r] = t
            \/ /\ Mirrors(Cur, t) # {}
               /\ \A i \in Final(Mirrors(Cur, t)) : Beneath(Cur, i) = t

\* Every emitted instruction reads its operands from registers that hold them.
OperandsCorrect == ~misread

\* While the parameters of a call are passed, the first ones stay in their
\* registers and the others in the words their distance from sp names: sp
\* does not move once a word has been stored below it.
ArgumentsInPlace ==
    flight = NoFlight =>
        \A i \in DOMAIN sent :
            IF i <= NumArgRegs THEN reg[i - 1] = sent[i]
            ELSE out[i - NumArgRegs] = [val |-> sent[i], at |-> Len(stk)]

\* A path that leaves through `return e' arrives at the end of the function
\* with the value of e in r0.
ResultInR0 == flight = EndLabel /\ returned # NoVar => reg[0] = returned

\* After a call the descriptor maps no register but that of the result: the
\* callee has used them all.
CallForgetsRegisters ==
    [][Call => \A r \in Regs : regDescriptor'[r] # NoVar
                                => regDescriptor'[r] \in pending' \ pending]_vars

\* The code after a statement label is emitted knowing nothing but constants, so
\* it is right for every path that reaches the label, backward jumps included.
LabelForgetsVariables ==
    [][\A l \in Labels : Label(l) /\ jstep = 0 /\ pending = {} =>
            /\ stack' = <<>>
            /\ \A r \in Regs : regDescriptor'[r] \in Consts \cup {NoVar}]_vars
=============================================================================
