--------------------------------- MODULE Vm ---------------------------------
(***************************************************************************)
(* The stack machine that runs a bot (engine/src/vm.cpp) and the brain     *)
(* that runs it once a tick (engine/src/brain_bytecode.cpp).               *)
(*                                                                         *)
(* A program is a sequence of bytes; it is not verified when it is loaded, *)
(* so any bytes may be executed, and a jump may land on an operand.  The   *)
(* errors are told apart by no caller: they are one status.  What an       *)
(* instruction that fails has read and popped is left out, since the next  *)
(* tick resets it.                                                         *)
(***************************************************************************)
EXTENDS Integers, Sequences

CONSTANTS
  Programs,      \* [code : Seq(Byte), locals : Nat, constants : Seq(Constant)]
  HalfWord,      \* 2^31 in the code: words are signed
  MaxStack,      \* VM_MAX_STACK
  MaxLocals,     \* VM_MAX_LOCALS
  MaxCallDepth,  \* VM_MAX_CALL_DEPTH
  IntrinsicCost, \* INTRINSIC_COST
  Budget         \* instruction_budget

Byte == 0 .. 255
Word == -HalfWord .. HalfWord - 1

\* An integer is <<n>>, a string << >>.
Constant == {<<n>> : n \in Word} \union {<< >>}

ASSUME VmAssumption ==
  /\ HalfWord \in Nat /\ HalfWord > 1
  /\ MaxStack \in Nat /\ MaxCallDepth \in Nat /\ MaxLocals \in Nat
  /\ IntrinsicCost \in Nat \ {0}
  /\ Budget \in Nat
  /\ \A p \in Programs : /\ p.code \in Seq(Byte) /\ p.locals \in Nat
                         /\ p.constants \in Seq(Constant)

VARIABLES
  program,
  loaded,     \* BytecodeBrain::loaded_
  phase,      \* "idle" between ticks, "running" in Vm::run
  pc, stack, calls, locals, halted,
  remaining,  \* of the tick's budget
  acted,      \* intrinsics executed in this tick
  status      \* what the last run returned

machine == <<pc, stack, calls, halted>>
vars == <<program, loaded, phase, machine, locals, remaining, acted, status>>

-----------------------------------------------------------------------------
(* Instructions *)

Opcode ==
  [HALT |-> 0, PUSH_INT |-> 1, PUSH_BOOL |-> 2, POP |-> 3, DUP |-> 4, SWAP |-> 5,
   ADD |-> 16, SUB |-> 17, MUL |-> 18, DIV |-> 19, MOD |-> 20, NEG |-> 21,
   EQ |-> 32, LT |-> 33, GT |-> 34, AND |-> 35, OR |-> 36, NOT |-> 37,
   JMP |-> 48, JMP_IF_FALSE |-> 49, CALL |-> 50, RETURN |-> 51,
   LOAD_LOCAL |-> 64, STORE_LOCAL |-> 65, LOAD_CONST |-> 80,
   PERCEIVE |-> 128, LOOK |-> 129, MOVE |-> 130, TURN_LEFT |-> 131, TURN_RIGHT |-> 132,
   EAT |-> 133, DRINK |-> 134, REPRODUCE |-> 135, MY_ENERGY |-> 136,
   MY_HYDRATION |-> 137, MY_TRAIT |-> 138, NOP |-> 255]

Decode ==
  [b \in Byte |-> IF \E op \in DOMAIN Opcode : Opcode[op] = b
                  THEN CHOOSE op \in DOMAIN Opcode : Opcode[op] = b
                  ELSE "invalid"]

Binary == {"ADD", "SUB", "MUL", "DIV", "MOD", "EQ", "LT", "GT", "AND", "OR"}
Unary == {"NEG", "NOT"}
Loads == {"PUSH_INT", "PUSH_BOOL", "LOAD_LOCAL", "LOAD_CONST"}
Intrinsics == {"PERCEIVE", "LOOK", "MOVE", "TURN_LEFT", "TURN_RIGHT", "EAT", "DRINK",
               "REPRODUCE", "MY_ENERGY", "MY_HYDRATION", "MY_TRAIT"}

OperandSize(op) ==
  CASE op = "PUSH_INT" -> 4
    [] op \in {"JMP", "JMP_IF_FALSE", "CALL", "LOAD_CONST"} -> 2
    [] op \in {"PUSH_BOOL", "LOAD_LOCAL", "STORE_LOCAL", "MY_TRAIT"} -> 1
    [] OTHER -> 0

Pops(op) ==
  CASE op \in Binary \union {"SWAP"} -> 2
    [] op \in Unary \union {"POP", "DUP", "JMP_IF_FALSE", "STORE_LOCAL"} -> 1
    [] OTHER -> 0

\* The handler pushes without asking can_push.
Observations(op) ==
  CASE op \in {"PERCEIVE", "LOOK"} -> 4
    [] op \in {"MOVE", "TURN_LEFT", "TURN_RIGHT"} -> 0
    [] OTHER -> 1

-----------------------------------------------------------------------------
(* Words *)

Wrap(n) == ((n + HalfWord) % (2 * HalfWord)) - HalfWord
Bool(p) == IF p THEN 1 ELSE 0

\* Division truncates towards zero.
Magnitude(n) == IF n < 0 THEN -n ELSE n
Quotient(a, b) ==
  LET q == Magnitude(a) \div Magnitude(b) IN IF (a < 0) = (b < 0) THEN q ELSE -q

Result(op, a, b) ==
  CASE op = "ADD" -> Wrap(a + b)
    [] op = "SUB" -> Wrap(a - b)
    [] op = "MUL" -> Wrap(a * b)
    [] op = "DIV" -> Quotient(a, b)
    [] op = "MOD" -> a - b * Quotient(a, b)
    [] op = "EQ"  -> Bool(a = b)
    [] op = "LT"  -> Bool(a < b)
    [] op = "GT"  -> Bool(a > b)
    [] op = "AND" -> Bool(a # 0 /\ b # 0)
    [] op = "OR"  -> Bool(a # 0 \/ b # 0)

-----------------------------------------------------------------------------
(* The instruction at pc *)

Size == Len(program.code)
AtEnd == pc >= Size
Op == IF AtEnd THEN "HALT" ELSE Decode[program.code[pc + 1]]

U8(k) == program.code[pc + 1 + k]
U16 == U8(1) + 256 * U8(2)
I16 == IF U16 < 32768 THEN U16 ELSE U16 - 65536
I32 == Wrap(U8(1) + 256 * Wrap(U8(2) + 256 * Wrap(U8(3) + 256 * U8(4))))

\* A jump's offset counts from its operand.
Target == pc + 1 + I16
After == pc + 1 + OperandSize(Op)

Top == stack[Len(stack)]
Below == stack[Len(stack) - 1]
Drop(n) == SubSeq(stack, 1, Len(stack) - n)
Local(i) == IF i \in DOMAIN locals THEN locals[i] ELSE 0

\* Mutant: only jumps are not charged.
CostOfWork(op) ==
  CASE op \in Intrinsics -> IntrinsicCost
    [] op \in {"JMP", "JMP_IF_FALSE"} -> 0
    [] OTHER -> 1
\* Mutant: intrinsics cost what the others do.
FlatCost(op) == 1
\* All of 0x80 to 0x8F costs what intrinsics do, also the five that are none.
Reserved(op) == op = "invalid" /\ program.code[pc + 1] \div 16 = 8
Cost(op) == IF op \in Intrinsics \/ Reserved(op) THEN IntrinsicCost ELSE 1

\* Mutant: one frame too many.
OneTooDeep == Len(calls) > MaxCallDepth
TooDeep == Len(calls) >= MaxCallDepth

\* The checks an instruction makes before it has its effect.
Allowed ==
  /\ Op # "invalid"
  /\ After <= Size \/ AtEnd
  /\ Pops(Op) <= Len(stack)
  /\ Op \in Loads \union {"DUP"} => Len(stack) < MaxStack
  /\ Op \in {"DIV", "MOD"} => Top # 0
  /\ Op = "JMP" => Target \in 0 .. Size
  /\ Op = "JMP_IF_FALSE" /\ Top = 0 => Target \in 0 .. Size
  /\ Op = "CALL" => ~TooDeep /\ U16 <= Size
  /\ Op \in {"LOAD_LOCAL", "STORE_LOCAL"} => U8(1) < program.locals
  /\ Op = "LOAD_CONST" => /\ U16 < Len(program.constants)
                         /\ program.constants[U16 + 1] # << >>

\* The least word divided by -1 has no quotient: the division traps.
Traps ==
  Op \in {"DIV", "MOD"} /\ Top = -1 /\ Below = -HalfWord

-----------------------------------------------------------------------------
(* BytecodeBrain::tick *)

Init ==
  /\ program \in Programs
  /\ loaded = FALSE
  /\ phase = "idle"
  /\ pc = 0
  /\ stack = << >>
  /\ calls = << >>
  /\ halted = FALSE
  /\ locals = << >>
  /\ remaining = 0
  /\ acted = 0
  /\ status = "ok"

(* The first time the program is loaded, which rejects it if it has too    *)
(* many locals; then the machine is reset.                                 *)
Reset ==
  /\ pc' = 0
  /\ stack' = << >>
  /\ calls' = << >>
  /\ halted' = (~loaded /\ program.locals > MaxLocals)
  /\ loaded' = TRUE

BeginTick ==
  /\ phase = "idle"
  /\ status \notin {"overrun", "trapped"}
  /\ Reset
  /\ phase' = "running"
  /\ remaining' = Budget
  /\ acted' = 0
  /\ UNCHANGED <<program, locals, status>>

\* The agent has been removed in this tick.
BeginTickRemoved ==
  /\ phase = "idle"
  /\ status \notin {"overrun", "trapped"}
  /\ Reset
  /\ UNCHANGED <<program, phase, locals, remaining, acted, status>>

-----------------------------------------------------------------------------
(* Vm::run and Vm::step *)

EndTick(s) ==
  /\ phase' = "idle"
  /\ status' = s
  /\ UNCHANGED <<program, loaded, machine, locals, remaining, acted>>

\* The budget pays for the next instruction, which is peeked at.
Affordable == phase = "running" /\ remaining > 0 /\ remaining >= Cost(Op)

Exhaust ==
  /\ phase = "running"
  /\ ~Affordable
  /\ EndTick("exhausted")

Halt ==
  /\ Affordable
  /\ halted \/ Op = "HALT" \/ (Op = "RETURN" /\ calls = << >>)
  /\ EndTick("halted")

Fail ==
  /\ Affordable
  /\ ~halted /\ ~Allowed
  /\ EndTick("error")

\* From here on the behaviour is not defined: the model stops.
Trap ==
  /\ Affordable
  /\ ~halted /\ Allowed /\ Traps
  /\ EndTick("trapped")

Step(ops) ==
  /\ Affordable
  /\ ~halted /\ Op \in ops /\ Allowed
  /\ remaining' = remaining - Cost(Op)
  /\ UNCHANGED <<program, loaded, phase, halted, status>>

Compute ==
  /\ Step(Binary \union Unary \union {"NOP", "POP", "DUP", "SWAP"})
  /\ ~Traps
  /\ stack' = CASE Op \in Binary -> Append(Drop(2), Result(Op, Below, Top))
                [] Op = "NEG"   -> Append(Drop(1), Wrap(-Top))
                [] Op = "NOT"   -> Append(Drop(1), Bool(Top = 0))
                [] Op = "POP"   -> Drop(1)
                [] Op = "DUP"   -> Append(stack, Top)
                [] Op = "SWAP"  -> Drop(2) \o <<Top, Below>>
                [] Op = "NOP"   -> stack
  /\ pc' = After
  /\ UNCHANGED <<calls, locals, acted>>

Load ==
  /\ Step(Loads)
  /\ stack' = Append(stack, CASE Op = "PUSH_INT"   -> I32
                              [] Op = "PUSH_BOOL"  -> Bool(U8(1) # 0)
                              [] Op = "LOAD_LOCAL" -> Local(U8(1))
                              [] Op = "LOAD_CONST" -> program.constants[U16 + 1][1])
  /\ pc' = After
  /\ UNCHANGED <<calls, locals, acted>>

Store ==
  /\ Step({"STORE_LOCAL"})
  /\ locals' = [i \in DOMAIN locals \union {U8(1)} |-> IF i = U8(1) THEN Top ELSE locals[i]]
  /\ stack' = Drop(1)
  /\ pc' = After
  /\ UNCHANGED <<calls, acted>>

Jump ==
  /\ Step({"JMP"})
  /\ pc' = Target
  /\ UNCHANGED <<stack, calls, locals, acted>>

JumpIfFalse ==
  /\ Step({"JMP_IF_FALSE"})
  /\ pc' = IF Top = 0 THEN Target ELSE After
  /\ stack' = Drop(1)
  /\ UNCHANGED <<calls, locals, acted>>

Call ==
  /\ Step({"CALL"})
  /\ calls' = Append(calls, After)
  /\ pc' = U16
  /\ UNCHANGED <<stack, locals, acted>>

Return ==
  /\ Step({"RETURN"})
  /\ calls # << >>
  /\ pc' = calls[Len(calls)]
  /\ calls' = SubSeq(calls, 1, Len(calls) - 1)
  /\ UNCHANGED <<stack, locals, acted>>

(* An intrinsic acts on the world and pushes what it observes: any words.  *)
Intrinsic ==
  /\ Step(Intrinsics)
  /\ Len(stack) + Observations(Op) <= MaxStack
  /\ stack' \in Seq(Word) /\ Len(stack') = Len(stack) + Observations(Op)
  /\ SubSeq(stack', 1, Len(stack)) = stack
  /\ pc' = After
  /\ acted' = acted + 1
  /\ UNCHANGED <<calls, locals>>

\* The array is overrun: from here on the behaviour is not defined.
Overrun ==
  /\ Affordable
  /\ ~halted /\ Op \in Intrinsics /\ Allowed
  /\ Len(stack) + Observations(Op) > MaxStack
  /\ EndTick("overrun")

Run ==
  \/ Exhaust \/ Halt \/ Fail \/ Trap \/ Overrun
  \/ Compute \/ Load \/ Store \/ Jump \/ JumpIfFalse \/ Call \/ Return \/ Intrinsic

Next == BeginTick \/ BeginTickRemoved \/ Run

Spec == Init /\ [][Next]_vars

\* Vm::run is a loop of the engine's only thread.
FairSpec == Spec /\ WF_vars(Run)
-----------------------------------------------------------------------------
ControlOK ==
  /\ program \in Programs
  /\ loaded \in BOOLEAN /\ halted \in BOOLEAN
  /\ phase \in {"idle", "running"}
  /\ pc \in 0 .. Size
  /\ Len(stack) \in 0 .. MaxStack
  /\ calls \in Seq(0 .. Size) /\ Len(calls) <= MaxCallDepth
  /\ remaining \in 0 .. Budget
  /\ acted \in Nat
  /\ status \in {"ok", "exhausted", "halted", "error", "trapped", "overrun"}

DataOK ==
  /\ stack \in Seq(Word)
  /\ DOMAIN locals \subseteq {i \in Byte : i < program.locals}
  /\ \A i \in DOMAIN locals : locals[i] \in Word

TypeOK == ControlOK /\ DataOK

-----------------------------------------------------------------------------
(* Properties *)

(* Whatever a program does, it acts on the world no more often in a tick   *)
(* than the budget pays for.                                               *)
BudgetBoundsActions == acted * IntrinsicCost + remaining <= Budget

(* A return resumes behind the call it returns from, also when jumps go    *)
(* into operands.                                                          *)
ReturnsFollowCalls ==
  \A i \in DOMAIN calls : /\ calls[i] >= 3
                          /\ program.code[calls[i] - 2] = Opcode["CALL"]

(* Every tick of every program ends: the budget stops endless loops.       *)
TickEnds == phase = "running" ~> phase = "idle"

(* "Maximum stack depth: 256 entries. Exceeding this is a runtime error."  *)
StackDepth == status # "overrun"

(* "Arithmetic uses wrapping semantics."                                   *)
ArithmeticWraps == status # "trapped"

(* "Reject bytecode that claims more locals than the fixed-size array":    *)
(* a rejected program executes nothing.                                    *)
RejectedNeverRuns == program.locals > MaxLocals => pc = 0

(* "MY_ENERGY, MY_HYDRATION, MY_TRAIT: cost 1 instruction."                *)
ReadsCostOne ==
  [][Intrinsic /\ Op \in {"MY_ENERGY", "MY_HYDRATION", "MY_TRAIT"}
       => remaining' = remaining - 1]_vars
=============================================================================
