------------------------------ MODULE Compiler ------------------------------
(***************************************************************************)
(* From the syntax tree of a bot to its .gob file: sema.py and codegen.py. *)
(* A node is a record with a kind k:                                       *)
(*   int v, bool v, var name, un op e, bin op left right, call name args;  *)
(*   set name e (a declaration or an assignment), expr e, while cond body, *)
(*   if cond then else (a sequence of at most one block),                  *)
(*   return value (a sequence of at most one expression).                  *)
(* A program is a sequence of functions [name, params, body].              *)
(*                                                                         *)
(* Code is bytes, with a mark where Python raises: CodegenError, which     *)
(* compile() answers, or an exception it lets pass.                        *)
(***************************************************************************)
EXTENDS Gob
LOCAL INSTANCE SequencesExt
LOCAL INSTANCE FiniteSetsExt
LOCAL INSTANCE TLC

Uncaught == -1
Refused == -2

\* The concatenation has TLC compute the elements once.
Map(Op2(_), s) == [i \in DOMAIN s |-> Op2(s[i])] \o << >>

-----------------------------------------------------------------------------
(* sema.py *)

Children(n) ==
  CASE n.k \in {"int", "bool", "var"} -> << >>
    [] n.k \in {"un", "set", "expr"}  -> <<n.e>>
    [] n.k = "bin"    -> <<n.left, n.right>>
    [] n.k = "call"   -> n.args
    [] n.k = "if"     -> <<n.cond>> \o n.then \o FlattenSeq(n.else)
    [] n.k = "while"  -> <<n.cond>> \o n.body
    [] n.k = "return" -> n.value

\* The nodes below, in the order sema visits them.
RECURSIVE Nodes(_)
Nodes(n) == FlattenSeq(Map(Nodes, Children(n))) \o <<n>>

BodyNodes(fn) == FlattenSeq(Map(Nodes, fn.body))

\* Slots are handed out to names in the order of their first use.
Slots(fn) ==
  LET Uses(n) == n.k \in {"var", "set"}
      used == fn.params \o Map(LAMBDA n : n.name, SelectSeq(BodyNodes(fn), Uses))
      First(i) == \A j \in 1 .. i - 1 : used[j] # used[i]
  IN  Map(LAMBDA i : used[i], SelectSeq([i \in DOMAIN used |-> i], First))

SlotOf(fn, name) == (CHOOSE i \in DOMAIN Slots(fn) : Slots(fn)[i] = name) - 1

IntrinsicOf ==
  [perceive |-> "PERCEIVE", look |-> "LOOK", move |-> "MOVE", turn_left |-> "TURN_LEFT",
   turn_right |-> "TURN_RIGHT", eat |-> "EAT", drink |-> "DRINK", reproduce |-> "REPRODUCE",
   my_energy |-> "MY_ENERGY", my_hydration |-> "MY_HYDRATION", my_trait |-> "MY_TRAIT"]

\* What turns the four words of PERCEIVE or LOOK into one.
Extraction ==
  [perceive_agents  |-> <<"PERCEIVE">>,
   perceive_water   |-> <<"PERCEIVE", "SWAP", "POP">>,
   perceive_food    |-> <<"PERCEIVE", "POP", "POP">>,
   perceive_terrain |-> <<"PERCEIVE", "POP", "POP", "POP">>,
   look_agents  |-> <<"LOOK">>,
   look_water   |-> <<"LOOK", "SWAP", "POP">>,
   look_food    |-> <<"LOOK", "POP", "POP">>,
   look_terrain |-> <<"LOOK", "POP", "POP", "POP">>]

Builtins == DOMAIN IntrinsicOf \union DOMAIN Extraction

Defined(prog, name) == \E i \in DOMAIN prog : prog[i].name = name
Function(prog, name) == prog[CHOOSE i \in DOMAIN prog : prog[i].name = name]

Arity(prog, name) ==
  CASE name = "my_trait" -> 1
    [] name \in Builtins \ {"my_trait"} -> 0
    [] OTHER -> Len(Function(prog, name).params)

SemaAccepts(prog) ==
  /\ \A i, j \in DOMAIN prog : prog[i].name = prog[j].name => i = j
  /\ \A i \in DOMAIN prog : \A n \in ToSet(BodyNodes(prog[i])) :
       n.k = "call" => /\ n.name \in Builtins \/ Defined(prog, n.name)
                       /\ Len(n.args) = Arity(prog, n.name)

-----------------------------------------------------------------------------
(* codegen.py *)

\* struct.pack("<h", ...) raises when n is too large.
Unpacked(n) == IF n \in -32768 .. 32767 THEN << >> ELSE <<Uncaught>>
I16Bytes(n) == U16Bytes(n) \o Unpacked(n)

Emit(ops) == Map(LAMBDA op : Opcode[op], ops)

BinaryOps ==
  ("+" :> <<"ADD">> @@ "-" :> <<"SUB">> @@ "*" :> <<"MUL">> @@ "/" :> <<"DIV">>
   @@ "%" :> <<"MOD">> @@ "==" :> <<"EQ">> @@ "<" :> <<"LT">> @@ ">" :> <<"GT">>
   @@ "&&" :> <<"AND">> @@ "||" :> <<"OR">> @@ "!=" :> <<"EQ", "NOT">>
   @@ "<=" :> <<"GT", "NOT">> @@ ">=" :> <<"LT", "NOT">>)

\* Mutant: a jump counts from behind its operand.
OffsetFromBehind(size) == size
JumpOver(size) == 2 + size

\* A jump over code that is there when its offset is patched.
Over(op, offset, code) == Emit(<<op>>) \o U16Bytes(offset) \o code \o Unpacked(offset)

\* _expr_pushes
Pushes(e) == ~(e.k = "call" /\ e.name \in {"move", "turn_left", "turn_right"})

\* Mutant: the last argument is stored first, to the first parameter.
StoredBackwards(n) == [i \in 1 .. n |-> i - 1]
ParameterOrder(n) == [i \in 1 .. n |-> n - i]

\* Arguments are stored to the callee's first slots, the last one first; of a
\* parameter named twice there is one slot.
StoreArguments(callee, n) ==
  FlattenSeq(Map(LAMBDA slot : IF slot < Len(Slots(callee)) THEN <<Opcode["STORE_LOCAL"], slot>>
                                                           ELSE <<Uncaught>>,
                 ParameterOrder(n)))

\* The code of node n of function fn, when addrs are the functions met so far.
RECURSIVE Code(_, _, _, _)
Code(n, fn, prog, addrs) ==
  LET C(m) == Code(m, fn, prog, addrs)
      Block(ms) == FlattenSeq(Map(C, ms))
  IN
  CASE n.k = "int"  -> Emit(<<"PUSH_INT">>) \o U32Bytes(n.v)
    [] n.k = "bool" -> Emit(<<"PUSH_BOOL">>) \o <<Bool(n.v)>>
    [] n.k = "var"  -> <<Opcode["LOAD_LOCAL"], SlotOf(fn, n.name)>>
    [] n.k = "un"   -> C(n.e) \o Emit(IF n.op = "-" THEN <<"NEG">> ELSE <<"NOT">>)
    [] n.k = "bin"  -> C(n.left) \o C(n.right) \o Emit(BinaryOps[n.op])
    [] n.k = "call" /\ n.name \in DOMAIN Extraction -> Emit(Extraction[n.name])
    [] n.k = "call" /\ n.name = "my_trait" ->
         IF n.args[1].k = "int" THEN <<Opcode["MY_TRAIT"], n.args[1].v % 256>> ELSE <<Refused>>
    [] n.k = "call" /\ n.name \in DOMAIN IntrinsicOf \ {"my_trait"} ->
         Emit(<<IntrinsicOf[n.name]>>)
    [] n.k = "call" /\ n.name \notin Builtins ->
         Block(n.args)
           \o StoreArguments(Function(prog, n.name), Len(n.args))
           \o IF n.name \in DOMAIN addrs THEN Emit(<<"CALL">>) \o U16Bytes(addrs[n.name])
                                         ELSE <<Refused>>
    [] n.k = "set"  -> C(n.e) \o <<Opcode["STORE_LOCAL"], SlotOf(fn, n.name)>>
    [] n.k = "expr" -> C(n.e) \o IF Pushes(n.e) THEN Emit(<<"POP">>) ELSE << >>
    [] n.k = "if" ->
         LET then == Block(n.then)
             else == Block(n.else[1])
             skip == JumpOver(Len(else))
         IN  C(n.cond)
               \o IF n.else = << >>
                  THEN Over("JMP_IF_FALSE", JumpOver(Len(then)), then)
                  ELSE Over("JMP_IF_FALSE", JumpOver(Len(then) + 3),
                            then \o Emit(<<"JMP">>) \o U16Bytes(skip))
                         \o else \o Unpacked(skip)
    [] n.k = "while" ->
         LET cond == C(n.cond)
             body == Block(n.body)
         IN  cond \o Over("JMP_IF_FALSE", JumpOver(Len(body) + 3),
                          body \o Emit(<<"JMP">>) \o I16Bytes(-(Len(cond) + Len(body) + 4)))
    [] n.k = "return" -> Block(n.value) \o Emit(<<"RETURN">>)

\* generate: CALL main, HALT, then the functions in order.
Prologue == <<Opcode["CALL"], 0, 0, Opcode["HALT"]>>

Generate(prog) ==
  FoldLeft(LAMBDA done, fn :
             LET addrs == done.addrs @@ (fn.name :> Len(done.code))
             IN  [addrs |-> addrs,
                  code |-> done.code
                             \o FlattenSeq(Map(LAMBDA n : Code(n, fn, prog, addrs), fn.body))
                             \o Emit(<<"RETURN">>)],
           [addrs |-> << >>, code |-> Prologue], prog)

LocalCount(prog) == Max({Len(Slots(prog[i])) : i \in DOMAIN prog} \union {0})

\* compile(): "ok" with the file, "error" with messages, or an exception.
Failed(outcome) == [outcome |-> outcome, blob |-> << >>]

Compile(prog) ==
  IF ~SemaAccepts(prog) \/ ~Defined(prog, "main") THEN Failed("error")
  ELSE LET generated == Generate(prog)
           main == I16Bytes(generated.addrs["main"])
           code == <<Opcode["CALL"]>> \o main \o SubSeq(generated.code, 4, Len(generated.code))
           marks == SelectSeq(generated.code \o main, LAMBDA b : b < 0)
       IN  CASE marks # << >> /\ Head(marks) = Uncaught -> Failed("uncaught")
             [] marks # << >> /\ Head(marks) = Refused  -> Failed("error")
             [] marks = << >> /\ (Len(code) > 65535 \/ LocalCount(prog) > 256) -> Failed("error")
             [] OTHER -> [outcome |-> "ok", blob |-> EmitGob(code, LocalCount(prog), << >>)]
=============================================================================
