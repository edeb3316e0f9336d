----------------------------- MODULE GolScript -----------------------------
(***************************************************************************)
(* What a bot means: the language of bytecode/spec/language.md, read off   *)
(* its source, and the bots for which compiler and machine agree with it.  *)
(* A state s has the values of main's variables (env), the agent (body)    *)
(* and whether main has returned (done).                                   *)
(***************************************************************************)
EXTENDS AgentVm, Compiler
LOCAL INSTANCE SequencesExt

Value(v, s) == [v |-> v, s |-> s]

\* What an operator of the language gives.
Apply(op, a, b) ==
  CASE op = "!=" -> Bool(a # b)
    [] op = "<=" -> Bool(a <= b)
    [] op = ">=" -> Bool(a >= b)
    [] op = "+"  -> Wrap(a + b)
    [] op = "-"  -> Wrap(a - b)
    [] op = "*"  -> Wrap(a * b)
    [] op = "/"  -> IF b = 0 THEN 0 ELSE Quotient(a, b)
    [] op = "<"  -> Bool(a < b)
    [] op = ">"  -> Bool(a > b)
    [] op = "==" -> Bool(a = b)
    [] op = "&&" -> Bool(a # 0 /\ b # 0)
    [] op = "||" -> Bool(a # 0 \/ b # 0)

Deed(name, b) ==
  CASE name = "move"       -> Moved(b)
    [] name = "turn_left"  -> [b EXCEPT !.facing = TurnLeft[@]]
    [] name = "turn_right" -> [b EXCEPT !.facing = TurnRight[@]]
    [] name = "eat"        -> Ate(b)
    [] name = "drink"      -> Drank(b)
    [] OTHER               -> b

Answer(n, b) ==
  CASE n.name = "my_energy"    -> b.energy
    [] n.name = "my_hydration" -> b.hydration
    [] n.name = "my_trait"     -> TraitValue(n.args[1].v)
    [] n.name = "eat"          -> FoodGain(b)
    [] n.name = "drink"        -> WaterGain(b)
    [] OTHER                   -> 0

RECURSIVE Eval(_, _, _), EvalAll(_, _, _)
Eval(e, prog, s) ==
  CASE e.k = "int"  -> Value(e.v, s)
    [] e.k = "bool" -> Value(Bool(e.v), s)
    [] e.k = "var"  -> Value(s.env[e.name], s)
    [] e.k = "un"   -> LET r == Eval(e.e, prog, s)
                       IN  Value(IF e.op = "-" THEN Wrap(-r.v) ELSE Bool(r.v = 0), r.s)
    [] e.k = "bin"  -> LET l == Eval(e.left, prog, s)
                           r == Eval(e.right, prog, l.s)
                       IN  Value(Apply(e.op, l.v, r.v), r.s)
    [] e.k = "call" /\ e.name \in Builtins ->
         Value(Answer(e, s.body), [s EXCEPT !.body = Deed(e.name, @)])
    [] e.k = "call" /\ e.name \notin Builtins ->
         LET fn == Function(prog, e.name)
             given == EvalAll(e.args, prog, s)
             inside == [given.s EXCEPT !.env = [name \in ToSet(fn.params) |->
                                                  given.v[1 + SlotOf(fn, name)]]]
             r == Eval(fn.body[1].value[1], prog, inside)
         IN  Value(r.v, [r.s EXCEPT !.env = given.s.env])

\* Arguments are evaluated from left to right.
EvalAll(es, prog, s) ==
  IF es = << >> THEN Value(<< >>, s)
  ELSE LET first == Eval(Head(es), prog, s)
           rest == EvalAll(Tail(es), prog, first.s)
       IN  Value(<<first.v>> \o rest.v, rest.s)

\* Loops are followed for as many rounds as the budget could pay for.
RECURSIVE Exec(_, _, _, _)
Exec(stmts, prog, s, rounds) ==
  IF stmts = << >> \/ s.done \/ rounds = 0 THEN s
  ELSE
  LET n == Head(stmts)
      Rest(t) == Exec(Tail(stmts), prog, t, rounds)
  IN
  CASE n.k = "set"    -> LET r == Eval(n.e, prog, s)
                         IN  Rest([r.s EXCEPT !.env[n.name] = r.v])
    [] n.k = "expr"   -> Rest(Eval(n.e, prog, s).s)
    [] n.k = "return" -> [s EXCEPT !.done = TRUE]
    [] n.k = "if" ->
         LET r == Eval(n.cond, prog, s)
         IN  Rest(Exec(IF r.v # 0 THEN n.then ELSE IF n.else = << >> THEN << >> ELSE n.else[1],
                       prog, r.s, rounds))
    [] n.k = "while" ->
         LET r == Eval(n.cond, prog, s)
         IN  IF r.v = 0 THEN Rest(r.s)
             ELSE Exec(stmts, prog, Exec(n.body, prog, r.s, rounds), rounds - 1)

\* A tick of a bot whose variables and agent were as `at` tells.
Meaning(prog, at) ==
  LET main == Function(prog, "main")
      Held(i) == IF i \in DOMAIN at.locals THEN at.locals[i] ELSE 0
      env == [name \in {Slots(main)[i] : i \in DOMAIN Slots(main)} |-> Held(SlotOf(main, name))]
  IN  Exec(main.body, prog, [env |-> env, body |-> at.body, done |-> FALSE], Budget)

-----------------------------------------------------------------------------
(* The bots about which something is claimed: every expression leaves one  *)
(* word, a function is an expression of its parameters that calls no other *)
(* and shares no slot with variables of main, and nothing is up to chance. *)
OneWord == {"my_energy", "my_hydration", "my_trait", "eat", "drink"}
NoWord == {"move", "turn_left", "turn_right"}

IsPureFunction(prog, fn) ==
  /\ Slots(fn) = fn.params
  /\ fn.params = << >> \/ Slots(Function(prog, "main")) = << >>
  /\ Len(fn.body) = 1 /\ fn.body[1].k = "return" /\ fn.body[1].value # << >>

CleanNode(prog, n) ==
  CASE n.k = "call" -> IF n.name \in Builtins THEN n.name \in OneWord
                       ELSE n.name # "main" /\ IsPureFunction(prog, Function(prog, n.name))
    [] n.k = "return" -> n.value = << >>
    [] OTHER -> TRUE

\* The statements' own calls may leave no word.
RECURSIVE CleanStatements(_, _)
CleanStatements(prog, stmts) ==
  \A i \in DOMAIN stmts :
    LET n == stmts[i] IN
    CASE n.k = "expr" /\ n.e.k = "call" /\ n.e.name \in NoWord -> TRUE
      [] n.k \in {"if", "while"} ->
           /\ \A j \in DOMAIN Nodes(n.cond) : CleanNode(prog, Nodes(n.cond)[j])
           /\ CleanStatements(prog, IF n.k = "while" THEN n.body ELSE n.then)
           /\ n.k = "if" => \A j \in DOMAIN n.else : CleanStatements(prog, n.else[j])
      [] OTHER -> \A j \in DOMAIN Nodes(n) : CleanNode(prog, Nodes(n)[j])

Clean(prog) ==
  /\ CleanStatements(prog, Function(prog, "main").body)
  /\ \A i \in DOMAIN prog : prog[i].name # "main" =>
       /\ IsPureFunction(prog, prog[i])
       /\ \A j \in DOMAIN Nodes(prog[i].body[1].value[1]) :
            LET n == Nodes(prog[i].body[1].value[1])[j]
            IN  CleanNode(prog, n) /\ (n.k = "call" => n.name \in Builtins)
=============================================================================
