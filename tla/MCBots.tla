------------------------------- MODULE MCBots -------------------------------
(***************************************************************************)
(* Bots for TLC: every program of three bytes over an alphabet of opcodes  *)
(* and operands, longer ones that loop, call, divide and overrun, files    *)
(* with constants, and bots compiled from sources that combine conditions, *)
(* values and statements.                                                  *)
(***************************************************************************)
EXTENDS CompiledBots, TLC

\* HALT and 0, PUSH_INT, PUSH_BOOL, DUP, ADD, JMP, JMP_IF_FALSE, CALL, RETURN,
\* LOAD_LOCAL, STORE_LOCAL, PERCEIVE, MY_ENERGY, 0x8B (no opcode, in their range), NOP, -1.
Alphabet == {0, 1, 2, 4, 16, 48, 49, 50, 51, 64, 65, 128, 136, 139, 255}

Plain(code) == [code |-> code, locals |-> 2, constants |-> << >>]

Short == {Plain(code) : code \in [1 .. 3 -> Alphabet]}

Push(n) == <<1, n, 0, 0, 0>>
MinusOne == <<1, 255, 255, 255, 255>>

Longer ==
  { Plain(Push(1) \o <<49, 4, 0>> \o Push(7) \o <<65, 1, 51>>),         \* if, else
    Plain(<<64, 0, 2, 1, 16, 65, 0, 48, 248, 255>>),                   \* counts for ever
    Plain(<<50, 6, 0, 48, 252, 255, 50, 9, 0, 51, 131>>),              \* nested calls
    Plain(<<136, 64, 1, 33, 37, 49, 5, 0, 130, 51, 133, 3, 50, 0, 0>>),\* decides
    Plain(Push(5) \o <<4, 65, 0>> \o Push(3) \o <<20, 21, 64, 0, 19>>),\* mod, neg, div
    Plain(Push(100) \o <<4, 17, 37, 2, 1, 35>>),
    Plain(Push(100) \o <<4, 18, 4, 5, 34>>),
    Plain(Push(9) \o <<4, 32, 2, 0, 35, 2, 5, 36, 3, 138, 1>>),
    Plain(Push(128) \o <<4, 16, 2, 0, 19>>),                           \* division by zero
    Plain(<<129, 3, 3, 3, 3, 132, 130, 135, 3, 135>>),                 \* looks, moves, breeds
    Plain(<<48, 255, 255>>),                                           \* jumps to itself
    Plain(<<48, 255, 127>>), Plain(<<48, 0, 128>>) }                   \* far jumps

\* The concatenation has TLC compute the code once.
LoadedFrom(blob) == [LoadBytecode(blob)[1] EXCEPT !.code = @ \o << >>]

\* A file with an integer and a string in its pool.
WithPool(code) ==
  LoadedFrom(Magic \o U16Bytes(Version) \o U16Bytes(2) \o U32Bytes(Len(code))
               \o U32Bytes(0) \o <<1, 253, 255, 255, 255>> \o <<2, 2, 0, 104, 105>> \o code)

Loaded == {WithPool(code) : code \in {<<80, 0, 0, 80, 1, 0>>, <<80, 2, 0>>}}

Rejected == {[code |-> <<2, 1, 65, 0, 0>>, locals |-> 257, constants |-> << >>]}

Overflowing == {Plain(<<128, 48, 254, 255>>), Plain(Push(128) \o MinusOne \o <<19>>)}

-----------------------------------------------------------------------------
(* Sources *)

Lit(n) == [k |-> "int", v |-> n]
Var(x) == [k |-> "var", name |-> x]
Un(op, e) == [k |-> "un", op |-> op, e |-> e]
Bin(op, l, r) == [k |-> "bin", op |-> op, left |-> l, right |-> r]
CallOf(f, args) == [k |-> "call", name |-> f, args |-> args]
Asks(f) == CallOf(f, << >>)
Let(x, e) == [k |-> "set", name |-> x, e |-> e]
Does(e) == [k |-> "expr", e |-> e]
If(c, then) == [k |-> "if", cond |-> c, then |-> then, else |-> << >>]
IfElse(c, then, else) == [k |-> "if", cond |-> c, then |-> then, else |-> <<else>>]
While(c, stmts) == [k |-> "while", cond |-> c, body |-> stmts]
Stop == [k |-> "return", value |-> << >>]
Gives(e) == [k |-> "return", value |-> <<e>>]
Fun(name, params, stmts) == [name |-> name, params |-> params, body |-> stmts]
Main(stmts) == Fun("main", << >>, stmts)

X == Var("x")
Y == Var("y")
Hungry == Fun("hungry", << >>, <<Gives(Bin("<", Asks("my_energy"), Lit(4)))>>)
Less == Fun("less", <<"a", "b">>, <<Gives(Bin("-", Var("a"), Var("b")))>>)

Conditions ==
  << Bin("<", X, Lit(2)), Bin("<=", X, Lit(0)), Bin(">=", Asks("my_energy"), Lit(4)),
     Bin("!=", X, Lit(1)), Un("!", X), Bin("&&", Bin("==", X, Y), [k |-> "bool", v |-> TRUE]),
     Bin("||", Bin(">", Asks("eat"), Lit(0)), Asks("hungry")) >>

Values ==
  << Bin("+", X, Lit(1)), Un("-", Bin("-", X, Lit(1))), Bin("+", Asks("eat"), Asks("eat")),
     CallOf("my_trait", <<Lit(3)>>), Asks("hungry"), Bin("/", Lit(6), X),
     Bin("-", Asks("drink"), Bin("*", X, Y)) >>

Mains(c, v) ==
  << <<IfElse(c, <<Let("x", v), Does(Asks("move"))>>,
                 <<Does(Asks("turn_left")), Let("y", v), Let("x", Y)>>)>>,
     <<While(c, <<Let("x", Bin("+", X, Lit(1))), Does(v)>>), Let("y", v)>>,
     <<If(c, <<Does(Asks("turn_right")), Stop>>), Let("x", v), Does(Asks("move"))>>,
     <<While(c, <<IfElse(Bin("==", Y, Lit(0)), <<Let("y", v)>>, <<Let("x", Lit(2)), Stop>>)>>)>> >>

\* Every condition with every value in every body.
Combined ==
  [n \in 0 .. 4 * Len(Conditions) * Len(Values) - 1 |->
     LET c == Conditions[1 + (n % Len(Conditions))]
         v == Values[1 + ((n \div Len(Conditions)) % Len(Values))]
     IN  <<Hungry, Main(Mains(c, v)[1 + (n \div (Len(Conditions) * Len(Values)))])>>]

\* Bots the compiler refuses or the language leaves in doubt, and calls with arguments.
Particular ==
  << <<Less, Main(<<If(Bin(">", CallOf("less", <<Asks("eat"), Lit(1)>>), Lit(0)), <<Does(Asks("move"))>>)>>)>>,
     <<Less, Main(<<While(Bin(">", CallOf("less", <<Lit(3), CallOf("less", <<Lit(2), Lit(1)>>)>>),
                                   Lit(2)), <<Does(Asks("move"))>>), Does(Asks("turn_left"))>>)>>,
     <<Less, Main(<<Let("x", CallOf("less", <<Lit(5), Lit(3)>>)), Let("y", X)>>)>>,
     <<Main(<<Let("x", Asks("perceive_water")), Let("y", Asks("look_food"))>>)>>,
     <<Main(<<If(Asks("reproduce"), <<Does(Asks("perceive"))>>), Let("x", Asks("hungry"))>>), Hungry>>,
     <<Main(<<Does(Asks("fly"))>>)>>,
     <<Main(<<Let("x", CallOf("my_trait", <<X>>))>>)>>,
     <<Fun("twice", <<"a", "a">>, <<Stop>>), Main(<<Does(CallOf("twice", <<Lit(1), Lit(2)>>))>>)>>,
     <<Fun("idle", << >>, << >>), Main(<<Does(Asks("idle"))>>)>> >>

AllSources ==
  [n \in 1 .. Cardinality(DOMAIN Combined) |-> Combined[n - 1]] \o Particular

\* Sets and LET bind what a program is compiled from, and to, to a value.
Bots ==
  LET all == AllSources IN
  {LoadedFrom(o[2].blob) @@ [source |-> o[1]] :
     o \in {o \in {<<s[1], Compile(s[2])>> : s \in {<<n, all[n]>> : n \in DOMAIN all}} :
             o[2].outcome = "ok"}}

AllPrograms ==
  Short \union Longer \union Loaded \union Rejected \union Overflowing \union Bots

MCPrograms == AllPrograms
MCSources == AllSources

-----------------------------------------------------------------------------
(* The agent and its world *)

MCTerrain ==
  (<<0, 0>> :> "Plain" @@ <<1, 0>> :> "Rock" @@ <<0, 1>> :> "Water" @@ <<1, 1>> :> "Forest")

MCTraits ==
  [vision |-> 1, speed |-> 1, metabolism |-> 1, reproduction_threshold |-> 5, swim |-> 1,
   forage_efficiency |-> 2]

Agent(p, energy, hydration) ==
  [pos |-> p, facing |-> "East", energy |-> energy, hydration |-> hydration,
   food |-> (<<0, 0>> :> 1 @@ <<1, 0>> :> 1 @@ <<0, 1>> :> 2 @@ <<1, 1>> :> 0),
   water |-> (<<0, 0>> :> 0 @@ <<1, 0>> :> 1 @@ <<0, 1>> :> 3 @@ <<1, 1>> :> 0)]

MCOutset ==
  [bytecode |-> {Agent(<<0, 0>>, 6, 3)}, learning |-> {Agent(<<0, 0>>, 12, 7)},
   ml |-> {Agent(<<0, 0>>, 12, 5), Agent(<<1, 1>>, 12, 5)}]

\* Moves or turns, and eats; breeds and eats; a number that is no action, and drinks.
MCNets ==
  {(TRUE :> 3 @@ FALSE :> 0), (TRUE :> 3 @@ FALSE :> 1),
   (TRUE :> 5 @@ FALSE :> 2), (TRUE :> 6 @@ FALSE :> 4)}

MCEnergies == -30 .. 30
=============================================================================
