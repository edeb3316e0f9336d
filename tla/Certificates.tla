---------------------------- MODULE Certificates ----------------------------
(***************************************************************************)
(* The engine runs a program without verifying it.  A certificate is what  *)
(* a verifier would have found out: the offsets where instructions that    *)
(* can be reached start (at), each with the function it belongs to, named  *)
(* by its entry, and with the height of the stack over what it was when    *)
(* that function was called; and of each function (fun) the words a call   *)
(* leaves on the stack, the room it needs with all it calls, and how deep  *)
(* its calls nest.                                                         *)
(***************************************************************************)
EXTENDS Vm

\* The instruction at offset o of program p, as Vm has it of the one at pc.
OpAt(p, o) == IF o >= Len(p.code) THEN "HALT" ELSE Decode[p.code[o + 1]]
U8At(p, o) == p.code[o + 2]
U16At(p, o) == p.code[o + 2] + 256 * p.code[o + 3]
AfterAt(p, o) == o + 1 + OperandSize(OpAt(p, o))
TargetAt(p, o) == o + 1 + (IF U16At(p, o) < 32768 THEN U16At(p, o) ELSE U16At(p, o) - 65536)

Complete(p, o) ==
  /\ o \in 0 .. Len(p.code)
  /\ OpAt(p, o) # "invalid"
  /\ o = Len(p.code) \/ AfterAt(p, o) <= Len(p.code)

\* Where an instruction passes control within its function.
Successors(p, o) ==
  CASE OpAt(p, o) \in {"HALT", "RETURN"} -> {}
    [] OpAt(p, o) = "JMP"                -> {TargetAt(p, o)}
    [] OpAt(p, o) = "JMP_IF_FALSE"       -> {TargetAt(p, o), AfterAt(p, o)}
    [] OTHER                             -> {AfterAt(p, o)}

\* The words an instruction leaves for those it pops; a call, what the callee gives.
PutsBack(op) ==
  CASE op \in Binary \union Unary \union Loads -> 1
    [] op \in {"DUP", "SWAP"} -> 2
    [] op \in Intrinsics -> Observations(op)
    [] OTHER -> 0

HeightAfter(c, p, o) ==
  c.at[o].height + IF OpAt(p, o) = "CALL" THEN c.fun[U16At(p, o)].gives
                   ELSE PutsBack(OpAt(p, o)) - Pops(OpAt(p, o))

-----------------------------------------------------------------------------
CallFits(c, p, o) ==
  LET callee == U16At(p, o)
      caller == c.at[o].entry
  IN  /\ callee \in DOMAIN c.fun \intersect DOMAIN c.at
      /\ c.at[callee] = [entry |-> callee, height |-> 0]
      /\ c.at[o].height + c.fun[callee].room <= c.fun[caller].room
      /\ c.fun[callee].nesting < c.fun[caller].nesting

Verified(c, p, o) ==
  LET op == OpAt(p, o) IN
  /\ Complete(p, o)
  /\ c.at[o].entry \in DOMAIN c.fun
  /\ Pops(op) <= c.at[o].height
  /\ c.at[o].height <= c.fun[c.at[o].entry].room
  /\ op \in {"LOAD_LOCAL", "STORE_LOCAL"} => U8At(p, o) < p.locals
  /\ op = "LOAD_CONST" => /\ U16At(p, o) < Len(p.constants)
                         /\ p.constants[U16At(p, o) + 1] # << >>
  /\ op = "CALL" => CallFits(c, p, o)
  /\ op = "RETURN" => c.at[o].height = c.fun[c.at[o].entry].gives
  /\ \A s \in Successors(p, o) :
       /\ s \in DOMAIN c.at
       /\ c.at[s] = [entry |-> c.at[o].entry, height |-> HeightAfter(c, p, o)]

Certifies(c, p) ==
  /\ \A o \in DOMAIN c.at : c.at[o].height \in Nat /\ Verified(c, p, o)
  /\ \A f \in DOMAIN c.fun : /\ c.fun[f].gives \in Nat
                             /\ c.fun[f].room \in Nat
                             /\ c.fun[f].nesting \in Nat
  /\ 0 \in DOMAIN c.at \intersect DOMAIN c.fun
  /\ c.at[0] = [entry |-> 0, height |-> 0]
  /\ c.fun[0].room <= MaxStack
  /\ c.fun[0].nesting <= MaxCallDepth

-----------------------------------------------------------------------------
(* What a certificate c promises of the program that runs: it executes     *)
(* nothing but the instructions c knows, underflows and overruns no stack, *)
(* nests its calls as deep as the machine has frames at most, touches no   *)
(* local and no constant it does not have.  Only a division may still      *)
(* fail, or trap.                                                          *)
Divides(c) == \E o \in DOMAIN c.at : OpAt(program, o) \in {"DIV", "MOD"}

RunsAs(c) ==
  /\ pc \in DOMAIN c.at
  /\ status # "overrun"
  /\ status \in {"error", "trapped"} => Divides(c)

CertifiedRunsAs(c) == Certifies(c, program) => RunsAs(c)
=============================================================================
