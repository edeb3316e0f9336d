---------------------------- MODULE CompiledBots ----------------------------
(***************************************************************************)
(* The bots of Brains whose programs were compiled: what they do, against  *)
(* what the language says of their sources.                                *)
(***************************************************************************)
EXTENDS Brains, Certificates, GolScript
LOCAL INSTANCE FiniteSetsExt
LOCAL INSTANCE SequencesExt
LOCAL INSTANCE TLC

CONSTANT Sources   \* the bots' sources: a compiled program names its own by its number

(* A compiled bot does what its source says: when a tick has run to its    *)
(* end, main's variables and the agent are what the statements, read as    *)
(* language.md explains them, make of those the tick began with.           *)
Compiled == "source" \in DOMAIN program

CompiledMeansSource ==
  Compiled /\ status = "halted" /\ phase = "idle" /\ turn = "upkeep" =>
    LET prog == Sources[program.source]
        meant == Meaning(prog, entry)
    IN  Clean(prog) =>
          /\ body = meant.body
          /\ \A name \in DOMAIN meant.env :
               Local(SlotOf(Function(prog, "main"), name)) = meant.env[name]

-----------------------------------------------------------------------------
(* The certificate of a program (see Certificates) whose functions call    *)
(* earlier ones only, and whose entry calls any.  Each function is         *)
(* followed from its first instruction, after those it may call; paths     *)
(* that meet at different heights are left to Certifies to refuse.         *)
Site(f, height) == [entry |-> f, height |-> height]

RECURSIVE Walk(_, _, _, _)
Walk(c, p, f, todo) ==
  IF todo = {} THEN c
  ELSE LET o == CHOOSE o \in todo : TRUE
           Known == OpAt(p, o) = "CALL" => U16At(p, o) \in DOMAIN c.fun
           next == IF Complete(p, o) /\ Known THEN Successors(p, o) \ DOMAIN c.at ELSE {}
           found == [s \in next |-> Site(f, HeightAfter(c, p, o))]
       IN  Walk([c EXCEPT !.at = @ @@ found], p, f, (todo \ {o}) \union next)

WithFunction(c, p, f) ==
  LET walked == Walk([c EXCEPT !.at = @ @@ (f :> Site(f, 0))], p, f, {f})
      own == {o \in DOMAIN walked.at : walked.at[o].entry = f /\ Complete(p, o)}
      Own(op) == {o \in own : OpAt(p, o) = op}
      sites == {o \in Own("CALL") : U16At(p, o) \in DOMAIN c.fun}
      Callee(o) == c.fun[U16At(p, o)]
      At(o) == walked.at[o].height
  IN  [walked EXCEPT !.fun = @ @@ (f :>
         [gives   |-> Max({At(o) : o \in Own("RETURN")} \union {0}),
          room    |-> Max({At(o) : o \in own}
                            \union {At(o) + Callee(o).room : o \in sites} \union {0}),
          nesting |-> Max({1 + Callee(o).nesting : o \in sites} \union {0})])]

RECURSIVE Starts(_, _)
Starts(code, at) ==
  IF at >= Len(code) THEN {at}
  ELSE {at} \union Starts(code, at + 1 + OperandSize(Decode[code[at + 1]]))

CertificateOf(p) ==
  LET called == {U16At(p, o) : o \in {o \in Starts(p.code, 0) : OpAt(p, o) = "CALL"}}
  IN  FoldLeft(LAMBDA c, f : WithFunction(c, p, f), [at |-> << >>, fun |-> << >>],
               SetToSortSeq(called, <) \o <<0>>)

Certified ==
  {p \in Programs : /\ "source" \in DOMAIN p
                    /\ Clean(Sources[p.source])
                    /\ Certifies(CertificateOf(p), p)}

(* A compiled bot never runs into an error of its own making.  However it   *)
(* jumps, calls and returns, it executes only instructions the compiler    *)
(* emitted, never an operand.  Within the fragment of Clean the compiler's *)
(* output would pass a verifier: it underflows and overruns no stack,      *)
(* nests no call too deep and stays within its locals, and only a division *)
(* may fail.                                                               *)
CompiledRunsClean ==
  Compiled =>
    /\ pc \in Starts(program.code, 0)
    /\ Clean(Sources[program.source]) => program \in Certified
    /\ status = "error" =>
         \/ ~Clean(Sources[program.source])
         \/ {"DIV", "MOD"} \intersect {Decode[program.code[i]] : i \in DOMAIN program.code} # {}
=============================================================================
