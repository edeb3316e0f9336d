-------------------------------- MODULE Gob --------------------------------
(***************************************************************************)
(* The .gob file: written by bytecode/compiler/emit.py, read by the engine *)
(* (engine/src/bytecode.cpp).  A blob is a sequence of bytes; offsets      *)
(* count from 0 as in the code.  Reading gives a sequence that holds the   *)
(* program, or nothing when load_bytecode throws.                          *)
(***************************************************************************)
EXTENDS Vm

U16Bytes(n) == <<n % 256, (n \div 256) % 256>>
U32Bytes(n) == U16Bytes(n) \o U16Bytes(n \div 65536)

Magic == <<66, 76, 79, 71>>
Version == 1
HeaderSize == 16

CodeSize(code) == Len(code)

\* The constants, each of them five bytes: its tag and the integer.
PoolBytes(ints) ==
  [j \in 1 .. 5 * Len(ints) |->
     (<<1>> \o U32Bytes(ints[(j - 1) \div 5 + 1]))[((j - 1) % 5) + 1]]

EmitGob(code, locs, ints) ==
  Magic \o U16Bytes(Version) \o U16Bytes(Len(ints)) \o U32Bytes(CodeSize(code))
    \o U16Bytes(locs) \o U16Bytes(0) \o PoolBytes(ints) \o code

-----------------------------------------------------------------------------
ReadU16(blob, at) == blob[at + 1] + 256 * blob[at + 2]
ReadU32(blob, at) == ReadU16(blob, at) + 65536 * ReadU16(blob, at + 2)
ReadI32(blob, at) ==
  Wrap(blob[at + 1] + 256 * Wrap(blob[at + 2] + 256 * Wrap(blob[at + 3] + 256 * blob[at + 4])))

\* The constant behind those that were read: a tagged integer or a tagged string.
Entry(blob, pool) ==
  LET at == pool.at
      Past(constant, next) == <<[at |-> next, constants |-> Append(pool.constants, constant)]>>
  IN  IF at + 5 <= Len(blob) /\ blob[at + 1] = 1
      THEN Past(<<ReadI32(blob, at + 1)>>, at + 5)
      ELSE IF /\ at + 3 <= Len(blob) /\ blob[at + 1] = 2
              /\ at + 3 + ReadU16(blob, at + 1) <= Len(blob)
      THEN Past(<< >>, at + 3 + ReadU16(blob, at + 1))
      ELSE << >>

\* What is read of the pool of n constants, one after the other.
Reads(blob, n) ==
  LET Read[k \in 0 .. n] ==
        IF k = 0 THEN <<[at |-> HeaderSize, constants |-> << >>]>>
        ELSE LET before == Read[k - 1]
             IN  IF before = << >> THEN << >> ELSE Entry(blob, before[1])
  IN  Read
ReadPool(blob, n) == Reads(blob, n)[n]

LoadBytecode(blob) ==
  IF Len(blob) < HeaderSize \/ SubSeq(blob, 1, 4) # Magic \/ ReadU16(blob, 4) # Version
  THEN << >>
  ELSE LET pool == ReadPool(blob, ReadU16(blob, 6))
           size == ReadU32(blob, 8)
       IN  IF pool = << >> \/ pool[1].at + size > Len(blob)
           THEN << >>
           ELSE <<[code |-> [i \in 1 .. size |-> blob[pool[1].at + i]],
                   locals |-> ReadU16(blob, 12),
                   constants |-> pool[1].constants]>>
=============================================================================
