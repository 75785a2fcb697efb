-------------------------- MODULE MCVectorHandler --------------------------
(***************************************************************************)
(* Programs for VectorHandler: every choice of two instructions from a     *)
(* menu with at least one instruction of every handler, operand kind and   *)
(* lane width; two AES rounds on sixteen blocks that hold every byte; and  *)
(* programs that undo what they did.                                       *)
(***************************************************************************)
EXTENDS VectorHandler

\* Operands, with IDA's register numbers
Op(t, r, a) == [type |-> t, reg |-> r, addr |-> a]
Void == Op("void", 0, 0)
X(n) == Op("reg", 64 + n, 0)
Y(n) == Op("reg", 81 + n, 0)
MM(n) == Op("reg", 56 + n, 0)
R(n) == Op("reg", n, 0)
At(base, disp) == Op("displ", base, disp)
Phrase(base) == Op("phrase", base, 0)
Absolute(addr, field) == Op("mem", field, addr)
Imm(v) == Op("imm", 0, v)

Insn(o, v, w, a, b, c) ==
    [op |-> o, vex |-> v, w |-> w, op1 |-> a, op2 |-> b, op3 |-> c]
L(o, w, a, b) == Insn(o, FALSE, w, a, b, Void)
V(o, w, a, b, c) == Insn(o, TRUE, w, a, b, c)

Moves ==
    {L("mov", 0, X(0), X(1)), L("mov", 0, X(0), At(1, 4)), L("mov", 0, At(1, 4), X(1)),
     V("mov", 0, Y(0), Y(1), Void), V("mov", 0, Y(1), At(1, 0), Void),
     V("mov", 0, At(1, 0), Y(1), Void), V("mov", 0, X(0), X(1), Void),
     L("mov", 0, X(0), Phrase(1)), L("mov", 0, X(0), At(1, 52)),
     L("mov", 0, At(1, 52), X(0)), L("mov", 0, X(0), Absolute(48, 99)),
     L("mov", 0, X(0), Absolute(48, 1)), L("movd", 0, X(1), R(2)),
     L("movd", 0, X(0), At(1, 0)), L("movq", 0, X(0), R(2)), L("movd", 0, R(2), X(0)),
     L("movq", 0, At(1, 0), X(0)), L("movq", 0, X(0), X(1)),
     V("movq", 0, X(0), R(2), Void)}

Bitwises ==
    {L("pxor", 0, X(0), X(1)), V("pxor", 0, Y(0), Y(1), Y(2)), V("pxor", 0, X(0), X(1), X(2)),
     V("pxor", 0, X(1), X(1), X(2)), L("pand", 0, X(1), X(2)), L("por", 0, X(0), At(1, 0)),
     L("pandn", 0, X(0), X(1)), V("pandn", 0, Y(1), Y(0), Y(2)), L("pxor", 0, MM(0), MM(1))}

Arithmetics ==
    {L("padd", 1, X(0), X(1)), L("padd", 2, X(0), X(1)), L("padd", 4, X(0), X(1)),
     V("padd", 8, Y(0), Y(1), Y(2)), L("psub", 1, X(1), X(0)), V("psub", 2, X(0), X(0), X(1)),
     L("psub", 4, X(1), X(0)), L("psub", 8, X(0), X(1)), L("pmull", 2, X(0), X(1)),
     V("pmull", 2, Y(1), Y(0), Y(2))}

Shifts ==
    {L("psll", 2, X(1), Imm(3)), L("psll", 4, X(1), Imm(13)), L("psll", 8, X(1), Imm(33)),
     L("psrl", 2, X(1), Imm(15)), L("psrl", 4, X(1), Imm(31)), L("psrl", 8, X(1), Imm(64)),
     L("psra", 2, X(1), Imm(4)), L("psra", 4, X(1), Imm(32)), L("psra", 2, X(1), Imm(255)),
     V("psra", 4, Y(0), Y(1), Imm(7)), L("psrl", 8, X(1), At(1, 20)),
     L("psll", 2, X(0), X(3)), V("psll", 4, Y(0), Y(1), X(3))}

Shuffles ==
    {L("pshufb", 0, X(0), X(2)), V("pshufb", 0, Y(0), Y(1), Y(2)), L("pshufb", 0, X(0), At(1, 0))}

Rounds ==
    {L("aesenc", 0, X(0), X(2)), L("aesdec", 0, X(0), X(2)), L("aesenc", 0, X(1), At(1, 0)),
     V("aesenc", 0, X(0), X(1), X(2)), V("aesenc", 0, Y(0), Y(1), Y(2)),
     V("aesdeclast", 0, X(0), X(1), X(2)), L("aesimc", 0, X(0), X(1)),
     L("aesenclast", 0, X(0), X(1)), V("aesimc", 0, X(0), X(2), Void),
     Insn("aeskeygenassist", FALSE, 0, X(0), X(1), Imm(1))}

MCMenu ==
    Moves \cup Bitwises \cup Arithmetics \cup Shifts \cup Shuffles \cup Rounds
      \cup {V("vzeroupper", 0, Void, Void, Void)}

-----------------------------------------------------------------------------
MCMapped == 32 .. 95
Low(F(_)) == [i \in Bytes |-> IF i < 16 THEN F(i) ELSE 0]
Edges == <<0, 255, 128, 127, 1, 254, 129, 3, 0, 0, 0, 128, 255, 255, 255, 127>>

\* RAX and RCX point into the mapped bytes, at 40; RDX holds eight different bytes.
Machine(v0, v1, v2, v3) ==
    [vec |-> [n \in 0 .. 3 |-> CASE n = 0 -> v0 [] n = 1 -> v1 [] n = 2 -> v2 [] n = 3 -> v3],
     gpr |-> [n \in 0 .. 2 |-> [i \in 0 .. 7 |-> IF n = 2 THEN 17 * (i + 1)
                                                ELSE IF i = 0 THEN 40 ELSE 0]],
     mem |-> [a \in MCMapped |-> IF a \in 60 .. 67 THEN (IF a = 60 THEN 9 ELSE 0)
                                 ELSE (53 * a + 7) % 256]]

Mixture(k, c) == [i \in Bytes |-> (k * i + c) % 256]
FreeMachine ==
    Machine(Low(LAMBDA i : (37 * i + 11) % 256),
            [i \in Bytes |-> IF i < 16 THEN Edges[i + 1] ELSE (91 * i) % 256],
            Mixture(29, 200),
            [Zeros EXCEPT ![0] = 9])

BlockMachine(k) ==
    LET block == Low(LAMBDA i : 16 * k + i)
    IN Machine(block, block, Low(LAMBDA i : (13 * i + k) % 256), Low(LAMBDA i : (71 * i + 3 * k) % 256))

SubstitutionProgram == <<L("aesenclast", 0, X(0), X(2)), L("aesdeclast", 0, X(1), X(2))>>

\* Encryption with the keys of registers 2, 3 and 2, and its equivalent inverse.
CipherProgram ==
    <<L("pxor", 0, X(0), X(2)), L("aesenc", 0, X(0), X(3)), L("aesenclast", 0, X(0), X(2)),
      L("pxor", 0, X(0), X(2)), L("aesimc", 0, X(3), X(3)), L("aesdec", 0, X(0), X(3)),
      L("aesdeclast", 0, X(0), X(2))>>
VexCipherProgram ==
    <<V("pxor", 0, X(0), X(0), X(2)), V("aesenc", 0, X(0), X(0), X(3)),
      V("aesenclast", 0, X(0), X(0), X(2)), V("pxor", 0, X(0), X(0), X(2)),
      V("aesimc", 0, X(3), X(3), Void), V("aesdec", 0, X(0), X(0), X(3)),
      V("aesdeclast", 0, X(0), X(0), X(2))>>
\* Rotation by 7 and by 25, a store and a load, sums and differences.
RotateProgram ==
    LET rotate(n) == <<L("mov", 0, X(3), X(0)), L("psll", 4, X(3), Imm(n)),
                       L("psrl", 4, X(0), Imm(32 - n)), L("por", 0, X(0), X(3))>>
    IN rotate(7) \o rotate(25)
MemoryProgram ==
    <<V("mov", 0, At(1, 8), Y(0), Void), L("padd", 2, X(0), X(2)), V("psub", 8, Y(0), Y(0), Y(3)),
      V("padd", 8, Y(0), Y(0), Y(3)), L("psub", 2, X(0), X(2)), L("por", 0, X(0), At(1, 8))>>

FreeCases == {[machine |-> FreeMachine, kind |-> "free", program |-> << >>]}
StraightCases ==
    {[machine |-> BlockMachine(k), kind |-> "straight", program |-> SubstitutionProgram]
       : k \in 0 .. 15}
InverseCases ==
    {[machine |-> BlockMachine(k), kind |-> "inverse", program |-> p]
       : k \in 0 .. 15,
         p \in {CipherProgram, VexCipherProgram, RotateProgram, MemoryProgram}}
MCCases == FreeCases \cup StraightCases \cup InverseCases
=============================================================================
