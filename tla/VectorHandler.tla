--------------------------- MODULE VectorHandler ---------------------------
(***************************************************************************)
(* handler.cpp, vector_operations.hpp and register_mapper.hpp: the vector  *)
(* instructions that hook_code executes in software, reading and writing   *)
(* the engine's registers and memory.  Beside the engine runs a second     *)
(* machine that follows the processor's manual.  Forms for which the code  *)
(* is known to differ from the manual (Deviates) end the comparison.       *)
(*                                                                         *)
(* A register is a function from byte numbers to bytes; XMM registers are  *)
(* the low halves of YMM registers.  Operands carry IDA's register         *)
(* numbers.  movdqa, movdqu, movaps, movups, movapd and movupd are one     *)
(* operation, "mov"; vex tells a v-form from a legacy one.                 *)
(***************************************************************************)
EXTENDS Aes, FiniteSets

CONSTANTS VecCount,    \* vector registers a program uses, of the 16
          GprCount,    \* general registers a program uses, of the 16
          Mapped,      \* mapped addresses
          Cases,       \* [machine, kind, program]: where a behaviour starts
          Menu,        \* instructions that a free program is made of
          MaxSteps     \* length of a free program

VARIABLES engine,    \* the engine's registers and memory under the handler
          manual,    \* those of a processor
          kind,      \* "free"; "straight"; "inverse", a program that undoes what it did
          todo,      \* what is left of a program that is not free
          steps,     \* instructions of a free program so far
          followed   \* no instruction so far was of a form that Deviates

vars == <<engine, manual, kind, todo, steps, followed>>

Bytes == 0 .. 31
Zeros == [i \in Bytes |-> 0]
Machines ==
    [vec : [0 .. VecCount - 1 -> [Bytes -> Byte]],
     gpr : [0 .. GprCount - 1 -> [0 .. 7 -> Byte]],
     mem : [Mapped -> Byte]]

ASSUME VectorAssumption ==
    /\ VecCount \in 1 .. 16 /\ GprCount \in 1 .. 16
    /\ Mapped \subseteq Nat /\ MaxSteps \in Nat

-----------------------------------------------------------------------------
(* Registers *)

is_xmm_reg(r) == r \in (16 .. 31) \cup (64 .. 79)
is_ymm_reg(r) == r \in 81 .. 96
is_gpr(r) == r \in 0 .. 15
xmm_number(r) == IF r \in 16 .. 31 THEN r - 16 ELSE r - 64
ymm_number(r) == r - 81
vector_reg_size(r) == IF is_xmm_reg(r) THEN 16 ELSE IF is_ymm_reg(r) THEN 32 ELSE 0
vec_number(r) == IF is_xmm_reg(r) THEN xmm_number(r) ELSE ymm_number(r)

\* The first n bytes of f in a buffer that is otherwise zero.
Buffer(f, n) == [i \in Bytes |-> IF i < n THEN f[i] ELSE 0]
\* The low n bytes of f over those of g.
Over(f, n, g) == [i \in DOMAIN g |-> IF i < n THEN f[i] ELSE g[i]]

\* Programs keep addresses below 2^16 in the registers they address memory with.
address(g) == g[0] + 256 * g[1]

is_memory_operand(op) == op.type \in {"mem", "displ"}
calculate_effective_address(m, op) ==
    op.addr + (IF is_gpr(op.reg) THEN address(m.gpr[op.reg]) ELSE 0)

Span(m, op, size) ==
    LET ea == calculate_effective_address(m, op) IN ea .. (ea + size - 1)

\* Whether read_operand returns true.
readable(m, op, size) ==
    \/ is_memory_operand(op) /\ Span(m, op, size) \subseteq DOMAIN m.mem
    \/ op.type = "imm"
    \/ op.type = "reg" /\ is_gpr(op.reg)
    \/ op.type = "reg" /\ vector_reg_size(op.reg) \in 1 .. size

\* The 32-byte buffer read_operand was given, which holds zeros before the call.
read_operand(m, op, size) ==
    IF ~readable(m, op, size) THEN Zeros
    ELSE IF is_memory_operand(op) THEN
        LET ea == calculate_effective_address(m, op)
        IN Buffer([i \in 0 .. size - 1 |-> m.mem[ea + i]], size)
    ELSE IF op.type = "imm" THEN
        Buffer([i \in 0 .. 7 |-> IF i = 0 THEN op.addr ELSE 0], 8)
    ELSE IF is_gpr(op.reg) THEN Buffer(m.gpr[op.reg], IF size < 8 THEN size ELSE 8)
    ELSE Buffer(m.vec[vec_number(op.reg)], vector_reg_size(op.reg))

write_vector_register(m, r, data, size) ==
    IF is_xmm_reg(r)
    THEN [m EXCEPT !.vec[xmm_number(r)] = Over(data, IF size = 32 THEN 32 ELSE 16, @)]
    ELSE [m EXCEPT !.vec[ymm_number(r)] = Buffer(data, size)]

write_operand(m, op, data, size) ==
    IF is_memory_operand(op) THEN
        LET ea == calculate_effective_address(m, op)
        IN IF Span(m, op, size) \subseteq DOMAIN m.mem
           THEN [m EXCEPT !.mem = [a \in DOMAIN @ |-> IF a \in Span(m, op, size)
                                                     THEN data[a - ea] ELSE @[a]]]
           ELSE m
    ELSE IF op.type = "reg" /\ vector_reg_size(op.reg) > 0 THEN
        write_vector_register(m, op.reg, data, size)
    ELSE IF op.type = "reg" /\ is_gpr(op.reg) THEN
        [m EXCEPT !.gpr[op.reg] = [i \in 0 .. 7 |-> IF i < size THEN data[i] ELSE 0]]
    ELSE m

-----------------------------------------------------------------------------
(* Handlers.  w is the lane width of an instruction in bytes, what tells   *)
(* paddb from paddw.                                                       *)

has_third(insn) == insn.op3.type # "void"
lhs(m, insn, size) ==
    read_operand(m, IF has_third(insn) THEN insn.op2 ELSE insn.op1, size)

rhs(m, insn, size) ==
    read_operand(m, IF has_third(insn) THEN insn.op3 ELSE insn.op2, size)

move_size(insn) ==
    LET of(op) == vector_reg_size(op.reg)
    IN CASE insn.op = "movd" -> 4
         [] insn.op = "movq" -> 8
         [] OTHER -> IF of(insn.op1) > 0 THEN of(insn.op1)
                     ELSE IF of(insn.op2) > 0 THEN of(insn.op2) ELSE 16

handle_move(m, insn) ==
    LET size == move_size(insn)
    IN IF readable(m, insn.op2, size)
       THEN write_operand(m, insn.op1, read_operand(m, insn.op2, size), size)
       ELSE m

Ands == Table(LAMBDA a : Table(LAMBDA b : a & b, 256), 256)
and(a, b) == Ands[a + 1][b + 1]

Logic(insn, l, r) ==
    [i \in Bytes |->
        CASE insn.op = "pxor" -> xor(l[i], r[i])
          [] insn.op = "pand" -> and(l[i], r[i])
          [] insn.op = "por" -> xor(xor(l[i], r[i]), and(l[i], r[i]))
          [] insn.op = "pandn" -> and(255 - l[i], r[i])]

\* Lanes of w bytes, the lowest byte first: what a byte passes on to the next one.
Mut_perform_add(w, l, r) == [i \in Bytes |-> l[i] + r[i]]

\* The carry of one lane reaches the next.
Mut_perform_add_across(w, l, r) ==
    LET carry[i \in Bytes] == IF i = 0 THEN 0 ELSE (l[i - 1] + r[i - 1] + carry[i - 1]) \div 256
    IN [i \in Bytes |-> (l[i] + r[i] + carry[i]) % 256]

perform_add(w, l, r) ==
    LET carry[i \in Bytes] ==
            IF i % w = 0 THEN 0 ELSE (l[i - 1] + r[i - 1] + carry[i - 1]) \div 256
    IN [i \in Bytes |-> (l[i] + r[i] + carry[i]) % 256]

perform_sub(w, l, r) ==
    LET borrow[i \in Bytes] ==
            IF i % w # 0 /\ l[i - 1] - r[i - 1] - borrow[i - 1] < 0 THEN 1 ELSE 0
    IN [i \in Bytes |-> (l[i] - r[i] - borrow[i]) % 256]

\* The low 16 bits of the product of two words.
perform_mull(l, r) ==
    [i \in Bytes |->
        LET k == i - (i % 2)
        IN IF i = k THEN (l[k] * r[k]) % 256
           ELSE ((l[k] * r[k]) \div 256 + l[k] * r[i] + l[i] * r[k]) % 256]

Arithmetic(insn, l, r) ==
    CASE insn.op = "padd" -> perform_add(insn.w, l, r)
      [] insn.op = "psub" -> perform_sub(insn.w, l, r)
      [] insn.op = "pmull" -> perform_mull(l, r)

handle_bitwise(m, insn) ==
    LET size == vector_reg_size(insn.op1.reg)
    IN IF size = 0 THEN m
       ELSE write_operand(m, insn.op1, Logic(insn, lhs(m, insn, size), rhs(m, insn, size)), size)

handle_arithmetic(m, insn) ==
    LET size == vector_reg_size(insn.op1.reg)
    IN IF size = 0 THEN m
       ELSE write_operand(m, insn.op1, Arithmetic(insn, lhs(m, insn, size), rhs(m, insn, size)), size)

\* A 64-bit count; whatever does not fit a byte is more than any lane holds.
Count(bytes) == IF \E i \in 1 .. 7 : bytes[i] # 0 THEN 256 ELSE bytes[0]

resolve_shift_count(m, op) == Count(read_operand(m, op, 8))

perform_shift(insn, src, count) ==
    LET w == insn.w
        whole == count \div 8
        part == count % 8
        fill(i) == IF insn.op = "psra" /\ src[i - (i % w) + w - 1] >= 128 THEN 255 ELSE 0
        \* byte k of the lane that i lies in; what is shifted in lies beyond its ends
        at(i, k) == IF k < 0 THEN 0 ELSE IF k >= w THEN fill(i) ELSE src[i - (i % w) + k]
    IN [i \in Bytes |->
          LET k == i % w
          IN IF count >= 8 * w THEN fill(i)
             ELSE IF insn.op = "psll"
             THEN ((at(i, k - whole) * 2 ^ part) % 256)
                    + at(i, k - whole - 1) \div 2 ^ (8 - part)
             ELSE at(i, k + whole) \div 2 ^ part
                    + ((at(i, k + whole + 1) * 2 ^ (8 - part)) % 256)]

handle_shift(m, insn) ==
    LET size == vector_reg_size(insn.op1.reg)
        count == resolve_shift_count(m, IF has_third(insn) THEN insn.op3 ELSE insn.op2)
    IN IF size = 0 THEN m
       ELSE write_operand(m, insn.op1, perform_shift(insn, lhs(m, insn, size), count), size)

perform_pshufb_16(src, mask, first) ==
    [i \in first .. first + 15 |->
        IF and(mask[i], 128) # 0 THEN 0 ELSE src[first + and(mask[i], 15)]]

\* One shuffle of all 32 bytes from the low half.
Mut_Pshufb(src, mask, size) ==
    [i \in Bytes |-> IF mask[i] >= 128 THEN 0 ELSE src[mask[i] % 16]]

Pshufb(src, mask, size) ==
    LET low == perform_pshufb_16(src, mask, 0)
        high == perform_pshufb_16(src, mask, 16)
    IN [i \in Bytes |-> IF i < 16 THEN low[i] ELSE IF size = 32 THEN high[i] ELSE 0]

handle_pshufb(m, insn) ==
    LET size == vector_reg_size(insn.op1.reg)
    IN IF size = 0 THEN m
       ELSE write_operand(m, insn.op1,
                          Pshufb(lhs(m, insn, size), rhs(m, insn, size), size), size)

handle_aes(m, insn) ==
    LET state == read_operand(m, IF insn.vex THEN insn.op2 ELSE insn.op1, 16)
        key == read_operand(m, IF insn.vex THEN insn.op3 ELSE insn.op2, 16)
        source == read_operand(m, insn.op2, 16)
        result ==
            CASE insn.op = "aesenc" -> aesenc(state, key)
              [] insn.op = "aesenclast" -> aesenclast(state, key)
              [] insn.op = "aesdec" -> aesdec(state, key)
              [] insn.op = "aesdeclast" -> aesdeclast(state, key)
              [] insn.op = "aesimc" -> aesimc(source)
              [] insn.op = "aeskeygenassist" -> aeskeygenassist(source, insn.op3.addr)
    IN write_operand(m, insn.op1, Buffer(result, 16), 16)

handle_vzeroupper(m) == [m EXCEPT !.vec = [n \in DOMAIN @ |-> Buffer(@[n], 16)]]

BitwiseOps == {"pxor", "pand", "por", "pandn"}
ArithmeticOps == {"padd", "psub", "pmull"}
ShiftOps == {"psll", "psrl", "psra"}
AesOps == {"aesenc", "aesenclast", "aesdec", "aesdeclast", "aesimc", "aeskeygenassist"}

handle(m, insn) ==
    CASE insn.op \in {"mov", "movd", "movq"} -> handle_move(m, insn)
      [] insn.op \in BitwiseOps -> handle_bitwise(m, insn)
      [] insn.op \in ArithmeticOps -> handle_arithmetic(m, insn)
      [] insn.op \in ShiftOps -> handle_shift(m, insn)
      [] insn.op = "pshufb" -> handle_pshufb(m, insn)
      [] insn.op \in AesOps -> handle_aes(m, insn)
      [] insn.op = "vzeroupper" -> handle_vzeroupper(m)

-----------------------------------------------------------------------------
(* The processor, by the manual: operands found and results stored as it   *)
(* says; logic and shifts bit by bit, sums and differences lane by lane    *)
(* without a carry or borrow that is passed on, products of signed words,  *)
(* shuffles by the bytes of the mask, AES by its definition (Aes).         *)

Vectors == (64 .. 79) \cup (81 .. 96)
IsVector(op) == op.type = "reg" /\ op.reg \in Vectors
InMemory(op) == op.type \in {"mem", "displ", "phrase"}
Wide(insn) == \E op \in {insn.op1, insn.op2} : op.type = "reg" /\ op.reg \in 81 .. 96
Width(insn) ==
    CASE insn.op = "movd" -> 4
      [] insn.op = "movq" -> 8
      [] insn.op \notin {"movd", "movq"} -> IF Wide(insn) THEN 32 ELSE 16

\* An absolute operand ("mem") has no base register.
Location(m, op) == op.addr + (IF op.type = "mem" THEN 0 ELSE address(m.gpr[op.reg]))
Source(m, op, n) ==
    CASE InMemory(op) -> Buffer([i \in 0 .. n - 1 |-> m.mem[Location(m, op) + i]], n)
      [] IsVector(op) -> Buffer(m.vec[(op.reg - 64) % 17], n)
      [] op.type = "reg" /\ ~IsVector(op) -> Buffer(m.gpr[op.reg], n)
      [] op.type = "imm" -> [Zeros EXCEPT ![0] = op.addr]

\* A v-form clears what lies above the value in its register, a legacy form only what
\* lies above it in the low half.
Stored(m, insn, value, n) ==
    LET op == insn.op1
    IN CASE InMemory(op) ->
              [m EXCEPT !.mem = [a \in DOMAIN @ |->
                                    IF a - Location(m, op) \in 0 .. n - 1
                                    THEN value[a - Location(m, op)] ELSE @[a]]]
         [] IsVector(op) ->
              [m EXCEPT !.vec[(op.reg - 64) % 17] =
                  Over(Buffer(value, n), IF insn.vex \/ n = 32 THEN 32 ELSE 16, @)]
         [] op.type = "reg" /\ ~IsVector(op) ->
              [m EXCEPT !.gpr[op.reg] = [i \in 0 .. 7 |-> Buffer(value, n)[i]]]

Bit(v, k) == (v[k \div 8] \div 2 ^ (k % 8)) % 2
FromBits(bit(_)) ==
    [i \in Bytes |->
        bit(8 * i) + 2 * bit(8 * i + 1) + 4 * bit(8 * i + 2) + 8 * bit(8 * i + 3)
          + 16 * bit(8 * i + 4) + 32 * bit(8 * i + 5) + 64 * bit(8 * i + 6)
          + 128 * bit(8 * i + 7)]
\* Each bit of the result, from the bits of the operands.
Truth(op, x, y) ==
    CASE op = "pxor" -> (x + y) % 2
      [] op = "pand" -> x * y
      [] op = "por" -> IF x = 1 THEN 1 ELSE y
      [] op = "pandn" -> IF x = 1 THEN 0 ELSE y
BitByBit(op, a, b) == FromBits(LAMBDA k : Truth(op, Bit(a, k), Bit(b, k)))

\* The bytes first .. i - 1 of x are the larger number: the highest that differs decides.
Exceeds(x, y, first, i) ==
    \E j \in first .. i - 1 : x[j] > y[j] /\ \A k \in j + 1 .. i - 1 : x[k] = y[k]
\* A lane's sum goes over its lower bytes, a + b > 255 .. 255, when a is more than what b
\* leaves free in them; its difference borrows there when b is more than a.
LaneSum(w, a, b) ==
    [i \in Bytes |->
        (a[i] + b[i] + (IF Exceeds(a, [k \in Bytes |-> 255 - b[k]], i - (i % w), i)
                        THEN 1 ELSE 0)) % 256]
LaneDifference(w, a, b) ==
    [i \in Bytes |-> (a[i] - b[i] - (IF Exceeds(b, a, i - (i % w), i) THEN 1 ELSE 0)) % 256]
\* The low word of the product of two signed words.
Signed(v, k) == v[k] + 256 * v[k + 1] - (IF v[k + 1] >= 128 THEN 65536 ELSE 0)
LaneProduct(a, b) ==
    [i \in Bytes |-> LET k == i - (i % 2)
                         low == (Signed(a, k) * Signed(b, k)) % 65536
                     IN IF i = k THEN low % 256 ELSE low \div 256]

Shifted(op, bits, v, count) ==
    FromBits(LAMBDA k :
        LET from == IF op = "psll" THEN k - count ELSE k + count
            lane == k - (k % bits)
        IN IF from \in lane .. lane + bits - 1 THEN Bit(v, from)
           ELSE IF op = "psra" THEN Bit(v, lane + bits - 1) ELSE 0)
Shuffled(v, mask) ==
    [i \in Bytes |-> IF mask[i] >= 128 THEN 0 ELSE v[(16 * (i \div 16)) + (mask[i] % 16)]]

Meaning(m, insn) ==
    LET n == Width(insn)
        last == IF insn.op3.type = "void" THEN insn.op2 ELSE insn.op3
        a == Source(m, IF insn.op3.type = "void" THEN insn.op1 ELSE insn.op2, n)
        b == Source(m, last, n)
        value ==
            CASE insn.op \in {"mov", "movd", "movq"} -> b
              [] insn.op \in BitwiseOps -> BitByBit(insn.op, a, b)
              [] insn.op = "padd" -> LaneSum(insn.w, a, b)
              [] insn.op = "psub" -> LaneDifference(insn.w, a, b)
              [] insn.op = "pmull" -> LaneProduct(a, b)
              [] insn.op \in ShiftOps ->
                   Shifted(insn.op, 8 * insn.w, a, Count(Source(m, last, 8)))
              [] insn.op = "pshufb" -> Shuffled(a, b)
              [] insn.op = "aesenc" -> ManualEnc(a, b)
              [] insn.op = "aesenclast" -> ManualEncLast(a, b)
              [] insn.op = "aesdec" -> ManualDec(a, b)
              [] insn.op = "aesdeclast" -> ManualDecLast(a, b)
              [] insn.op = "aesimc" -> Mixed(b, InvMixPoly)
              [] insn.op = "aeskeygenassist" -> ManualKeyGenAssist(a, insn.op3.addr)
    IN IF insn.op = "vzeroupper"
       THEN [m EXCEPT !.vec = [r \in DOMAIN @ |-> [i \in Bytes |->
                                  IF i < 16 THEN @[r][i] ELSE 0]]]
       ELSE Stored(m, insn, value, n)

-----------------------------------------------------------------------------
(* Forms for which the code is not what the manual says.                   *)

Operands(insn) == {insn.op1, insn.op2, insn.op3}
MemoryBytes(m, insn, op) ==
    Location(m, op) .. Location(m, op) + (IF insn.op \in ShiftOps THEN 16 ELSE Width(insn)) - 1

Deviates(m, insn) ==
    \* [reg] without a displacement is no memory operand for the code
    \/ \E op \in Operands(insn) : op.type = "phrase"
    \* uc_mem_read and uc_mem_write map no page, as the access of an instruction does
    \/ \E op \in Operands(insn) : InMemory(op) /\ ~(MemoryBytes(m, insn, op) \subseteq Mapped)
    \* the register field of an absolute operand is added to its address
    \/ \E op \in Operands(insn) : op.type = "mem" /\ is_gpr(op.reg) /\ address(m.gpr[op.reg]) # 0
    \* MMX registers are not known
    \/ \E op \in Operands(insn) : op.type = "reg" /\ op.reg \in 56 .. 63
    \* a vector register is not read as four or eight bytes: such a move does nothing ...
    \/ insn.op \in {"movd", "movq"} /\ IsVector(insn.op2)
    \* ... and a shift count in a register is zero
    \/ /\ insn.op \in ShiftOps
       /\ LET count == IF insn.op3.type = "void" THEN insn.op2 ELSE insn.op3
          IN IsVector(count) /\ Count(Source(m, count, 8)) # 0
    \* the upper half of a register stays when a v-form writes the lower half
    \/ /\ insn.vex /\ insn.op1.type = "reg" /\ insn.op1.reg \in 64 .. 79
       /\ \E i \in 16 .. 31 : m.vec[insn.op1.reg - 64][i] # 0
    \* a YMM register is not read as 16 bytes: AES on one takes state and key as zeros
    \/ insn.op \in AesOps /\ Wide(insn)
    \* the rotation of aeskeygenassist goes the other way
    \/ insn.op = "aeskeygenassist"

-----------------------------------------------------------------------------
Init ==
    \E c \in Cases :
        /\ engine = c.machine /\ manual = c.machine
        /\ kind = c.kind /\ todo = c.program
        /\ steps = 0 /\ followed = TRUE

Execute(insn) ==
    /\ followed
    /\ engine' = handle(engine, insn)
    /\ \/ /\ Deviates(manual, insn)
          /\ followed' = FALSE
          /\ UNCHANGED manual
       \/ /\ ~Deviates(manual, insn)
          /\ manual' = Meaning(manual, insn)
          /\ UNCHANGED followed
    /\ UNCHANGED kind

Free ==
    /\ kind = "free" /\ steps < MaxSteps
    /\ \E insn \in Menu : Execute(insn)
    /\ steps' = steps + 1
    /\ UNCHANGED todo

Straight ==
    /\ todo # << >>
    /\ Execute(Head(todo))
    /\ todo' = Tail(todo)
    /\ UNCHANGED steps

Next == Free \/ Straight
Spec == Init /\ [][Next]_vars

-----------------------------------------------------------------------------
\* Registers and memory hold bytes: no lane's carry, product or shift leaves its byte.
TypeOK ==
    /\ engine \in Machines /\ manual \in Machines
    /\ kind \in {"free", "straight", "inverse"}
    /\ steps \in 0 .. MaxSteps /\ followed \in BOOLEAN

\* The handlers leave the engine's registers and memory as the processor would have left
\* them, over programs in which an instruction uses what others have stored: operands,
\* logic, carries and borrows inside a lane and none out of it, signed products, saturated
\* shifts, shuffles, AES rounds, and the halves a legacy form keeps and a 256-bit form
\* sets.  Only the forms of Deviates are left out: they end the comparison.
ManualFollowed == followed => engine = manual

\* A program that undoes what it did gives register 0 its value back, which register 1
\* still holds: a cipher and its equivalent inverse with the keys that aesimc makes,
\* opposite rotations, sums and differences, a store and a load.
InversesRestore ==
    kind = "inverse" /\ todo = << >> => followed /\ engine.vec[0] = engine.vec[1]
=============================================================================
