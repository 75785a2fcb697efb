----------------------------- MODULE MCEmulator -----------------------------
(***************************************************************************)
(* A small image for Emulator.  Function 1 has a two-sided branch, a       *)
(* loop that writes nested in a loop, a loop that writes nothing, calls    *)
(* through an import slot and through a thunk, an internal call with an    *)
(* indirect jump, and an instruction the snapshot does not hold.  Function *)
(* 27 never returns on its own: one side of its branch spins in code the   *)
(* snapshot holds, the other in code it does not hold.                     *)
(***************************************************************************)
EXTENDS Emulator, Plugin

Insn(t, sz, o, ad, s, w) ==
    [itype |-> t, size |-> sz, op |-> o, addr |-> ad, succ |-> s, wr |-> w]
Plain(a) == Insn("other", 1, "unknown", 0, {a + 1}, NoPage)

MCRaw ==
    [a \in 1 .. 33 |->
       CASE a = 1 -> Insn("jcc", 1, "near", 4, {}, NoPage)
         [] a = 2 -> Insn("other", 1, "unknown", 0, {3}, 10)
         [] a = 3 -> Insn("jmp", 1, "unknown", 0, {6, 9}, NoPage)
         [] a = 4 -> Insn("vec", 1, "unknown", 0, {}, 13)
         [] a = 5 -> Insn("call", 1, "mem", 101, {}, NoPage)
         [] a = 6 -> Insn("flag", 1, "unknown", 0, {7}, NoPage)
         [] a = 7 -> Insn("other", 4, "unknown", 0, {11}, 11)
         [] a = 11 -> Insn("jcc", 1, "near", 7, {}, NoPage)
         [] a = 12 -> Insn("jcc", 1, "near", 6, {}, NoPage)
         [] a = 14 -> Insn("jcc", 1, "near", 13, {}, NoPage)
         [] a = 15 -> Insn("call", 1, "near", 21, {}, NoPage)
         [] a = 16 -> Insn("call", 1, "near", 22, {}, NoPage)
         [] a = 17 -> Insn("skip", 1, "unknown", 0, {}, NoPage)
         [] a = 18 -> Insn("jcc", 1, "near", 20, {}, NoPage)
         [] a = 19 -> Insn("other", 1, "unknown", 0, {20}, 12)
         [] a = 20 -> Insn("ret", 1, "unknown", 0, {0}, NoPage)
         [] a = 21 -> Insn("jmp", 1, "mem", 102, {}, NoPage)
         [] a = 22 -> Insn("jmp", 1, "displ", 103, {}, NoPage)
         [] a = 23 -> Insn("call", 1, "unknown", 0, {24, 32}, NoPage)
         [] a = 24 -> Insn("ret", 1, "unknown", 0, {17}, NoPage)
         [] a = 27 -> Insn("jcc", 1, "near", 29, {}, NoPage)
         [] a = 28 -> Insn("other", 1, "unknown", 0, {28, 30}, NoPage)
         [] a = 29 -> Insn("jmp", 1, "near", 29, {}, NoPage)
         [] a = 30 -> Insn("other", 1, "unknown", 0, {27}, 12)
         [] a = 32 -> Insn("ret", 1, "unknown", 0, {0}, NoPage)
         [] OTHER -> Plain(a)]

\* The bytes of 19 and 28 are instructions only once the program has decrypted them, and 9
\* is code inside the four bytes of 7, so the sweep finds none of them; 32 is code on a
\* page outside the image.
MCDecodes == [a \in 1 .. 30 |-> IF a \in {19, 25, 26, 28} THEN 0 ELSE MCRaw[a].size]

\* Import slots hold what the loader left there, never their own address.
MCPointer == [s \in {101, 102, 103} |-> IF s = 103 THEN 23 ELSE 300]
MCImports == [s \in {101, 102} |-> IF s = 101 THEN "memcpy" ELSE "memset"]
MCStubPage == [n \in {"memcpy", "memset"} |-> IF n = "memcpy" THEN 10 ELSE 14]
MCFunctions == {[start_ea |-> 1, end_ea |-> 21], [start_ea |-> 21, end_ea |-> 22],
                [start_ea |-> 22, end_ea |-> 25], [start_ea |-> 27, end_ea |-> 31]}
MCFuncStarts == {f.start_ea : f \in MCFunctions}

\* The entry point is function 27.
Database(cursor) ==
    [x86_64 |-> TRUE, min_ea |-> 1, max_ea |-> 31, readable |-> 30, BADADDR |-> 99,
     screen_ea |-> cursor, start_ea |-> 27, functions |-> MCFunctions]

\* Of another processor, without a range, with an empty one, with nothing to read.
Unusable ==
    {[Database(1) EXCEPT !.x86_64 = FALSE], [Database(1) EXCEPT !.max_ea = 99],
     [Database(1) EXCEPT !.max_ea = 1], [Database(1) EXCEPT !.readable = 0]}

Form(scope, time, instr, loops, features) ==
    [ok |-> TRUE, scope_val |-> scope, scan_val |-> features \div 2, max_time |-> time, max_instr |-> instr,
     max_loops |-> loops, features |-> features]

\* The function at 8 with no limit but the one on loops; code inside an instruction, at the
\* cursor; the entry point under the other limits; no function at 26; every function.
\* 3 ms in microseconds, modulo 6, are none; the bonus of a loop of limit 5 would go
\* beyond MaxU64.  Features: 1 heap stubs, 2 write tracking.
MCConfigs ==
    run(Database(8), Form(0, 0, 0, 2, 3), FALSE)
    \cup run(Database(8), Form(0, 0, 0, 1, 1), FALSE)
    \cup run(Database(8), Form(0, 0, 0, 1, 0), TRUE)
    \cup run(Database(9), Form(2, 0, 7, 0, 2), FALSE)
    \cup run(Database(26), Form(0, 0, 0, 0, 0), FALSE)
    \cup run(Database(1), [Form(3, 0, 0, 0, 3) EXCEPT !.ok = FALSE], FALSE)
    \cup run(Database(1), Form(3, 1, 0, 0, 2), FALSE)
    \cup run(Database(1), Form(3, 3, 0, 0, 2), FALSE)
    \cup run(Database(7), Form(2, 0, 0, 5, 0), FALSE)
    \cup UNION {run(db, Form(3, 0, 3, 0, 0), FALSE) : db \in Unusable}
    \cup UNION {run(Database(s), Form(2, 0, n, 0, 2), FALSE) : s \in {1, 27}, n \in {3, 7}}
    \cup UNION {run(Database(1), Form(1, 0, n, 0, 2), FALSE) : n \in {3, 12}}
    \cup {c \in run(Database(1), Form(1, 0, 0, 0, 0), FALSE) : c.start = 27}
=============================================================================
