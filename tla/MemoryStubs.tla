---------------------------- MODULE MemoryStubs ----------------------------
(***************************************************************************)
(* api_stubs.hpp: what the stubs of memory and string functions do to the  *)
(* engine's memory and to RAX, and what the C library and Win32 promise    *)
(* for the same call.  Memory is a function from mapped addresses to       *)
(* bytes; characters are c bytes wide, 1 or 2.                             *)
(***************************************************************************)
EXTENDS Integers, Sequences, FiniteSetsExt

CONSTANT max_buffer     \* 0x100000

ASSUME StubAssumption == max_buffer \in Nat

\* RAX where a stub does not write it.
Kept == -1

\* The handle of GetProcessHeap: 0xBEEF0000.
fake_handle == 3

Has(m, a, n) == a .. (a + n - 1) \subseteq DOMAIN m

\* uc_mem_read and uc_mem_write: the whole range or, if part of it is unmapped, nothing.
uc_mem_read(m, a, n) == [i \in 0 .. n - 1 |-> m[a + i]]
uc_mem_write(m, a, data, n) ==
    IF Has(m, a, n)
    THEN [x \in DOMAIN m |-> IF x \in a .. a + n - 1 THEN data[x - a] ELSE m[x]]
    ELSE m

Zero(n) == [i \in 0 .. n - 1 |-> 0]
IsNul(m, c, a) == uc_mem_read(m, a, c) = Zero(c)
Done(m, ret) == [mem |-> m, ret |-> ret]

CountOk(count) == count > 0 /\ count <= max_buffer

-----------------------------------------------------------------------------
(* The stubs.  g is the sequence of the values of RCX, RDX, R8 and R9.     *)

stub_memcpy(m, g) ==
    Done(IF CountOk(g[3]) /\ Has(m, g[2], g[3])
         THEN uc_mem_write(m, g[1], uc_mem_read(m, g[2], g[3]), g[3]) ELSE m,
         g[1])

Fill(m, dest, fill, count) ==
    IF CountOk(count)
    THEN uc_mem_write(m, dest, [i \in 0 .. count - 1 |-> fill % 256], count) ELSE m

stub_memset(m, g) == Done(Fill(m, g[1], g[2], g[3]), g[1])
stub_rtl_zero_memory(m, g) == Done(Fill(m, g[1], 0, g[2]), Kept)
stub_rtl_fill_memory(m, g) == Done(Fill(m, g[1], g[3], g[2]), Kept)

\* Results of memcmp are told apart by their sign: 1, 0 or, as 64 bits, 2^64 - 1.
Negative == 2
stub_memcmp(m, g) ==
    LET a == uc_mem_read(m, g[1], g[3])
        b == uc_mem_read(m, g[2], g[3])
        first == Min({i \in DOMAIN a : a[i] # b[i]})
    IN Done(m, IF ~CountOk(g[3]) \/ ~Has(m, g[1], g[3]) \/ ~Has(m, g[2], g[3]) \/ a = b THEN 0
               ELSE IF a[first] < b[first] THEN Negative ELSE 1)

\* Characters up to a NUL, the end of the mapped bytes or max_buffer.
length(m, c, str) ==
    Min({i \in 0 .. max_buffer :
            i = max_buffer \/ ~Has(m, str + i * c, c) \/ IsNul(m, c, str + i * c)})

stub_strlen(m, g) == Done(m, length(m, 1, g[1]))
stub_wcslen(m, g) == Done(m, length(m, 2, g[1]))

\* One turn of the loop that copies up to and including a NUL: what it reads may be what
\* it has written.
copy_turn(p, c, to, from) ==
    IF p.stop \/ ~Has(p.mem, from, c) THEN [p EXCEPT !.stop = TRUE]
    ELSE [mem |-> uc_mem_write(p.mem, to, uc_mem_read(p.mem, from, c), c),
          stop |-> IsNul(p.mem, c, from)]

\* What the loop has done after each turn, and at most limit turns of it.
copying(m, c, dest, src, limit) ==
    LET after[i \in 0 .. limit] ==
            IF i = 0 THEN [mem |-> m, stop |-> FALSE]
            ELSE copy_turn(after[i - 1], c, dest + (i - 1) * c, src + (i - 1) * c)
    IN after

copy(m, c, dest, src, limit) == copying(m, c, dest, src, limit)[limit].mem

stub_strcpy(m, g) == Done(copy(m, 1, g[1], g[2], max_buffer), g[1])
stub_wcscpy(m, g) == Done(copy(m, 2, g[1], g[2], max_buffer), g[1])

Mut_concatenate(m, c, dest, src) ==
    copy(m, c, dest + length(m, c, dest) * c, src, max_buffer)

concatenate(m, c, dest, src) ==
    LET dest_len == length(m, c, dest)
    IN copy(m, c, dest + dest_len * c, src, max_buffer - dest_len)

stub_strcat(m, g) == Done(concatenate(m, 1, g[1], g[2]), g[1])
stub_wcscat(m, g) == Done(concatenate(m, 2, g[1], g[2]), g[1])

\* The loop of strncpy: characters up to a NUL, then NULs.
counted_turn(p, c, to, from) ==
    LET hit == p.hit_null \/ ~Has(p.mem, from, c) \/ IsNul(p.mem, c, from)
    IN [mem |-> uc_mem_write(p.mem, to, IF hit THEN Zero(c) ELSE uc_mem_read(p.mem, from, c), c),
        hit_null |-> hit]

copying_counted(m, c, dest, src, n) ==
    LET after[i \in 0 .. n] ==
            IF i = 0 THEN [mem |-> m, hit_null |-> FALSE]
            ELSE counted_turn(after[i - 1], c, dest + (i - 1) * c, src + (i - 1) * c)
    IN after

copy_counted(m, c, dest, src, count) ==
    LET n == IF count > max_buffer THEN max_buffer ELSE count
    IN copying_counted(m, c, dest, src, n)[n].mem

stub_strncpy(m, g) == Done(copy_counted(m, 1, g[1], g[2], g[3]), g[1])
stub_wcsncpy(m, g) == Done(copy_counted(m, 2, g[1], g[2], g[3]), g[1])

stub_free(m, g) == Done(m, 0)
stub_get_process_heap(m, g) == Done(m, fake_handle)

Stubs ==
    {"memcpy", "memmove", "RtlMoveMemory", "memset", "memcmp", "strlen", "lstrlenA", "wcslen",
     "lstrlenW", "strcpy", "lstrcpyA", "strncpy", "lstrcpynA", "wcscpy", "lstrcpyW", "wcsncpy",
     "lstrcpynW", "strcat", "wcscat", "RtlZeroMemory", "RtlFillMemory", "free", "HeapFree",
     "VirtualFree", "LocalFree", "GlobalFree", "GetProcessHeap"}

stub_table(name, m, g) ==
    CASE name \in {"memcpy", "memmove", "RtlMoveMemory"} -> stub_memcpy(m, g)
      [] name = "memset" -> stub_memset(m, g)
      [] name = "memcmp" -> stub_memcmp(m, g)
      [] name \in {"strlen", "lstrlenA"} -> stub_strlen(m, g)
      [] name \in {"wcslen", "lstrlenW"} -> stub_wcslen(m, g)
      [] name \in {"strcpy", "lstrcpyA"} -> stub_strcpy(m, g)
      [] name \in {"strncpy", "lstrcpynA"} -> stub_strncpy(m, g)
      [] name \in {"wcscpy", "lstrcpyW"} -> stub_wcscpy(m, g)
      [] name \in {"wcsncpy", "lstrcpynW"} -> stub_wcsncpy(m, g)
      [] name = "strcat" -> stub_strcat(m, g)
      [] name = "wcscat" -> stub_wcscat(m, g)
      [] name = "RtlZeroMemory" -> stub_rtl_zero_memory(m, g)
      [] name = "RtlFillMemory" -> stub_rtl_fill_memory(m, g)
      [] name = "GetProcessHeap" -> stub_get_process_heap(m, g)
      [] OTHER -> stub_free(m, g)

\* A name of an import is the sequence of its parts between underscores: _malloc is
\* <<"", "malloc">>.  The parts without the leading empty ones, and the last part:
stripped(name) == LET first == Min({i \in DOMAIN name : name[i] # ""} \cup {Len(name) + 1})
                  IN SubSeq(name, first, Len(name))

Mut_find_stub(name) == {p \in {name, stripped(name)} : Len(p) = 1 /\ p[1] \in Stubs}

\* try_dispatch: the name, the name without leading underscores, then what follows the
\* last underscore.  At most one of the three names a stub.
find_stub(name) ==
    {p \in {name, stripped(name), <<name[Len(name)]>>} : Len(p) = 1 /\ p[1] \in Stubs}

-----------------------------------------------------------------------------
(* What the C library and Win32 promise, for the calls they define.        *)

Width(name) == IF name \in {"wcslen", "lstrlenW", "wcscpy", "lstrcpyW", "wcsncpy", "lstrcpynW",
                            "wcscat"} THEN 2 ELSE 1

\* The string at a of m has n characters and a NUL.
StringAt(m, c, a, n) ==
    /\ Has(m, a, (n + 1) * c)
    /\ IsNul(m, c, a + n * c)
    /\ \A i \in 0 .. n - 1 : ~IsNul(m, c, a + i * c)

Lengths(m, c, a) == {n \in 0 .. max_buffer : StringAt(m, c, a, n)}
StrLen(m, c, a) == CHOOSE n \in Lengths(m, c, a) : TRUE

Apart(a, n, b, k) == a + n <= b \/ b + k <= a

\* Calls whose arguments the library allows and whose objects are within max_buffer.
LibDefined(name, m, g) ==
    LET c == Width(name)
    IN CASE name \in {"memcpy", "memmove", "RtlMoveMemory"} ->
              /\ g[3] <= max_buffer /\ Has(m, g[1], g[3]) /\ Has(m, g[2], g[3])
              /\ name = "memcpy" => Apart(g[1], g[3], g[2], g[3])
         [] name = "memset" -> g[3] <= max_buffer /\ Has(m, g[1], g[3])
         [] name \in {"RtlZeroMemory", "RtlFillMemory"} -> g[2] <= max_buffer /\ Has(m, g[1], g[2])
         [] name = "memcmp" -> g[3] <= max_buffer /\ Has(m, g[1], g[3]) /\ Has(m, g[2], g[3])
         [] name \in {"strlen", "wcslen", "lstrlenA", "lstrlenW"} -> Lengths(m, c, g[1]) # {}
         [] name \in {"strcpy", "wcscpy", "lstrcpyA", "lstrcpyW"} ->
              /\ Lengths(m, c, g[2]) # {}
              /\ LET size == (StrLen(m, c, g[2]) + 1) * c
                 IN /\ size <= max_buffer * c
                    /\ Has(m, g[1], size) /\ Apart(g[1], size, g[2], size)
         [] name \in {"strncpy", "wcsncpy"} ->
              /\ g[3] <= max_buffer /\ Has(m, g[1], g[3] * c)
              /\ Has(m, g[2], g[3] * c) \/ Lengths(m, c, g[2]) # {}
              /\ Apart(g[1], g[3] * c, g[2], g[3] * c)
         \* lstrcpyn neither pads nor leaves out the NUL: strncpy does the same only here.
         [] name \in {"lstrcpynA", "lstrcpynW"} ->
              /\ g[3] <= max_buffer /\ Has(m, g[1], g[3] * c)
              /\ Lengths(m, c, g[2]) = {g[3] - 1}
              /\ Apart(g[1], g[3] * c, g[2], g[3] * c)
         [] name \in {"strcat", "wcscat"} ->
              /\ Lengths(m, c, g[1]) # {} /\ Lengths(m, c, g[2]) # {}
              /\ LET all == StrLen(m, c, g[1]) + StrLen(m, c, g[2]) + 1
                 IN /\ all <= max_buffer /\ Has(m, g[1], all * c)
                    /\ Apart(g[1], all * c, g[2], (StrLen(m, c, g[2]) + 1) * c)
         [] OTHER -> FALSE

\* The bytes that are at dest after the call: a function from 0 .. its length - 1.
LibBytes(name, m, g) ==
    LET c == Width(name)
        n == StrLen(m, c, g[2])
    IN CASE name \in {"memcpy", "memmove", "RtlMoveMemory"} -> uc_mem_read(m, g[2], g[3])
         [] name = "memset" -> [i \in 0 .. g[3] - 1 |-> g[2] % 256]
         [] name = "RtlZeroMemory" -> Zero(g[2])
         [] name = "RtlFillMemory" -> [i \in 0 .. g[2] - 1 |-> g[3] % 256]
         [] name \in {"strcpy", "wcscpy", "lstrcpyA", "lstrcpyW", "lstrcpynA", "lstrcpynW"} ->
              uc_mem_read(m, g[2], (n + 1) * c)
         [] name \in {"strncpy", "wcsncpy"} ->
              [i \in 0 .. g[3] * c - 1 |->
                  IF \E nul \in Lengths(m, c, g[2]) : i \div c >= nul THEN 0 ELSE m[g[2] + i]]
         [] name \in {"strcat", "wcscat"} ->
              LET old == StrLen(m, c, g[1]) * c
              IN [i \in 0 .. old + (n + 1) * c - 1 |->
                     IF i < old THEN m[g[1] + i] ELSE m[g[2] + i - old]]
         [] OTHER -> Zero(0)

LibMem(name, m, g) ==
    LET bytes == LibBytes(name, m, g)
    IN [x \in DOMAIN m |-> IF x - g[1] \in DOMAIN bytes THEN bytes[x - g[1]] ELSE m[x]]

\* The sign of memcmp is that of the first difference.
FirstDifference(m, g, i) ==
    /\ i \in 0 .. g[3] - 1 /\ m[g[1] + i] # m[g[2] + i]
    /\ \A j \in 0 .. i - 1 : m[g[1] + j] = m[g[2] + j]

LibReturns(name, m, g, ret) ==
    CASE name \in {"strlen", "wcslen", "lstrlenA", "lstrlenW"} -> ret = StrLen(m, Width(name), g[1])
      [] name = "memcmp" ->
           \/ ret = 0 /\ \A i \in 0 .. g[3] - 1 : m[g[1] + i] = m[g[2] + i]
           \/ \E i \in 0 .. g[3] - 1 :
                 /\ FirstDifference(m, g, i)
                 /\ ret = IF m[g[1] + i] < m[g[2] + i] THEN Negative ELSE 1
      [] name \in {"RtlZeroMemory", "RtlFillMemory", "RtlMoveMemory"} -> TRUE
      [] OTHER -> ret = g[1]
=============================================================================
