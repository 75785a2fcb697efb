-------------------------- MODULE StringCollection --------------------------
(***************************************************************************)
(* How strings reach the list: the scans of hook_code, handle_call and     *)
(* run, over memory that the program's stores and the stubs change.  With  *)
(* write tracking the dirty pages are read at calls, at returns, after a   *)
(* stubbed call and at the end of a slice; without it the stack, and if    *)
(* asked the bytes that registers point to, before every instruction that  *)
(* is not a mov, xor, push or pop.                                         *)
(***************************************************************************)
EXTENDS MemoryStubs, StringScan, FiniteSets

CONSTANTS page_size, register_scan_size, max_scan, max_region_scan,
          stack_begin,    \* stack_base - stack_size
          stack_base,
          Image,          \* the mapped bytes at the start of a run
          StoreMenu,      \* <<address, bytes>> of the program's stores
          RspMenu,        \* values of RSP
          CallMenu,       \* <<name, arguments>> of calls to the thunk of an import
          JumpMenu,       \* the same of jumps that leave the image for an import
          Settings,       \* [tracking, registers, stubs: BOOLEAN]
          MaxSteps

ASSUME CollectionAssumption ==
    /\ page_size \in Nat \ {0} /\ register_scan_size \in Nat
    /\ max_scan \in Nat /\ max_region_scan \in Nat /\ MaxSteps \in Nat
    /\ stack_begin \in Nat /\ stack_base \in Nat
    /\ stack_begin .. stack_base - 1 \subseteq DOMAIN Image
    /\ DOMAIN Image \subseteq Nat /\ Image \in [DOMAIN Image -> 0 .. 255]
    /\ \A s \in StoreMenu : /\ s[1] \in Nat /\ IsFiniteSet(DOMAIN s[2])
                            /\ s[2] \in [0 .. Cardinality(DOMAIN s[2]) - 1 -> 0 .. 255]
    /\ RspMenu \subseteq Nat
    /\ \A c \in CallMenu \cup JumpMenu :
           c[1] \in Seq(STRING) \ {<<>>} /\ c[2] \in [1 .. 3 -> Nat]
    /\ Settings \subseteq [tracking : BOOLEAN, registers : BOOLEAN, stubs : BOOLEAN]

VARIABLES
    setting,      \* enable_write_tracking_, scan_register_strings_, enable_heap_stubs_
    mem,          \* mapped memory
    dirty_pages,  \* write_tracker_.dirty_pages_
    regs,         \* <<RAX, RCX, RDX, R8>>
    rsp,
    string_list_,
    \* history
    instr,        \* the instruction executed last, and its operands
    steps

vars == <<setting, mem, dirty_pages, regs, rsp, string_list_, instr, steps>>

page_of(a) == a - (a % page_size)

-----------------------------------------------------------------------------
(* The scans.  Each returns the list it leaves.                            *)

\* uc_mem_read into a buffer, and the scan of it; nothing if part of it is unmapped.
scan_memory(list, m, start, n) ==
    IF Has(m, start, n) THEN scan_buffer_for_strings(list, start, uc_mem_read(m, start, n), n)
    ELSE list

dump_stack_strings(list, m) ==
    IF rsp < stack_begin \/ rsp >= stack_base THEN list
    ELSE LET n == Min({stack_base - rsp, max_scan})
         IN scan_buffer_for_strings(list, rsp, uc_mem_read(m, rsp, n), n)

\* The registers in the order of gpr_registers, without RSP.
dumping_registers(list, m, r) ==
    LET scanned == {i \in DOMAIN r : r[i] # 0 /\ \A j \in 1 .. i - 1 : r[j] # r[i]}
        after[i \in 0 .. 4] ==
            IF i = 0 THEN list
            ELSE IF i \in scanned THEN scan_memory(after[i - 1], m, r[i], register_scan_size)
            ELSE after[i - 1]
    IN after

dump_register_strings(list, m, r) == dumping_registers(list, m, r)[4]

Mut_region_size(p) == page_size

\* Neighbouring dirty pages are one region (PageMemory has the loop that merges them).
region_starts == {p \in dirty_pages : p - page_size \notin dirty_pages}
region_size(p) == Min({n \in page_size .. (Cardinality(dirty_pages) * page_size) :
                          n % page_size = 0 /\ p + n \notin dirty_pages})

\* The regions in ascending order.
dumping_regions(list, m) ==
    LET start(n) == CHOOSE p \in region_starts :
                        Cardinality({q \in region_starts : q < p}) = n - 1
        after[n \in 0 .. Cardinality(region_starts)] ==
            IF n = 0 THEN list
            ELSE scan_memory(after[n - 1], m, start(n), Min({region_size(start(n)), max_region_scan}))
    IN after

dump_tracked_writes(list, m) == dumping_regions(list, m)[Cardinality(region_starts)]

Mut_scan_before(is_call_or_ret, should_dump, r) ==
    IF setting.tracking
    THEN IF is_call_or_ret THEN dump_tracked_writes(string_list_, mem) ELSE string_list_
    ELSE IF ~should_dump THEN string_list_
    ELSE IF setting.registers THEN dump_register_strings(string_list_, mem, r)
    ELSE dump_stack_strings(string_list_, mem)

\* hook_code, before the instruction executes.
scan_before(is_call_or_ret, should_dump, r) ==
    IF setting.tracking
    THEN IF is_call_or_ret THEN dump_tracked_writes(string_list_, mem) ELSE string_list_
    ELSE IF ~should_dump THEN string_list_
    ELSE LET stack == dump_stack_strings(string_list_, mem)
         IN IF setting.registers THEN dump_register_strings(stack, mem, r) ELSE stack

-----------------------------------------------------------------------------

Init ==
    /\ setting \in Settings
    /\ mem = Image
    /\ dirty_pages = {}
    /\ regs = <<8192, 8192, 8192, 8192>>
    /\ rsp \in RspMenu
    /\ string_list_ = {}
    /\ instr = <<"none">>
    /\ steps = 0

\* The engine has not stopped at a store it could not make.
Running == instr[1] # "fault"

\* A mov: hook_mem_write marks its pages when tracking is on, then the engine writes.  Where
\* nothing is mapped and map_fault_region refuses (PageMemory has the pages it maps), the
\* marks stay although the store is not made, and the engine stops.
Store(a, bytes) ==
    LET n == Cardinality(DOMAIN bytes)
    IN /\ Running
       /\ mem' = uc_mem_write(mem, a, bytes, n)
       /\ dirty_pages' = IF setting.tracking
                         THEN dirty_pages \cup {page_of(x) : x \in a .. a + n - 1}
                         ELSE dirty_pages
       /\ string_list_' = scan_before(FALSE, FALSE, regs)
       /\ instr' = IF Has(mem, a, n) THEN <<"mov">> ELSE <<"fault">>
       /\ UNCHANGED <<regs, rsp>>

\* An instruction that is not a mov, xor, push or pop, and moves RSP.
MoveStack(to) ==
    /\ Running
    /\ string_list_' = scan_before(FALSE, TRUE, regs)
    /\ rsp' = to
    /\ instr' = <<"sub">>
    /\ UNCHANGED <<mem, dirty_pages, regs>>

\* ret inside the program.
Ret ==
    /\ Running
    /\ string_list_' = scan_before(TRUE, TRUE, regs)
    /\ instr' = <<"ret">>
    /\ UNCHANGED <<mem, dirty_pages, regs, rsp>>

\* RAX as it was, and the arguments, which movs load and no scan sees.
Loaded(g) == <<regs[1], g[1], g[2], g[3]>>

\* handle_call: the call runs the stub of the import, or returns 0.
ExternalCall(name, g) ==
    LET r == Loaded(g)
        before == scan_before(TRUE, TRUE, r)
        stubs == IF setting.stubs THEN find_stub(name) ELSE {}
        done == IF stubs = {} THEN Done(mem, 0) ELSE stub_table((CHOOSE p \in stubs : TRUE)[1], mem, g)
    IN /\ Running
       /\ mem' = done.mem
       /\ regs' = IF done.ret = Kept THEN r ELSE [r EXCEPT ![1] = done.ret]
       /\ string_list_' = IF setting.tracking THEN dump_tracked_writes(before, done.mem) ELSE before
       /\ instr' = <<"call", name, g>>
       /\ UNCHANGED <<dirty_pages, rsp>>

\* A jmp to an import is no call: handle_call returns at once, and the engine follows it.
JumpToImport(name, g) ==
    /\ Running
    /\ string_list_' = scan_before(FALSE, TRUE, Loaded(g))
    /\ regs' = Loaded(g)
    /\ instr' = <<"jmp", name, g>>
    /\ UNCHANGED <<mem, dirty_pages, rsp>>

\* The next branch would find what this one wrote already overwritten.
Mut_EndSlice ==
    /\ string_list_' = string_list_
    /\ instr' = <<"end">>
    /\ UNCHANGED <<mem, dirty_pages, regs, rsp>>

\* uc_emu_start returned: with write tracking run scans once more.  It then takes the next
\* branch, here of the same program.
EndSlice ==
    /\ string_list_' = IF setting.tracking THEN dump_tracked_writes(string_list_, mem)
                       ELSE string_list_
    /\ instr' = <<"end">>
    /\ UNCHANGED <<mem, dirty_pages, regs, rsp>>

Next ==
    /\ steps < MaxSteps
    /\ steps' = steps + 1
    /\ UNCHANGED setting
    /\ \/ \E s \in StoreMenu : Store(s[1], s[2])
       \/ \E to \in RspMenu : MoveStack(to)
       \/ Ret
       \/ \E c \in CallMenu : ExternalCall(c[1], c[2])
       \/ \E c \in JumpMenu : JumpToImport(c[1], c[2])
       \/ EndSlice

Spec == Init /\ [][Next]_vars

-----------------------------------------------------------------------------

\* Type invariant: bytes stay bytes on the mapped addresses, dirty pages are pages and only
\* marked when writes are tracked, and every entry of the list is a nonempty trimmed string without control
\* characters, listed once.
TypeOK ==
    /\ setting \in Settings
    /\ DOMAIN mem = DOMAIN Image /\ \A a \in DOMAIN mem : mem[a] \in 0 .. 255
    /\ \A p \in dirty_pages : p % page_size = 0
    /\ ~setting.tracking => dirty_pages = {}
    /\ DOMAIN regs = 1 .. 4 /\ rsp \in RspMenu
    /\ \A e \in string_list_ :
          /\ e.data # <<>> /\ trim(e.data) = e.data
          /\ \A k \in DOMAIN e.data : e.data[k] \in 32 .. 126
          /\ \A f \in string_list_ : e.data = f.data => e = f

Listed(list, m, p, len) ==
    \/ Shown(m, p, len) = <<>>
    \/ \E e \in list : e.data = Shown(m, p, len)

\* Every string of m from start on whose NUL is before end, with no printable byte before it.
AllListed(list, m, start, end) ==
    \A p \in start .. end - 1 : \A nul \in p + 4 .. end - 1 :
        IsString(m, p, nul - p) /\ (p = start \/ ~is_ascii_printable(m[p - 1]))
            => Listed(list, m, p, nul - p)

\* Nothing is listed that was not there: an entry added by a step is shown as a run of four
\* or more printable bytes, closed by a NUL, that memory holds at its address before or
\* after the step, and no entry is ever lost or listed again at another address.
ListedStringsExist ==
    [][/\ string_list_ \subseteq string_list_'
       /\ \A e \in string_list_' \ string_list_ :
             \E m \in {mem, mem'} : \E nul \in DOMAIN m :
                /\ IsString(m, e.ptr, nul - e.ptr)
                /\ Shown(m, e.ptr, nul - e.ptr) = e.data
       /\ \A e, f \in string_list_' : e.data = f.data => e = f]_vars

\* The bytes a string scan must have seen: of the run of dirty pages from the page p on,
\* the first max_region_scan.
RegionEnd(p) == p + Min({max_region_scan} \cup
                        {n \in 1 .. max_region_scan : page_of(p + n) \notin dirty_pages'})

\* With write tracking, after a call of an import, a return or the end of a slice, every
\* string that then lies in dirty pages, across their borders too, is in the list: also
\* those the stub has just written there.  Only a run of dirty pages with a byte in the scan's
\* window that is not mapped is lost as a whole.
TrackedStringsListed ==
    [][setting.tracking /\ steps' # steps /\ instr'[1] \in {"call", "ret", "end"} =>
         \A p \in dirty_pages' :
            p - page_size \notin dirty_pages'
            /\ p .. RegionEnd(p) - 1 \subseteq DOMAIN mem =>
               AllListed(string_list_', mem', p, RegionEnd(p))]_vars

\* Without write tracking, when an instruction that is not a mov is about to execute, the
\* strings of the used stack and, if asked, those that an argument points to, are in the
\* list; a call's stub then writes over them.
StackStringsListed ==
    [][~setting.tracking /\ steps' # steps /\ instr'[1] \in {"sub", "ret", "call", "jmp"} =>
         /\ rsp \in stack_begin .. stack_base - 1 =>
               AllListed(string_list_', mem, rsp, Min({stack_base, rsp + max_scan}))
         /\ setting.registers /\ Len(instr') = 3 =>
               \A k \in 1 .. 3 : LET p == instr'[3][k]
                                 IN p # 0 /\ Has(mem, p, register_scan_size) =>
                                    AllListed(string_list_', mem, p, p + register_scan_size)
       ]_vars

\* The call instr' of an import does to memory and returns what the library says,
\* if the library defines it.
AsTheLibrarySays ==
    LET name == instr'[2][Len(instr'[2])]
        g == instr'[3]
    IN LibDefined(name, mem, g) => mem' = LibMem(name, mem, g) /\ LibReturns(name, mem, g, regs'[1])

\* A call of an import whose name ends in that of a library function the stubs know, after
\* any underscore, does to memory and returns what the library says, whenever it defines
\* the call and its objects are within max_buffer.
CLibraryFollowed ==
    [][steps' # steps /\ instr'[1] = "call" /\ setting.stubs => AsTheLibrarySays]_vars

\* Whatever its arguments, overlapping strings and strings without a NUL included, a stub
\* changes only bytes from its first argument on, fewer than max_buffer characters of
\* them, and calls that are not stubs change none.
StubWritesBounded ==
    [][steps' # steps /\ Len(instr') = 3 =>
         LET last == instr'[2][Len(instr'[2])]
             dest == instr'[3][1]
         IN \A a \in DOMAIN mem : mem'[a] # mem[a] =>
               setting.stubs /\ a \in dest .. dest + max_buffer * Width(last) - 1]_vars
=============================================================================
