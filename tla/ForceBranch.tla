---------------------------- MODULE ForceBranch ----------------------------
(***************************************************************************)
(* force_branch of emulator.cpp against the tables of                      *)
(* instruction_classifier.hpp that decide when it is called: for every     *)
(* instruction type the hook treats as conditional, the flags it writes    *)
(* must make the processor take the branch (or do the move, or set the     *)
(* byte), whatever the flags were.                                         *)
(***************************************************************************)
EXTENDS Naturals

VARIABLES itype,   \* insn.itype of the instruction the hook is in
          eflags,  \* the flags of EFLAGS that are set
          rcx,     \* 0, or 1 for any other value
          forced   \* force_branch has run

vars == <<itype, eflags, rcx, forced>>

Flags == {"cf", "pf", "zf", "sf", "of"}

-----------------------------------------------------------------------------
(* instruction_classifier *)

is_branch ==
    {"ja", "jae", "jb", "jbe", "jc", "je", "jz", "jg", "jge", "jl", "jle", "jna", "jnae",
     "jnb", "jnbe", "jnc", "jne", "jng", "jnge", "jnl", "jnle", "jno", "jnp", "jns", "jnz",
     "jo", "jp", "jpe", "jpo", "js", "jcxz", "jecxz", "jrcxz"}

is_flag_dependent ==
    {"cmova", "cmovb", "cmovbe", "cmovg", "cmovge", "cmovl", "cmovle", "cmovno", "cmovnp",
     "cmovns", "cmovnz", "cmovo", "cmovp", "cmovs", "cmovz", "seta", "setae", "setb",
     "setbe", "setc", "sete", "setg", "setge", "setl", "setle", "setne", "setno", "setnp",
     "setns", "setnz", "seto", "setp", "setpo", "sets", "setz"}

is_conditional == is_branch \cup is_flag_dependent

-----------------------------------------------------------------------------
(* The processor: the instruction types of each condition of the manual *)

Zero == {"jz", "je", "cmovz", "sete", "setz"}
NotZero == {"jnz", "jne", "cmovnz", "setne", "setnz"}
Carry == {"jc", "jb", "jnae", "cmovb", "setb", "setc"}
NoCarry == {"jnc", "jnb", "jae", "setae"}
Sign == {"js", "cmovs", "sets"}
NoSign == {"jns", "cmovns", "setns"}
Overflow == {"jo", "cmovo", "seto"}
NoOverflow == {"jno", "cmovno", "setno"}
Parity == {"jp", "jpe", "cmovp", "setp"}
NoParity == {"jnp", "jpo", "cmovnp", "setnp", "setpo"}
Above == {"ja", "jnbe", "cmova", "seta"}
BelowEqual == {"jbe", "jna", "cmovbe", "setbe"}
Greater == {"jg", "jnle", "cmovg", "setg"}
GreaterEqual == {"jge", "jnl", "cmovge", "setge"}
Less == {"jl", "jnge", "cmovl", "setl"}
LessEqual == {"jle", "jng", "cmovle", "setle"}
CountZero == {"jcxz", "jecxz", "jrcxz"}

\* Whether the condition of instruction type t holds under flags f and count c.
Holds(t, f, c) ==
    LET signed_less == ("sf" \in f) # ("of" \in f)
    IN \/ t \in Zero /\ "zf" \in f
       \/ t \in NotZero /\ "zf" \notin f
       \/ t \in Carry /\ "cf" \in f
       \/ t \in NoCarry /\ "cf" \notin f
       \/ t \in Sign /\ "sf" \in f
       \/ t \in NoSign /\ "sf" \notin f
       \/ t \in Overflow /\ "of" \in f
       \/ t \in NoOverflow /\ "of" \notin f
       \/ t \in Parity /\ "pf" \in f
       \/ t \in NoParity /\ "pf" \notin f
       \/ t \in Above /\ "cf" \notin f /\ "zf" \notin f
       \/ t \in BelowEqual /\ ("cf" \in f \/ "zf" \in f)
       \/ t \in Greater /\ "zf" \notin f /\ ~signed_less
       \/ t \in GreaterEqual /\ ~signed_less
       \/ t \in Less /\ signed_less
       \/ t \in LessEqual /\ ("zf" \in f \/ signed_less)
       \/ t \in CountZero /\ c = 0

-----------------------------------------------------------------------------
(* emulator::force_branch: the cases of its switch, as flags to set and to clear.
   jcxz and its aliases have a case of their own, which writes RCX instead. *)

switch_cases ==
    {[types |-> {"jz", "je", "cmovz", "sete", "setz"}, set |-> {"zf"}, clear |-> {}],
     [types |-> {"jnz", "jne", "cmovnz", "setne", "setnz"}, set |-> {}, clear |-> {"zf"}],
     [types |-> {"jc", "jb", "jnae", "cmovb", "setb", "setc"}, set |-> {"cf"}, clear |-> {}],
     [types |-> {"jnc", "jnb", "jae", "setae"}, set |-> {}, clear |-> {"cf"}],
     [types |-> {"js", "cmovs", "sets"}, set |-> {"sf"}, clear |-> {}],
     [types |-> {"jns", "cmovns", "setns"}, set |-> {}, clear |-> {"sf"}],
     [types |-> {"jo", "cmovo", "seto"}, set |-> {"of"}, clear |-> {}],
     [types |-> {"jno", "cmovno", "setno"}, set |-> {}, clear |-> {"of"}],
     [types |-> {"jp", "jpe", "cmovp", "setp"}, set |-> {"pf"}, clear |-> {}],
     [types |-> {"jnp", "jpo", "cmovnp", "setnp", "setpo"}, set |-> {}, clear |-> {"pf"}],
     [types |-> {"ja", "jnbe", "cmova", "seta"}, set |-> {}, clear |-> {"cf", "zf"}],
     [types |-> {"jbe", "jna", "cmovbe", "setbe"}, set |-> {"cf"}, clear |-> {}],
     [types |-> {"jg", "jnle", "cmovg", "setg"}, set |-> {}, clear |-> {"zf", "sf", "of"}],
     [types |-> {"jge", "jnl", "cmovge", "setge"}, set |-> {}, clear |-> {"sf", "of"}],
     [types |-> {"jl", "jnge", "cmovl", "setl"}, set |-> {"sf"}, clear |-> {"of"}],
     [types |-> {"jle", "jng", "cmovle", "setle"}, set |-> {"zf"}, clear |-> {}]}

\* jg without clearing of.
Mut_matching(t) ==
    {IF "jg" \in c.types THEN [c EXCEPT !.clear = {"zf", "sf"}] ELSE c : c \in {d \in switch_cases : t \in d.types}}

matching(t) == {c \in switch_cases : t \in c.types}

SetMask(t) == UNION {c.set : c \in matching(t)}
ClearMask(t) == UNION {c.clear : c \in matching(t)}

force_branch ==
    /\ ~forced
    /\ forced' = TRUE
    /\ eflags' = (eflags \cup SetMask(itype)) \ ClearMask(itype)
    /\ rcx' = IF itype \in {"jcxz", "jecxz", "jrcxz"} THEN 0 ELSE rcx
    /\ UNCHANGED itype

\* The engine executes the instruction and code after it leaves any flags behind.
Continue ==
    /\ forced
    /\ itype' \in is_conditional
    /\ eflags' \in SUBSET Flags
    /\ rcx' \in {0, 1}
    /\ forced' = FALSE

Init ==
    /\ itype \in is_conditional
    /\ eflags \in SUBSET Flags
    /\ rcx \in {0, 1}
    /\ forced = FALSE

Next == force_branch \/ Continue

Spec == Init /\ [][Next]_vars

-----------------------------------------------------------------------------

\* Every conditional instruction is decided by force_branch: the table of types the
\* hook sends there and the cases of the switch agree for every alias, and no
\* combination of the old flags leaves the condition false.
ConditionForced == forced => Holds(itype, eflags, rcx)
=============================================================================
