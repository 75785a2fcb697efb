------------------------- MODULE ForceBranchProofs -------------------------
(***************************************************************************)
(* Proof that force_branch decides every conditional instruction.  TLC     *)
(* visits all types and flags; the proof adds the reason: the cases of the *)
(* switch are the conditions of the processor's manual, class by class, no *)
(* type is in two of them, and every type that the classifier lists is in  *)
(* one.                                                                    *)
(***************************************************************************)
EXTENDS ForceBranch, TLAPS

\* The hook calls force_branch only for the types of the classifier.
IInv == itype \in is_conditional /\ ConditionForced

\* A case of the switch, as switch_cases lists them.
Case(types, set, clear) == [types |-> types, set |-> set, clear |-> clear]

\* Every case of the switch (emulator.cpp:247-364) is one condition of the manual, under
\* all of its names.
LEMMA SwitchFollowsManual ==
    switch_cases =
        {Case(Zero, {"zf"}, {}),
         Case(NotZero, {}, {"zf"}),
         Case(Carry, {"cf"}, {}),
         Case(NoCarry, {}, {"cf"}),
         Case(Sign, {"sf"}, {}),
         Case(NoSign, {}, {"sf"}),
         Case(Overflow, {"of"}, {}),
         Case(NoOverflow, {}, {"of"}),
         Case(Parity, {"pf"}, {}),
         Case(NoParity, {}, {"pf"}),
         Case(Above, {}, {"cf", "zf"}),
         Case(BelowEqual, {"cf"}, {}),
         Case(Greater, {}, {"zf", "sf", "of"}),
         Case(GreaterEqual, {}, {"sf", "of"}),
         Case(Less, {"sf"}, {"of"}),
         Case(LessEqual, {"zf"}, {})}
  BY Zenon
     DEF switch_cases, Case, Zero, NotZero, Carry, NoCarry, Sign, NoSign, Overflow, NoOverflow, Parity, NoParity, Above,
         BelowEqual, Greater, GreaterEqual, Less, LessEqual, CountZero

\* The tables of instruction_classifier.hpp and the conditions of the manual are the same
\* types: nothing is sent to force_branch that it has no case for.
LEMMA EveryTypeHasACase ==
    \A t \in is_conditional :
        t \in Zero \cup NotZero \cup Carry \cup NoCarry \cup Sign \cup NoSign \cup Overflow \cup
            NoOverflow \cup Parity \cup NoParity \cup Above \cup BelowEqual \cup Greater
            \cup GreaterEqual \cup Less \cup LessEqual \cup CountZero
  BY SMTT(60)
     DEF is_conditional, is_branch, is_flag_dependent, Zero, NotZero, Carry, NoCarry, Sign, NoSign, Overflow, NoOverflow, Parity, NoParity, Above,
         BelowEqual, Greater, GreaterEqual, Less, LessEqual, CountZero

\* No type has two conditions.
LEMMA ConditionsApart ==
    /\ Zero \cap (NotZero \cup Carry \cup NoCarry \cup Sign \cup NoSign \cup Overflow \cup
           NoOverflow \cup Parity \cup NoParity \cup Above \cup BelowEqual \cup
           Greater \cup GreaterEqual \cup Less \cup LessEqual \cup CountZero) = {}
    /\ NotZero \cap (Carry \cup NoCarry \cup Sign \cup NoSign \cup Overflow \cup NoOverflow \cup
           Parity \cup NoParity \cup Above \cup BelowEqual \cup Greater \cup
           GreaterEqual \cup Less \cup LessEqual \cup CountZero) = {}
    /\ Carry \cap (NoCarry \cup Sign \cup NoSign \cup Overflow \cup NoOverflow \cup Parity \cup
           NoParity \cup Above \cup BelowEqual \cup Greater \cup GreaterEqual
           \cup Less \cup LessEqual \cup CountZero) = {}
    /\ NoCarry \cap (Sign \cup NoSign \cup Overflow \cup NoOverflow \cup Parity \cup NoParity \cup
           Above \cup BelowEqual \cup Greater \cup GreaterEqual \cup Less \cup
           LessEqual \cup CountZero) = {}
    /\ Sign \cap (NoSign \cup Overflow \cup NoOverflow \cup Parity \cup NoParity \cup Above \cup
           BelowEqual \cup Greater \cup GreaterEqual \cup Less \cup LessEqual
           \cup CountZero) = {}
    /\ NoSign \cap (Overflow \cup NoOverflow \cup Parity \cup NoParity \cup Above \cup BelowEqual
           \cup Greater \cup GreaterEqual \cup Less \cup LessEqual \cup
           CountZero) = {}
    /\ Overflow \cap (NoOverflow \cup Parity \cup NoParity \cup Above \cup BelowEqual \cup Greater
           \cup GreaterEqual \cup Less \cup LessEqual \cup CountZero) = {}
    /\ NoOverflow \cap (Parity \cup NoParity \cup Above \cup BelowEqual \cup Greater \cup GreaterEqual
           \cup Less \cup LessEqual \cup CountZero) = {}
    /\ Parity \cap (NoParity \cup Above \cup BelowEqual \cup Greater \cup GreaterEqual \cup Less
           \cup LessEqual \cup CountZero) = {}
    /\ NoParity \cap (Above \cup BelowEqual \cup Greater \cup GreaterEqual \cup Less \cup LessEqual
           \cup CountZero) = {}
    /\ Above \cap (BelowEqual \cup Greater \cup GreaterEqual \cup Less \cup LessEqual \cup
           CountZero) = {}
    /\ BelowEqual \cap (Greater \cup GreaterEqual \cup Less \cup LessEqual \cup CountZero) = {}
    /\ Greater \cap (GreaterEqual \cup Less \cup LessEqual \cup CountZero) = {}
    /\ GreaterEqual \cap (Less \cup LessEqual \cup CountZero) = {}
    /\ Less \cap (LessEqual \cup CountZero) = {}
  <1>1. Zero \cap (NotZero \cup Carry \cup NoCarry \cup Sign \cup NoSign \cup Overflow \cup
        NoOverflow \cup Parity \cup NoParity \cup Above \cup BelowEqual \cup
        Greater \cup GreaterEqual \cup Less \cup LessEqual \cup CountZero) = {}
    BY SMTT(30)
       DEF Zero, NotZero, Carry, NoCarry, Sign, NoSign, Overflow, NoOverflow, Parity, NoParity, Above,
           BelowEqual, Greater, GreaterEqual, Less, LessEqual, CountZero
  <1>2. NotZero \cap (Carry \cup NoCarry \cup Sign \cup NoSign \cup Overflow \cup NoOverflow \cup
        Parity \cup NoParity \cup Above \cup BelowEqual \cup Greater \cup
        GreaterEqual \cup Less \cup LessEqual \cup CountZero) = {}
    BY SMTT(30)
       DEF NotZero, Carry, NoCarry, Sign, NoSign, Overflow, NoOverflow, Parity, NoParity, Above,
           BelowEqual, Greater, GreaterEqual, Less, LessEqual, CountZero
  <1>3. Carry \cap (NoCarry \cup Sign \cup NoSign \cup Overflow \cup NoOverflow \cup Parity \cup
        NoParity \cup Above \cup BelowEqual \cup Greater \cup GreaterEqual \cup
        Less \cup LessEqual \cup CountZero) = {}
    BY SMTT(30)
       DEF Carry, NoCarry, Sign, NoSign, Overflow, NoOverflow, Parity, NoParity, Above, BelowEqual,
           Greater, GreaterEqual, Less, LessEqual, CountZero
  <1>4. NoCarry \cap (Sign \cup NoSign \cup Overflow \cup NoOverflow \cup Parity \cup NoParity \cup
        Above \cup BelowEqual \cup Greater \cup GreaterEqual \cup Less \cup
        LessEqual \cup CountZero) = {}
    BY SMTT(30)
       DEF NoCarry, Sign, NoSign, Overflow, NoOverflow, Parity, NoParity, Above, BelowEqual, Greater,
           GreaterEqual, Less, LessEqual, CountZero
  <1>5. Sign \cap (NoSign \cup Overflow \cup NoOverflow \cup Parity \cup NoParity \cup Above \cup
        BelowEqual \cup Greater \cup GreaterEqual \cup Less \cup LessEqual \cup
        CountZero) = {}
    BY SMTT(30)
       DEF Sign, NoSign, Overflow, NoOverflow, Parity, NoParity, Above, BelowEqual, Greater,
           GreaterEqual, Less, LessEqual, CountZero
  <1>6. NoSign \cap (Overflow \cup NoOverflow \cup Parity \cup NoParity \cup Above \cup BelowEqual
        \cup Greater \cup GreaterEqual \cup Less \cup LessEqual \cup CountZero) = {}
    BY SMTT(30)
       DEF NoSign, Overflow, NoOverflow, Parity, NoParity, Above, BelowEqual, Greater, GreaterEqual,
           Less, LessEqual, CountZero
  <1>7. Overflow \cap (NoOverflow \cup Parity \cup NoParity \cup Above \cup BelowEqual \cup Greater
        \cup GreaterEqual \cup Less \cup LessEqual \cup CountZero) = {}
    BY SMTT(30)
       DEF Overflow, NoOverflow, Parity, NoParity, Above, BelowEqual, Greater, GreaterEqual, Less,
           LessEqual, CountZero
  <1>8. NoOverflow \cap (Parity \cup NoParity \cup Above \cup BelowEqual \cup Greater \cup GreaterEqual
        \cup Less \cup LessEqual \cup CountZero) = {}
    BY SMTT(30)
       DEF NoOverflow, Parity, NoParity, Above, BelowEqual, Greater, GreaterEqual, Less, LessEqual,
           CountZero
  <1>9. Parity \cap (NoParity \cup Above \cup BelowEqual \cup Greater \cup GreaterEqual \cup Less
        \cup LessEqual \cup CountZero) = {}
    BY SMTT(30)
       DEF Parity, NoParity, Above, BelowEqual, Greater, GreaterEqual, Less, LessEqual, CountZero
  <1>10. NoParity \cap (Above \cup BelowEqual \cup Greater \cup GreaterEqual \cup Less \cup LessEqual
        \cup CountZero) = {}
    BY SMTT(30)
       DEF NoParity, Above, BelowEqual, Greater, GreaterEqual, Less, LessEqual, CountZero
  <1>11. Above \cap (BelowEqual \cup Greater \cup GreaterEqual \cup Less \cup LessEqual \cup
        CountZero) = {}
    BY SMTT(30)
       DEF Above, BelowEqual, Greater, GreaterEqual, Less, LessEqual, CountZero
  <1>12. BelowEqual \cap (Greater \cup GreaterEqual \cup Less \cup LessEqual \cup CountZero) = {}
    BY SMTT(30)
       DEF BelowEqual, Greater, GreaterEqual, Less, LessEqual, CountZero
  <1>13. Greater \cap (GreaterEqual \cup Less \cup LessEqual \cup CountZero) = {}
    BY SMTT(30)
       DEF Greater, GreaterEqual, Less, LessEqual, CountZero
  <1>14. GreaterEqual \cap (Less \cup LessEqual \cup CountZero) = {}
    BY SMTT(30)
       DEF GreaterEqual, Less, LessEqual, CountZero
  <1>15. Less \cap (LessEqual \cup CountZero) = {}
    BY SMTT(30)
       DEF Less, LessEqual, CountZero
  <1> QED
    BY <1>1, <1>2, <1>3, <1>4, <1>5, <1>6, <1>7, <1>8, <1>9, <1>10, <1>11, <1>12, <1>13, <1>14,
       <1>15

\* So the switch does for a type what the one case it is in says.
LEMMA OneCase ==
    ASSUME NEW c \in switch_cases, NEW t \in c.types
    PROVE  SetMask(t) = c.set /\ ClearMask(t) = c.clear
  <1>1. ASSUME NEW d \in switch_cases, t \in d.types PROVE d = c
    BY <1>1, SwitchFollowsManual, ConditionsApart, SMTT(60) DEF Case
  <1>2. matching(t) = {c}
    BY <1>1 DEF matching
  <1> QED
    BY <1>2 DEF SetMask, ClearMask

\* jcxz and its aliases are in no case that sets or clears a flag.
LEMMA CountTouchesNoFlag == \A t \in CountZero : t \in {"jcxz", "jecxz", "jrcxz"}
  BY DEF CountZero

-----------------------------------------------------------------------------

\* The hook calls force_branch only for conditional instructions, and has forced none yet.
LEMMA InitIInv == Init => IInv
  BY DEF Init, IInv, ConditionForced

\* After the switch, the condition of the instruction holds under the new flags.
LEMMA ForcedHolds ==
    ASSUME itype \in is_conditional, force_branch
    PROVE  Holds(itype, eflags', rcx')
  <1>1. eflags' = (eflags \cup SetMask(itype)) \ ClearMask(itype)
    BY DEF force_branch
  <1>2. CASE itype \in Zero
    <2>1. Case(Zero, {"zf"}, {}) \in switch_cases
      BY SwitchFollowsManual
    <2>2. SetMask(itype) = {"zf"} /\ ClearMask(itype) = {}
      BY <1>2, <2>1, OneCase DEF Case
    <2> QED
      BY <1>1, <1>2, <2>2 DEF Holds
  <1>3. CASE itype \in NotZero
    <2>1. Case(NotZero, {}, {"zf"}) \in switch_cases
      BY SwitchFollowsManual
    <2>2. SetMask(itype) = {} /\ ClearMask(itype) = {"zf"}
      BY <1>3, <2>1, OneCase DEF Case
    <2> QED
      BY <1>1, <1>3, <2>2 DEF Holds
  <1>4. CASE itype \in Carry
    <2>1. Case(Carry, {"cf"}, {}) \in switch_cases
      BY SwitchFollowsManual
    <2>2. SetMask(itype) = {"cf"} /\ ClearMask(itype) = {}
      BY <1>4, <2>1, OneCase DEF Case
    <2> QED
      BY <1>1, <1>4, <2>2 DEF Holds
  <1>5. CASE itype \in NoCarry
    <2>1. Case(NoCarry, {}, {"cf"}) \in switch_cases
      BY SwitchFollowsManual
    <2>2. SetMask(itype) = {} /\ ClearMask(itype) = {"cf"}
      BY <1>5, <2>1, OneCase DEF Case
    <2> QED
      BY <1>1, <1>5, <2>2 DEF Holds
  <1>6. CASE itype \in Sign
    <2>1. Case(Sign, {"sf"}, {}) \in switch_cases
      BY SwitchFollowsManual
    <2>2. SetMask(itype) = {"sf"} /\ ClearMask(itype) = {}
      BY <1>6, <2>1, OneCase DEF Case
    <2> QED
      BY <1>1, <1>6, <2>2 DEF Holds
  <1>7. CASE itype \in NoSign
    <2>1. Case(NoSign, {}, {"sf"}) \in switch_cases
      BY SwitchFollowsManual
    <2>2. SetMask(itype) = {} /\ ClearMask(itype) = {"sf"}
      BY <1>7, <2>1, OneCase DEF Case
    <2> QED
      BY <1>1, <1>7, <2>2 DEF Holds
  <1>8. CASE itype \in Overflow
    <2>1. Case(Overflow, {"of"}, {}) \in switch_cases
      BY SwitchFollowsManual
    <2>2. SetMask(itype) = {"of"} /\ ClearMask(itype) = {}
      BY <1>8, <2>1, OneCase DEF Case
    <2> QED
      BY <1>1, <1>8, <2>2 DEF Holds
  <1>9. CASE itype \in NoOverflow
    <2>1. Case(NoOverflow, {}, {"of"}) \in switch_cases
      BY SwitchFollowsManual
    <2>2. SetMask(itype) = {} /\ ClearMask(itype) = {"of"}
      BY <1>9, <2>1, OneCase DEF Case
    <2> QED
      BY <1>1, <1>9, <2>2 DEF Holds
  <1>10. CASE itype \in Parity
    <2>1. Case(Parity, {"pf"}, {}) \in switch_cases
      BY SwitchFollowsManual
    <2>2. SetMask(itype) = {"pf"} /\ ClearMask(itype) = {}
      BY <1>10, <2>1, OneCase DEF Case
    <2> QED
      BY <1>1, <1>10, <2>2 DEF Holds
  <1>11. CASE itype \in NoParity
    <2>1. Case(NoParity, {}, {"pf"}) \in switch_cases
      BY SwitchFollowsManual
    <2>2. SetMask(itype) = {} /\ ClearMask(itype) = {"pf"}
      BY <1>11, <2>1, OneCase DEF Case
    <2> QED
      BY <1>1, <1>11, <2>2 DEF Holds
  <1>12. CASE itype \in Above
    <2>1. Case(Above, {}, {"cf", "zf"}) \in switch_cases
      BY SwitchFollowsManual
    <2>2. SetMask(itype) = {} /\ ClearMask(itype) = {"cf", "zf"}
      BY <1>12, <2>1, OneCase DEF Case
    <2> QED
      BY <1>1, <1>12, <2>2 DEF Holds
  <1>13. CASE itype \in BelowEqual
    <2>1. Case(BelowEqual, {"cf"}, {}) \in switch_cases
      BY SwitchFollowsManual
    <2>2. SetMask(itype) = {"cf"} /\ ClearMask(itype) = {}
      BY <1>13, <2>1, OneCase DEF Case
    <2> QED
      BY <1>1, <1>13, <2>2 DEF Holds
  <1>14. CASE itype \in Greater
    <2>1. Case(Greater, {}, {"zf", "sf", "of"}) \in switch_cases
      BY SwitchFollowsManual
    <2>2. SetMask(itype) = {} /\ ClearMask(itype) = {"zf", "sf", "of"}
      BY <1>14, <2>1, OneCase DEF Case
    <2> QED
      BY <1>1, <1>14, <2>2 DEF Holds
  <1>15. CASE itype \in GreaterEqual
    <2>1. Case(GreaterEqual, {}, {"sf", "of"}) \in switch_cases
      BY SwitchFollowsManual
    <2>2. SetMask(itype) = {} /\ ClearMask(itype) = {"sf", "of"}
      BY <1>15, <2>1, OneCase DEF Case
    <2> QED
      BY <1>1, <1>15, <2>2 DEF Holds
  <1>16. CASE itype \in Less
    <2>1. Case(Less, {"sf"}, {"of"}) \in switch_cases
      BY SwitchFollowsManual
    <2>2. SetMask(itype) = {"sf"} /\ ClearMask(itype) = {"of"}
      BY <1>16, <2>1, OneCase DEF Case
    <2> QED
      BY <1>1, <1>16, <2>2 DEF Holds
  <1>17. CASE itype \in LessEqual
    <2>1. Case(LessEqual, {"zf"}, {}) \in switch_cases
      BY SwitchFollowsManual
    <2>2. SetMask(itype) = {"zf"} /\ ClearMask(itype) = {}
      BY <1>17, <2>1, OneCase DEF Case
    <2> QED
      BY <1>1, <1>17, <2>2 DEF Holds
  <1>18. CASE itype \in CountZero
    BY <1>18, CountTouchesNoFlag DEF force_branch, Holds
  <1> QED
    BY EveryTypeHasACase, <1>2, <1>3, <1>4, <1>5, <1>6, <1>7, <1>8, <1>9, <1>10, <1>11, <1>12, <1>13, <1>14, <1>15,
       <1>16, <1>17, <1>18

\* Whatever flags the program left behind, when force_branch returns the instruction is
\* decided: the branch is taken, the move is done, the byte is set (emulator.cpp:239-367).
THEOREM EveryConditionForced == Spec => []ConditionForced
  <1>1. ASSUME IInv, [Next]_vars PROVE IInv'
    <2>1. CASE force_branch
      <3>1. itype' = itype
        BY <2>1 DEF force_branch
      <3>2. Holds(itype', eflags', rcx')
        BY <1>1, <2>1, <3>1, ForcedHolds DEF IInv
      <3> QED
        BY <1>1, <3>1, <3>2 DEF IInv, ConditionForced
    <2>2. CASE Continue
      BY <2>2 DEF Continue, IInv, ConditionForced
    <2>3. CASE UNCHANGED vars
      <3>1. Holds(itype', eflags', rcx') <=> Holds(itype, eflags, rcx)
        BY <2>3 DEF vars
      <3> QED
        BY <1>1, <2>3, <3>1 DEF vars, IInv, ConditionForced
    <2> QED
      BY <1>1, <2>1, <2>2, <2>3 DEF Next
  <1>2. IInv => ConditionForced
    BY DEF IInv
  <1> QED
    BY InitIInv, <1>1, <1>2, PTL DEF Spec
=============================================================================
