---------------------------- MODULE Stage1Proofs ----------------------------
(***************************************************************************)
(* Proofs about Stage1, for page tables of any size, any memory map and    *)
(* any contents of memory.                                                 *)
(***************************************************************************)
EXTENDS Stage1, SequenceTheorems, TLAPS

(* Where the tables are.                                                   *)
LEMMA Layout ==
    /\ page_table_size \in Nat
    /\ {L4, L3} \subseteq Places
    /\ Entries \in Nat \ {0}
    /\ \A i \in Indices :
          /\ {L4 + 2 * i, L4 + 2 * i + 1, L3 + 2 * i, L3 + 2 * i + 1,
              L2 + 2 * i, L2 + 2 * i + 1} \subseteq Places
  BY Stage1Assumption DEF page_table_size, L4, L3, L2, Places, Indices

(* Entries of the three tables never share a place.                        *)
LEMMA Apart ==
    ASSUME NEW i \in Indices, NEW j \in Indices
    PROVE  /\ L2 + 2 * i # L4 /\ L2 + 2 * i # L3
           /\ L2 + 2 * i = L2 + 2 * j => i = j
           /\ L2 + 2 * i + 1 # L2 + 2 * j
           /\ L2 + 2 * i + 1 # L4 /\ L2 + 2 * i + 1 # L3
           /\ L3 # L4 /\ L4 + 2 * i + 1 # L3 /\ L4 + 2 * i # L3
           /\ L4 + 2 * i = L4 => i = 0
           /\ L3 + 2 * i = L3 => i = 0
           /\ L4 + 2 * i # L2 + 2 * j /\ L4 + 2 * i + 1 # L2 + 2 * j
           /\ L3 + 2 * i # L2 + 2 * j /\ L3 + 2 * i + 1 # L2 + 2 * j
           /\ L3 + 2 * i # L4 /\ L3 + 2 * i + 1 # L4 /\ L3 + 2 * i + 1 # L3
           /\ L4 + 2 * i + 1 # L4
  BY Stage1Assumption DEF page_table_size, L4, L3, L2, Indices

LEMMA EntryTypes ==
    /\ Zero \in Dword
    /\ \A to \in Nat : Table(to) \in Dword /\ Page(to) \in Dword
    /\ \A to, n \in Nat : Table(to) # Zero /\ Page(n) # Zero /\ Table(to) # Page(n)
  BY DEF Zero, Table, Page, Dword

-----------------------------------------------------------------------------
(* Type correctness.                                                       *)

LEMMA InitType == Init => TypeOK
  <1> SUFFICES ASSUME Init PROVE TypeOK
    OBVIOUS
  <1>1. tables \in [Places -> Dword]
    BY JunkAssumption DEF Init
  <1>2. ebx \in Nat
    BY Stage1Assumption DEF Init, FirstEbx
  <1>3. cells \in [Cells -> 0..255]
    <2>1. cells \in [Cells -> Bytes] /\ Bytes \subseteq 0..255
      BY Stage1Assumption DEF Init
    <2> QED
      BY <2>1
  <1>4. ecx \in 0..Entries
    BY Stage1Assumption DEF Init
  <1>5. stored \in Seq(Nat)
    BY DEF Init
  <1>6. /\ pc \in Steps /\ message \in Messages
        /\ bios \in [regions : 0..MaxRegions, carry : BOOLEAN]
        /\ cx \in 0..21 /\ count \in 0..21
    BY DEF Init, Steps, Messages
  <1>8. /\ refused \in BOOLEAN /\ paging \in BOOLEAN
        /\ a20 \in BOOLEAN /\ gate \in BOOLEAN
    <2>1. refused = FALSE /\ paging = FALSE
      BY DEF Init
    <2>2. a20 \in BOOLEAN /\ gate \in BOOLEAN
      BY DEF Init
    <2> QED
      BY <2>1, <2>2
  <1>7. cpu \in [cpuid : BOOLEAN, extended : BOOLEAN, long : BOOLEAN]
    BY DEF Init
  <1>9. ScreenTypeOK
    BY DEF Init, ScreenTypeOK, Texts
  <1> QED
    BY <1>1, <1>2, <1>3, <1>4, <1>5, <1>6, <1>7, <1>8, <1>9 DEF TypeOK

(* What is printed, and where, stays text and a line.                      *)
LEMMA WrittenType ==
    ASSUME NEW s \in [Lines -> Texts], NEW at, NEW text \in Texts
    PROVE  Written(s, at, text) \in [Lines -> Texts]
  BY DEF Written

LEMMA PrintType ==
    ASSUME ScreenTypeOK, NEW at \in Nat, NEW text \in Texts, print(at, text)
    PROVE  screen' \in [Lines -> Texts] /\ line' \in Nat
  BY WrittenType DEF ScreenTypeOK, print, NextLine

LEMMA SomeTexts ==
    /\ {"start_protected_mode", "check_CPUID", "check_extended_functions",
         "check_long_mode_support", "set_up_paging", "enable_paging",
         "start_long_mode", "kernel_entry", "stray", "none", "BIOS"} \subseteq Texts
    /\ {"CPUID", "extended_functions", "long_mode"} \subseteq Texts
  BY DEF Texts, Steps, Messages

LEMMA CheckPrints ==
    ASSUME NEW step, NEW supported \in BOOLEAN, NEW next, NEW text,
           check(step, supported, next, text)
    PROVE  rax' = rax /\ (print(line, step) \/ print(line, text))
  BY DEF check

(* A step that prints a text at a line the machine knows.                  *)
LEMMA ScreenType == ScreenTypeOK /\ TypeOK /\ [Next]_vars => ScreenTypeOK'
  <1> SUFFICES ASSUME ScreenTypeOK, TypeOK, [Next]_vars PROVE ScreenTypeOK'
    OBVIOUS
  <1>1. line \in Nat /\ rax \in Nat /\ screen \in [Lines -> Texts]
    BY DEF ScreenTypeOK
  <1>2. CASE UNCHANGED screenVars
    BY <1>2 DEF ScreenTypeOK, screenVars
  <1>3. ASSUME NEW at \in Nat, NEW text \in Texts, print(at, text),
               rax' = rax \/ rax' = line' \/ rax' = 0
        PROVE  ScreenTypeOK'
    BY <1>1, <1>3, PrintType DEF ScreenTypeOK
  <1>4. cpu.cpuid \in BOOLEAN /\ cpu.extended \in BOOLEAN /\ cpu.long \in BOOLEAN
    BY DEF TypeOK
  <1>5. CASE e820_region \/ e820_done \/ ensure_a20 \/ enable_a20_fast \/ set_up_paging
    BY <1>2, <1>5 DEF e820_region, e820_done, ensure_a20, check_a20, enable_a20_fast,
                      set_up_paging
  <1>6. CASE start_protected_mode
    <2> DEFINE clear == [i \in Lines |-> "none"]
    <2>1. clear \in [Lines -> Texts]
      BY SomeTexts
    <2>2. /\ screen' = Written(clear, line, "start_protected_mode")
          /\ line' = line + 1 /\ rax' = rax
      BY <1>6 DEF start_protected_mode, NextLine
    <2> HIDE DEF clear
    <2>3. screen' \in [Lines -> Texts]
      BY <2>1, <2>2, SomeTexts, WrittenType
    <2> QED
      BY <1>1, <2>2, <2>3 DEF ScreenTypeOK
  <1>7. CASE check_CPUID
    <2>1. rax' = rax /\ (print(line, "check_CPUID") \/ print(line, "CPUID"))
      BY <1>4, <1>7, CheckPrints, Zenon DEF check_CPUID
    <2> QED
      BY <1>1, <1>3, <2>1, SomeTexts
  <1>8. CASE check_extended_functions
    <2>1. rax' = rax /\ (print(line, "check_extended_functions")
                          \/ print(line, "extended_functions"))
      BY <1>4, <1>8, CheckPrints, Zenon DEF check_extended_functions
    <2> QED
      BY <1>1, <1>3, <2>1, SomeTexts
  <1>9. CASE check_long_mode_support
    <2>1. rax' = rax /\ (print(line, "check_long_mode_support")
                          \/ print(line, "long_mode"))
      BY <1>4, <1>9, CheckPrints, Zenon DEF check_long_mode_support
    <2> QED
      BY <1>1, <1>3, <2>1, SomeTexts
  <1>10. CASE fill_l2_table
    <2>1. rax' = rax /\ (print(line, "set_up_paging") \/ UNCHANGED <<screen, line>>)
      BY <1>10 DEF fill_l2_table
    <2>2. CASE print(line, "set_up_paging")
      BY <1>1, <1>3, <2>1, <2>2, SomeTexts
    <2>3. CASE UNCHANGED <<screen, line>>
      BY <1>2, <2>1, <2>3 DEF screenVars
    <2> QED
      BY <2>1, <2>2, <2>3
  <1>11. CASE enable_paging
    <2>1. print(line, "enable_paging") /\ rax' = line'
      BY <1>11 DEF enable_paging
    <2> QED
      BY <1>1, <1>3, <2>1, SomeTexts
  <1>12. CASE start_long_mode
    <2>1. print(rax, "start_long_mode") /\ rax' = line'
      BY <1>12 DEF start_long_mode, Handed, print_64_bits
    <2> QED
      BY <1>1, <1>3, <2>1, SomeTexts
  <1>13. CASE kernel_image
    <2>1. screen' = Written(screen, rax, "stray") /\ line' = line /\ rax' = rax
      BY <1>13 DEF kernel_image
    <2> QED
      BY <1>1, <2>1, SomeTexts, WrittenType DEF ScreenTypeOK
  <1>14. CASE kernel_entry
    <2>1. print(rax, "kernel_entry") /\ rax' = 0
      BY <1>14 DEF kernel_entry, print_64_bits
    <2> QED
      BY <1>1, <1>3, <2>1, SomeTexts
  <1>15. CASE UNCHANGED vars
    BY <1>2, <1>15 DEF vars
  <1> QED
    BY <1>5, <1>6, <1>7, <1>8, <1>9, <1>10, <1>11, <1>12, <1>13, <1>14, <1>15 DEF Next

LEMMA NextType == TypeOK /\ TablesInv /\ [Next]_vars => TypeOK'
  <1> SUFFICES ASSUME TypeOK, TablesInv, [Next]_vars PROVE TypeOK'
    OBVIOUS
  <1>0. ScreenTypeOK'
    <2>1. ScreenTypeOK
      BY DEF TypeOK
    <2> QED
      BY <2>1, ScreenType
  <1> USE DEF TypeOK, Steps, Messages
  <1>1. CASE e820_region
    <2>1. ebx \in Nat /\ bios.regions \in Nat
      BY Stage1Assumption
    <2>2. stored' \in Seq(Nat)
      BY <1>1, <2>1, AppendProperties DEF e820_region
    <2>3. ebx' \in Nat
      <3>1. ebx' = 0 \/ ebx' = ebx + 1
        BY <1>1 DEF e820_region
      <3> QED
        BY <2>1, <3>1
    <2>4. cx' \in 0..21 /\ (count' = count \/ count' = cx')
      BY <1>1 DEF e820_region
    <2>5. pc' \in Steps
      BY <1>1 DEF e820_region
    <2>6. UNCHANGED <<refused, a20Vars, tableVars, machine, message>>
      BY <1>1 DEF e820_region
    <2>7. count' \in 0..21
      BY <2>4
    <2> QED
      BY <1>0, <2>2, <2>3, <2>4, <2>5, <2>6, <2>7, SMTT(30) DEF a20Vars, tableVars, machine
  <1>2. CASE e820_done
    BY <1>0, <1>2, Stage1Assumption
       DEF e820_done, a20Vars, tableVars, machine
  <1>3. CASE ensure_a20
    <2>1. cells' \in [Cells -> 0..255]
      BY <1>3 DEF ensure_a20, check_a20, Restored, Tested, Stored, Cell, Cells
    <2>2. /\ pc' \in Steps /\ message' \in Messages
          /\ UNCHANGED <<mapVars, a20, tableVars, machine, screenVars>>
      BY <1>3 DEF ensure_a20, check_a20, Goto, Halt
    <2> QED
      BY <1>0, <2>1, <2>2 DEF mapVars, tableVars, machine
  <1>4. CASE enable_a20_fast
    BY <1>0, <1>4 DEF enable_a20_fast, mapVars, tableVars, machine
  <1>5. CASE check_CPUID \/ check_extended_functions \/ check_long_mode_support
    <2>1. pc' \in Steps /\ message' \in Messages
      BY <1>5 DEF check_CPUID, check_extended_functions, check_long_mode_support,
                  check, Goto, Halt
    <2>2. UNCHANGED <<mapVars, a20Vars, tableVars, machine>>
      BY <1>5 DEF check_CPUID, check_extended_functions, check_long_mode_support,
                  check
    <2> QED
      BY <1>0, <2>1, <2>2 DEF mapVars, a20Vars, tableVars, machine
  <1>6. CASE set_up_paging
    <2>1. tables' \in [Places -> Dword]
      BY <1>6, EntryTypes, Layout DEF set_up_paging, L3, L2
    <2>2. ecx' \in 0..Entries
      BY <1>6, Stage1Assumption DEF set_up_paging
    <2> QED
      BY <1>0, <1>6, <2>1, <2>2 DEF set_up_paging, mapVars, a20Vars, machine
  <1>7. CASE fill_l2_table
    <2>1. ecx < Entries /\ ecx \in Nat
      BY <1>7, Stage1Assumption DEF fill_l2_table, TablesInv
    <2>2. tables' \in [Places -> Dword]
      BY <1>7, <2>1, EntryTypes DEF fill_l2_table
    <2>3. ecx' \in 0..Entries
      BY <1>7, <2>1, Stage1Assumption DEF fill_l2_table, NextPage
    <2>4. pc' \in Steps
      BY <1>7 DEF fill_l2_table
    <2> QED
      BY <1>0, <1>7, <2>2, <2>3, <2>4
         DEF fill_l2_table, mapVars, a20Vars, machine
  <1>8. CASE enable_paging \/ start_long_mode \/ kernel_image \/ kernel_entry
    <2>1. pc' \in Steps /\ UNCHANGED <<mapVars, a20Vars, tables, ecx, machine, message>>
      BY <1>8 DEF enable_paging, start_long_mode, kernel_image, kernel_entry, tableVars
    <2>2. paging' \in BOOLEAN
      BY <1>8, Zenon DEF enable_paging, start_long_mode, kernel_image, kernel_entry,
                         tableVars
    <2> QED
      BY <1>0, <2>1, <2>2 DEF mapVars, a20Vars, machine
  <1>9. CASE UNCHANGED vars
    BY <1>0, <1>9 DEF vars, mapVars, a20Vars, tableVars, machine
  <1>10. CASE start_protected_mode
    BY <1>0, <1>10 DEF start_protected_mode, Goto, mapVars, a20Vars, tableVars, machine
  <1> QED
    BY <1>1, <1>2, <1>3, <1>4, <1>5, <1>6, <1>7, <1>8, <1>9, <1>10 DEF Next

-----------------------------------------------------------------------------
(* The page tables.                                                        *)

LEMMA TablesStep == TypeOK /\ TablesInv /\ [Next]_vars => TablesInv'
  <1> SUFFICES ASSUME TypeOK, TablesInv, [Next]_vars PROVE TablesInv'
    OBVIOUS
  <1>1. CASE set_up_paging
    <2>1. tables \in [Places -> Dword] /\ pc = "set_up_paging" /\ ~paging
      BY <1>1 DEF set_up_paging, TypeOK, TablesInv
    <2>2. Built(0)'
      <3>1. tables' = [p \in Places |-> IF p = L4 THEN Table(L3)
                                       ELSE IF p = L3 THEN Table(L2) ELSE Zero]
        BY <1>1 DEF set_up_paging, Cleared, Places
      <3>2. L3 # L4 /\ 0 .. 0 - 1 = {}
        BY Stage1Assumption DEF L3, L4, page_table_size
      <3> QED
        BY <3>1, <3>2, Layout DEF Built
    <2>3. ecx' = 0 /\ pc' = "fill_l2_table" /\ ~paging'
      BY <1>1, <2>1 DEF set_up_paging
    <2> QED
      BY <2>2, <2>3, Stage1Assumption DEF TablesInv, Built
  <1>2. CASE fill_l2_table
    <2>1. PICK n \in Indices : n = ecx
      BY <1>2, Stage1Assumption DEF fill_l2_table, TablesInv, TypeOK, Indices
    <2>2. n \in Indices /\ Built(n) /\ ~paging
      BY <1>2, <2>1 DEF fill_l2_table, TablesInv
    <2>3. tables' = [tables EXCEPT ![L2 + 2 * n] = Page(n)] /\ ecx' = n + 1
      BY <1>2, <2>1 DEF fill_l2_table, NextPage
    <2>4. tables \in [Places -> Dword] /\ L2 + 2 * n \in Places
      BY <2>2, Layout DEF TypeOK
    <2>5. Built(n + 1)'
      <3>1. tables'[L4] = Table(L3) /\ tables'[L3] = Table(L2)
        BY <2>2, <2>3, <2>4, Layout, Apart DEF Built
      <3>2. ASSUME NEW i \in 0 .. n
            PROVE  tables'[L2 + 2 * i] = Page(i)
        <4>1. i \in Indices /\ L2 + 2 * i \in Places
          BY <2>2, Layout, Stage1Assumption DEF Indices
        <4>2. CASE i = n
          BY <2>3, <2>4, <4>2
        <4>3. CASE i # n
          <5>1. i \in 0 .. n - 1
            BY <2>2, <4>3 DEF Indices
          <5>2. L2 + 2 * i # L2 + 2 * n
            BY <2>2, <4>1, <4>3, Apart
          <5> QED
            BY <2>2, <2>3, <2>4, <4>1, <5>1, <5>2 DEF Built
        <4> QED
          BY <4>2, <4>3
      <3>3. ASSUME NEW p \in Places, p # L4, p # L3,
                   ~ \E i \in 0 .. n : p = L2 + 2 * i
            PROVE  tables'[p] = Zero
        <4>1. p # L2 + 2 * n /\ ~ \E i \in 0 .. n - 1 : p = L2 + 2 * i
          BY <2>2, <3>3 DEF Indices
        <4> QED
          BY <2>2, <2>3, <2>4, <3>3, <4>1 DEF Built
      <3>4. 0 .. (n + 1) - 1 = 0 .. n
        BY <2>2 DEF Indices
      <3> QED
        BY <3>1, <3>2, <3>3, <3>4 DEF Built, Places
    <2>6. /\ n + 1 = Entries => pc' = "enable_paging"
          /\ n + 1 # Entries => pc' = "fill_l2_table"
          /\ ~paging'
      BY <1>2, <2>2, <2>3 DEF fill_l2_table, Filled
    <2>7. n + 1 # Entries => n + 1 < Entries
      BY <2>2, Stage1Assumption DEF Indices
    <2> QED
      BY <2>3, <2>5, <2>6, <2>7 DEF TablesInv, Built
  <1>3. CASE enable_paging \/ start_long_mode \/ kernel_image \/ kernel_entry
    <2>1. tables' = tables /\ Built(Entries)
      BY <1>3 DEF enable_paging, start_long_mode, kernel_image, kernel_entry, tableVars,
                  TablesInv
    <2>2. Built(Entries)'
      BY <2>1 DEF Built
    <2>3. paging' /\ pc' \in {"start_long_mode", "kernel_image", "kernel_entry",
                              "kernel"}
      BY <1>3 DEF enable_paging, start_long_mode, kernel_image, kernel_entry, tableVars,
                  TablesInv
    <2> QED
      BY <2>2, <2>3 DEF TablesInv
  <1>4. CASE UNCHANGED <<tableVars, pc>>
    BY <1>4 DEF tableVars, TablesInv, Built
  <1>5. ASSUME UNCHANGED tableVars, pc \in InChecks, pc' \notin {"fill_l2_table",
               "enable_paging", "start_long_mode", "kernel_image",
               "kernel_entry", "kernel"}
        PROVE  TablesInv'
    BY <1>5 DEF tableVars, TablesInv, Built, InChecks, InA20
  <1>6. CASE e820_region \/ e820_done
    <2>1. UNCHANGED tableVars /\ pc \in InChecks
      BY <1>6 DEF e820_region, e820_done, InChecks, InA20
    <2>2. pc' \in {"get_memory_map", "check_a20"}
      BY <1>6 DEF e820_region, e820_done
    <2> QED
      BY <1>5, <2>1, <2>2
  <1>7. CASE ensure_a20 \/ enable_a20_fast
    <2>1. UNCHANGED tableVars /\ pc \in InChecks
      BY <1>7 DEF ensure_a20, check_a20, enable_a20_fast, InChecks, InA20
    <2>2. pc' \in {"start_protected_mode", "enable_a20", "check_again", "halt"}
      BY <1>7 DEF ensure_a20, check_a20, enable_a20_fast, Goto, Halt
    <2> QED
      BY <1>5, <2>1, <2>2
  <1>8. CASE check_CPUID \/ check_extended_functions \/ check_long_mode_support
    <2>1. UNCHANGED tableVars /\ pc \in InChecks
      BY <1>8 DEF check_CPUID, check_extended_functions, check_long_mode_support,
                  check, InChecks, InA20
    <2>2. pc' \in {"check_extended_functions", "check_long_mode_support",
                   "set_up_paging", "halt"}
      BY <1>8 DEF check_CPUID, check_extended_functions, check_long_mode_support,
                  check, Goto, Halt
    <2> QED
      BY <1>5, <2>1, <2>2
  <1>9. CASE UNCHANGED vars
    BY <1>4, <1>9 DEF vars
  <1>10. CASE start_protected_mode
    BY <1>5, <1>10 DEF start_protected_mode, Goto, InChecks
  <1> QED
    BY <1>1, <1>2, <1>3, <1>6, <1>7, <1>8, <1>9, <1>10 DEF Next

(* What the tables hold once they are built, an index at a time.           *)
LEMMA BuiltIsIdentity ==
    ASSUME Built(Entries), NEW i4 \in Indices, NEW i3 \in Indices, NEW i2 \in Indices
    PROVE  Walk(i4, i3, i2) = IF i4 = 0 /\ i3 = 0 THEN i2 ELSE Fault
<1>1. L4 + 2 * i4 \in Places /\ (i4 = 0 => L4 + 2 * i4 = L4)
  BY Layout DEF L4, Indices
<1>2. L3 + 2 * i3 \in Places /\ (i3 = 0 => L3 + 2 * i3 = L3)
  BY Layout DEF L3, Indices
<1>3. \A i \in 0 .. Entries - 1 : i \in Indices
  BY DEF Indices
<1>4. i4 # 0 => tables[L4 + 2 * i4] = Zero
  BY <1>1, <1>3, Apart DEF Built
<1>5. i3 # 0 => tables[L3 + 2 * i3] = Zero
  BY <1>2, <1>3, Apart DEF Built
<1>6. /\ tables[L4 + 1] = Zero /\ tables[L3 + 1] = Zero
      /\ tables[L2 + 2 * i2 + 1] = Zero
  <2>1. 0 \in Indices /\ L4 + 2 * 0 + 1 = L4 + 1 /\ L3 + 2 * 0 + 1 = L3 + 1
    BY Stage1Assumption DEF Indices, L4, L3, page_table_size
  <2>2. {L4 + 1, L3 + 1, L2 + 2 * i2 + 1} \subseteq Places
    BY <2>1, Layout
  <2>3. tables[L4 + 1] = Zero
    BY <1>3, <2>1, <2>2, Apart DEF Built
  <2>4. tables[L3 + 1] = Zero
    BY <1>3, <2>1, <2>2, Apart DEF Built
  <2>5. tables[L2 + 2 * i2 + 1] = Zero
    BY <1>3, <2>2, Apart DEF Built
  <2> QED
    BY <2>3, <2>4, <2>5
<1>7. tables[L2 + 2 * i2] = Page(i2)
  BY DEF Built, Indices
<1>8. ~Zero.present /\ Page(i2).present /\ Page(i2).huge /\ Page(i2).to = i2
  BY DEF Zero, Page
<1>9. Table(L3).present /\ Table(L2).present
  BY DEF Table
<1>10. CASE i4 = 0 /\ i3 = 0
  BY <1>1, <1>2, <1>6, <1>7, <1>8, <1>9, <1>10 DEF Walk, Points, Usable, Built
<1>11. CASE i4 # 0
  BY <1>4, <1>8, <1>11 DEF Walk, Points, Usable
<1>12. CASE i3 # 0
  BY <1>5, <1>8, <1>12 DEF Walk, Points, Usable
<1> QED
  BY <1>10, <1>11, <1>12

-----------------------------------------------------------------------------
(* The machine.                                                            *)

LEMMA MachineStep ==
    TypeOK /\ MachineInv /\ HaltsForReason /\ [Next]_vars =>
        MachineInv' /\ HaltsForReason'
  <1> SUFFICES ASSUME TypeOK, MachineInv, HaltsForReason, [Next]_vars
               PROVE  MachineInv' /\ HaltsForReason'
    OBVIOUS
  <1> USE DEF MachineInv, InA20, InChecks, HaltsForReason
  <1>1. CASE e820_region \/ e820_done
    BY <1>1 DEF e820_region, e820_done, a20Vars, machine
  <1>2. CASE ensure_a20
    <2>1. /\ Tested(cells)["low"] # Tested(cells)[Cell("high")] => a20
          /\ a20 => Tested(cells)["low"] # Tested(cells)[Cell("high")]
      BY DEF Tested, Stored, Cell, Cells, TypeOK
    <2>2. Differ(Tested(cells)) <=> a20
      BY <2>1 DEF Differ
    <2>3. UNCHANGED <<a20, machine>>
      BY <1>2 DEF ensure_a20, check_a20
    <2>4. CASE pc = "check_a20"
      <3>1. IF a20 THEN Goto("start_protected_mode") ELSE Goto("enable_a20")
        BY <1>2, <2>2, <2>4 DEF ensure_a20, check_a20
      <3> QED
        BY <2>3, <2>4, <3>1 DEF Goto, machine
    <2>5. CASE pc = "check_again"
      <3>1. IF a20 THEN Goto("start_protected_mode") ELSE Halt("A20")
        BY <1>2, <2>2, <2>5 DEF ensure_a20, check_a20
      <3> QED
        BY <2>3, <2>5, <3>1 DEF Goto, Halt, machine
    <2> QED
      BY <1>2, <2>4, <2>5 DEF ensure_a20
  <1>3. CASE enable_a20_fast
    BY <1>3 DEF enable_a20_fast, machine
  <1>4. CASE check_CPUID
    BY <1>4 DEF check_CPUID, check, Goto, Halt, a20Vars, machine
  <1>5. CASE check_extended_functions
    BY <1>5 DEF check_extended_functions, check, Goto, Halt, a20Vars, machine
  <1>6. CASE check_long_mode_support
    BY <1>6 DEF check_long_mode_support, check, Goto, Halt, a20Vars, machine
  <1>7. CASE set_up_paging
    BY <1>7 DEF set_up_paging, a20Vars, machine
  <1>8. CASE fill_l2_table
    BY <1>8 DEF fill_l2_table, a20Vars, machine
  <1>9. CASE enable_paging \/ start_long_mode \/ kernel_image \/ kernel_entry
    BY <1>9 DEF enable_paging, start_long_mode, kernel_image, kernel_entry, a20Vars,
                machine
  <1>10. CASE UNCHANGED vars
    BY <1>10 DEF vars, a20Vars, machine
  <1>11. CASE start_protected_mode
    BY <1>11 DEF start_protected_mode, Goto, a20Vars, machine
  <1> QED
    BY <1>1, <1>2, <1>3, <1>4, <1>5, <1>6, <1>7, <1>8, <1>9, <1>10, <1>11 DEF Next

-----------------------------------------------------------------------------
(* The theorems.                                                           *)

(* The invariant of the stage holds on every machine.                      *)
THEOREM Stage1Invariance == Spec => []Stage1Inv
<1>1. Init => Stage1Inv
  <2>1. Init => TablesInv /\ MachineInv /\ HaltsForReason
    BY DEF Init, TablesInv, MachineInv, HaltsForReason, InA20, InChecks
  <2> QED
    BY <2>1, InitType DEF Stage1Inv
<1>2. Stage1Inv /\ [Next]_vars => Stage1Inv'
  BY NextType, TablesStep, MachineStep DEF Stage1Inv
<1> QED
  BY <1>1, <1>2, PTL DEF Spec

(* While paging is on, each page of the first table's range is itself and  *)
(* nothing else is mapped, for tables of any size and any old contents.    *)
THEOREM PagesAreIdentity == Spec => []IdentityMapped
<1>1. Stage1Inv => IdentityMapped
  BY BuiltIsIdentity DEF Stage1Inv, TablesInv, IdentityMapped
<1> QED
  BY <1>1, Stage1Invariance, PTL

(* The kernel is entered with A20 open, in long mode, with paging on.      *)
THEOREM KernelEntered == Spec => []KernelCanRun
<1>1. Stage1Inv => KernelCanRun
  BY DEF Stage1Inv, TablesInv, MachineInv, InA20, InChecks, KernelCanRun
<1> QED
  BY <1>1, Stage1Invariance, PTL

(* A boot halts only on a machine that lacks what its message says.        *)
THEOREM HonestHalts == Spec => []HaltsForReason
<1>1. Stage1Inv => HaltsForReason
  BY DEF Stage1Inv
<1> QED
  BY <1>1, Stage1Invariance, PTL

(* Every step keeps the types: the loop counter stays within the table.    *)
THEOREM TypeCorrect == Spec => []TypeOK
<1>1. Stage1Inv => TypeOK
  BY DEF Stage1Inv
<1> QED
  BY <1>1, Stage1Invariance, PTL

-----------------------------------------------------------------------------
(* The memory map.                                                         *)

(* While the map is read, the continuation value is the number of regions  *)
(* stored; afterwards the map is whole, or the BIOS refused a value.       *)
Sorted(n) == Len(stored) = n /\ \A i \in 1..n : stored[i] = i - 1

MapInv ==
    /\ pc = "get_memory_map" => ebx =< bios.regions /\ Sorted(ebx)
    /\ pc # "get_memory_map" => refused \/ Sorted(bios.regions)

LEMMA Appended ==
    ASSUME NEW s \in Seq(Nat), NEW n \in Nat, Len(s) = n,
           \A i \in 1..n : s[i] = i - 1
    PROVE  /\ Len(Append(s, n)) = n + 1
           /\ \A i \in 1 .. n + 1 : Append(s, n)[i] = i - 1
<1>1. /\ Len(Append(s, n)) = n + 1 /\ Append(s, n)[n + 1] = n
      /\ \A i \in 1..n : Append(s, n)[i] = s[i]
  BY AppendProperties
<1> QED
  BY <1>1

LEMMA MapStep == TypeOK /\ MapInv /\ [Next]_vars => MapInv'
<1> SUFFICES ASSUME TypeOK, MapInv, [Next]_vars PROVE MapInv'
  OBVIOUS
<1>1. bios.regions \in Nat /\ ebx \in Nat /\ stored \in Seq(Nat)
  BY Stage1Assumption DEF TypeOK
<1>2. CASE e820_region
  <2>1. /\ pc = "get_memory_map" /\ ebx < bios.regions /\ Sorted(ebx)
        /\ stored' = Append(stored, ebx) /\ bios' = bios
        /\ ebx' = IF ebx + 1 = bios.regions /\ ~bios.carry THEN 0 ELSE ebx + 1
        /\ IF ebx' # 0 THEN pc' = pc ELSE pc' = "check_a20"
    BY <1>2 DEF e820_region, MapInv, MoreRegions, machine
  <2>2. /\ Len(stored') = ebx + 1
        /\ \A i \in 1 .. ebx + 1 : stored'[i] = i - 1
    BY <1>1, <2>1, Appended DEF Sorted
  <2>3. CASE ebx' = 0
    <3>1. ebx + 1 = bios.regions
      BY <1>1, <2>1, <2>3
    <3> QED
      BY <2>1, <2>2, <2>3, <3>1 DEF MapInv, Sorted
  <2>4. CASE ebx' # 0
    <3>1. ebx' = ebx + 1 /\ ebx' =< bios.regions
      BY <1>1, <2>1, <2>4
    <3> QED
      BY <2>1, <2>2, <2>4, <3>1 DEF MapInv, Sorted
  <2> QED
    BY <2>3, <2>4
<1>3. CASE e820_done
  <2>1. /\ pc = "get_memory_map" /\ pc' = "check_a20"
        /\ UNCHANGED <<ebx, stored, bios>> /\ refused' = (ebx < bios.regions)
    BY <1>3 DEF e820_done, machine
  <2>2. ebx < bios.regions \/ ebx = bios.regions
    BY <1>1, <2>1 DEF MapInv
  <2> QED
    BY <2>1, <2>2 DEF MapInv, Sorted
<1>4. ASSUME UNCHANGED <<stored, refused, bios>>,
             pc # "get_memory_map" /\ pc' # "get_memory_map"
      PROVE  MapInv'
  BY <1>4 DEF MapInv, Sorted
<1>5. CASE ensure_a20 \/ enable_a20_fast
  BY <1>4, <1>5 DEF ensure_a20, check_a20, Goto, Halt, enable_a20_fast,
                    mapVars, machine
<1>6. CASE check_CPUID \/ check_extended_functions \/ check_long_mode_support
  BY <1>4, <1>6 DEF check_CPUID, check_extended_functions,
                    check_long_mode_support, check, Goto, Halt, mapVars, machine
<1>7. CASE set_up_paging \/ fill_l2_table \/ enable_paging \/ start_long_mode
  BY <1>4, <1>7 DEF set_up_paging, fill_l2_table, enable_paging,
                    start_long_mode, mapVars, machine
<1>8. CASE UNCHANGED vars
  BY <1>8 DEF vars, mapVars, machine, MapInv, Sorted
<1>9. CASE start_protected_mode \/ kernel_image \/ kernel_entry
  BY <1>4, <1>9 DEF start_protected_mode, kernel_image, kernel_entry, Goto, mapVars,
                    machine
<1> QED
  BY <1>2, <1>3, <1>5, <1>6, <1>7, <1>8, <1>9 DEF Next

LEMMA MapInit == EbxHigh = {0} /\ Init => MapInv
<1> SUFFICES ASSUME EbxHigh = {0}, Init PROVE MapInv
  OBVIOUS
<1>1. ebx = 0 /\ stored = <<>> /\ bios.regions \in Nat /\ pc = "get_memory_map"
  BY Stage1Assumption DEF Init, FirstEbx
<1>2. Len(stored) = 0
  BY <1>1
<1> QED
  BY <1>1, <1>2 DEF MapInv, Sorted

LEMMA MapWhole == TypeOK /\ MapInv => MapComplete
<1> SUFFICES ASSUME TypeOK, MapInv, pc # "get_memory_map", ~refused
             PROVE  stored = [i \in 1..bios.regions |-> i - 1]
  BY DEF MapComplete
<1>1. /\ stored \in Seq(Nat) /\ Len(stored) = bios.regions
      /\ \A i \in 1..bios.regions : stored[i] = i - 1
  BY DEF TypeOK, MapInv, Sorted
<1>2. stored \in [1..bios.regions -> Nat]
  BY <1>1, LenProperties
<1> QED
  BY <1>1, <1>2

(* With the high word of EBX clear at the first call, a BIOS that refuses  *)
(* none of its own continuation values has its whole map stored, in its    *)
(* order, however long it is (get_memory_map clears BX only).              *)
THEOREM WholeMap ==
    ASSUME EbxHigh = {0}
    PROVE  Spec => []MapComplete
  BY MapInit, MapWhole, MapStep, TypeCorrect, PTL DEF Spec

-----------------------------------------------------------------------------
(* What is printed.                                                        *)

EarlySteps == {"get_memory_map", "check_a20", "enable_a20", "check_again",
               "start_protected_mode"}

(* The screen after n milestones, but for line "but".                      *)
ShowsBut(scr, n, but) ==
    \A i \in Lines \ {but} : scr[i] = IF i < n THEN Milestones[i + 1] ELSE "none"

Shows(scr, n) == ShowsBut(scr, n, 25)

(* In every place it is kept, the position is the number of milestones.    *)
ScreenInv ==
    /\ message = "none" <=> pc # "halt"
    /\ pc \in EarlySteps => line = 0
    /\ pc \notin EarlySteps \cup {"halt"} => line = Passed
    /\ pc \notin EarlySteps \cup {"halt", "kernel_entry"} => Shows(screen, Passed)
    /\ pc \in {"start_long_mode", "kernel_image", "kernel_entry"} => rax = Passed
    /\ pc = "kernel_entry" => ShowsBut(screen, Passed, Passed)
    /\ pc = "halt" => MessagesStand

LEMMA PassedIs ==
    /\ (message = "none" /\ pc = "check_CPUID") => Passed = 1
    /\ (message = "none" /\ pc = "check_extended_functions") => Passed = 2
    /\ (message = "none" /\ pc = "check_long_mode_support") => Passed = 3
    /\ (message = "none" /\ pc \in {"set_up_paging", "fill_l2_table"}) => Passed = 4
    /\ (message = "none" /\ pc = "enable_paging") => Passed = 5
    /\ (message = "none" /\ pc = "start_long_mode") => Passed = 6
    /\ (message = "none" /\ pc \in {"kernel_image", "kernel_entry"}) => Passed = 7
    /\ (message = "none" /\ pc = "kernel") => Passed = 8
  BY DEF Passed

(* A message at the position adds a line.                                  *)
LEMMA PrintShows ==
    ASSUME NEW scr, NEW n \in 0..7, Shows(scr, n) \/ ShowsBut(scr, n, n)
    PROVE  Shows(Written(scr, n, Milestones[n + 1]), n + 1)
  BY DEF Shows, ShowsBut, Written, Lines

(* The milestones in their order.                                          *)
LEMMA Order ==
    /\ Milestones[1] = "start_protected_mode" /\ Milestones[2] = "check_CPUID"
    /\ Milestones[3] = "check_extended_functions"
    /\ Milestones[4] = "check_long_mode_support"
    /\ Milestones[5] = "set_up_paging" /\ Milestones[6] = "enable_paging"
    /\ Milestones[7] = "start_long_mode" /\ Milestones[8] = "kernel_entry"
  BY DEF Milestones

(* A check that fails prints its reason where the next message would be.   *)
LEMMA FailureShows ==
    ASSUME NEW n \in 0..7, Shows(screen, n), pc' = "halt", Passed' = n,
           screen' = Written(screen, n, message')
    PROVE  MessagesStand'
  BY DEF MessagesStand, Expected, Shows, ShowsBut, Written, Lines

LEMMA ScreenStep == TypeOK /\ ScreenInv /\ [Next]_vars => ScreenInv'
<1> SUFFICES ASSUME TypeOK, ScreenInv, [Next]_vars PROVE ScreenInv'
  OBVIOUS
<1>1. ASSUME UNCHANGED <<screen, line, rax, message>>, pc \in EarlySteps,
             pc' \in EarlySteps
      PROVE  ScreenInv'
  BY <1>1 DEF ScreenInv, EarlySteps
<1>2. CASE e820_region \/ e820_done \/ enable_a20_fast
  BY <1>1, <1>2 DEF e820_region, e820_done, enable_a20_fast, screenVars, EarlySteps
<1>3. CASE ensure_a20
  <2>1. UNCHANGED <<screen, line, rax>> /\ pc \in EarlySteps
    BY <1>3 DEF ensure_a20, check_a20, screenVars, EarlySteps
  <2>2. \/ pc' \in EarlySteps /\ message' = message
        \/ pc' = "halt" /\ message' = "A20"
    BY <1>3 DEF ensure_a20, check_a20, Goto, Halt, EarlySteps
  <2>3. CASE pc' = "halt" /\ message' = "A20"
    BY <2>3 DEF ScreenInv, EarlySteps, MessagesStand, InRealMode
  <2> QED
    BY <1>1, <2>1, <2>2, <2>3
<1>4. CASE start_protected_mode
  <2> DEFINE clear == [i \in Lines |-> "none"]
  <2>1. /\ screen' = Written(clear, 0, Milestones[1])
        /\ line' = 1 /\ pc' = "check_CPUID" /\ message' = "none"
    BY <1>4, Order DEF start_protected_mode, Goto, NextLine, ScreenInv, EarlySteps
  <2>2. Shows(clear, 0)
    BY DEF Shows, ShowsBut, Lines
  <2> HIDE DEF clear
  <2>3. Shows(screen', 1)
    BY <2>1, <2>2, PrintShows
  <2>4. Passed' = 1
    BY <2>1 DEF Passed
  <2> QED
    BY <2>1, <2>3, <2>4 DEF ScreenInv, EarlySteps
<1>5. ASSUME NEW n \in 1..7, Passed = n, ScreenInv, pc \notin EarlySteps \cup {"halt"},
             message' = message, screen' = Written(screen, n, Milestones[n + 1]),
             Passed' = n + 1, line' = n + 1, rax' = n + 1 \/ pc' # "start_long_mode",
             rax' = n + 1 \/ pc' # "kernel_image",
             pc' \notin EarlySteps \cup {"halt", "kernel_entry"}
      PROVE  ScreenInv'
  <2>1. Shows(screen, n) \/ ShowsBut(screen, n, n)
    BY <1>5 DEF ScreenInv
  <2>2. Shows(screen', n + 1)
    BY <1>5, <2>1, PrintShows
  <2> QED
    BY <1>5, <2>2 DEF ScreenInv, EarlySteps
<1>6. ASSUME NEW n \in 1..3, Passed = n, ScreenInv,
             pc \notin EarlySteps \cup {"halt", "kernel_entry"},
             pc' = "halt", message' # "none", Passed' = n,
             screen' = Written(screen, n, message')
      PROVE  ScreenInv'
  <2>1. Shows(screen, n)
    BY <1>6 DEF ScreenInv
  <2>2. MessagesStand'
    BY <1>6, <2>1, FailureShows
  <2> QED
    BY <1>6, <2>2 DEF ScreenInv, EarlySteps
<1>7. CASE check_CPUID
  <2>1. /\ pc = "check_CPUID" /\ message = "none" /\ line = 1 /\ Passed = 1
    BY <1>7, PassedIs DEF check_CPUID, check, ScreenInv, EarlySteps
  <2>2. CASE Goto("check_extended_functions") /\ print(line, "check_CPUID")
    <3>1. Passed' = 2
      BY <2>1, <2>2 DEF Goto, Passed
    <3> QED
      BY <1>5, <2>1, <2>2, <3>1, Order DEF Goto, print, NextLine, EarlySteps
  <2>3. CASE Halt("CPUID") /\ print(line, "CPUID")
    <3>1. Passed' = 1
      BY <2>3 DEF Halt, Passed
    <3> QED
      BY <1>6, <2>1, <2>3, <3>1 DEF Halt, print, EarlySteps
  <2> QED
    BY <1>7, <2>2, <2>3 DEF check_CPUID, check
<1>8. CASE check_extended_functions
  <2>1. /\ pc = "check_extended_functions" /\ message = "none" /\ line = 2 /\ Passed = 2
    BY <1>8, PassedIs DEF check_extended_functions, check, ScreenInv, EarlySteps
  <2>2. CASE Goto("check_long_mode_support") /\ print(line, "check_extended_functions")
    <3>1. Passed' = 3
      BY <2>1, <2>2 DEF Goto, Passed
    <3> QED
      BY <1>5, <2>1, <2>2, <3>1, Order DEF Goto, print, NextLine, EarlySteps
  <2>3. CASE Halt("extended_functions") /\ print(line, "extended_functions")
    <3>1. Passed' = 2
      BY <2>3 DEF Halt, Passed
    <3> QED
      BY <1>6, <2>1, <2>3, <3>1 DEF Halt, print, EarlySteps
  <2> QED
    BY <1>8, <2>2, <2>3 DEF check_extended_functions, check
<1>9. CASE check_long_mode_support
  <2>1. /\ pc = "check_long_mode_support" /\ message = "none" /\ line = 3 /\ Passed = 3
    BY <1>9, PassedIs DEF check_long_mode_support, check, ScreenInv, EarlySteps
  <2>2. CASE Goto("set_up_paging") /\ print(line, "check_long_mode_support")
    <3>1. Passed' = 4
      BY <2>1, <2>2 DEF Goto, Passed
    <3> QED
      BY <1>5, <2>1, <2>2, <3>1, Order DEF Goto, print, NextLine, EarlySteps
  <2>3. CASE Halt("long_mode") /\ print(line, "long_mode")
    <3>1. Passed' = 3
      BY <2>3 DEF Halt, Passed
    <3> QED
      BY <1>6, <2>1, <2>3, <3>1 DEF Halt, print, EarlySteps
  <2> QED
    BY <1>9, <2>2, <2>3 DEF check_long_mode_support, check
<1>10. ASSUME UNCHANGED <<screen, line, message>>,
              pc \in {"set_up_paging", "fill_l2_table"}, pc' = "fill_l2_table"
       PROVE  ScreenInv'
  <2>1. message = "none" /\ Passed = 4 /\ line = 4 /\ Shows(screen, 4)
    BY <1>10, PassedIs DEF ScreenInv, EarlySteps
  <2>2. Passed' = 4
    BY <1>10, <2>1 DEF Passed
  <2> QED
    BY <1>10, <2>1, <2>2 DEF ScreenInv, EarlySteps
<1>11. CASE set_up_paging
  BY <1>10, <1>11 DEF set_up_paging, screenVars
<1>12. CASE fill_l2_table
  <2>1. CASE UNCHANGED <<pc, screen, line>>
    BY <1>10, <1>12, <2>1 DEF fill_l2_table
  <2>2. CASE pc' = "enable_paging" /\ print(line, "set_up_paging")
    <3>1. message' = message /\ message = "none" /\ Passed = 4 /\ line = 4
          /\ pc = "fill_l2_table"
      BY <1>12, PassedIs DEF fill_l2_table, ScreenInv, EarlySteps
    <3>2. Passed' = 5
      BY <2>2, <3>1 DEF Passed
    <3> QED
      BY <1>5, <2>2, <3>1, <3>2, Order DEF print, NextLine, EarlySteps
  <2> QED
    BY <1>12, <2>1, <2>2 DEF fill_l2_table
<1>13. CASE enable_paging
  <2>1. /\ pc = "enable_paging" /\ message = "none" /\ line = 5 /\ Passed = 5
        /\ pc' = "start_long_mode" /\ message' = message
        /\ screen' = Written(screen, 5, "enable_paging") /\ line' = 6 /\ rax' = 6
    BY <1>13, PassedIs DEF enable_paging, print, NextLine, ScreenInv, EarlySteps
  <2>2. Passed' = 6
    BY <2>1 DEF Passed
  <2> QED
    BY <1>5, <2>1, <2>2, Order DEF EarlySteps
<1>14. CASE start_long_mode
  <2>1. /\ pc = "start_long_mode" /\ message = "none" /\ rax = 6 /\ Passed = 6
        /\ pc' = "kernel_image" /\ message' = message
        /\ screen' = Written(screen, 6, "start_long_mode") /\ line' = 7 /\ rax' = 7
    BY <1>14, PassedIs
       DEF start_long_mode, Handed, print_64_bits, print, NextLine, ScreenInv, EarlySteps
  <2>2. Passed' = 7
    BY <2>1 DEF Passed
  <2> QED
    BY <1>5, <2>1, <2>2, Order DEF EarlySteps
<1>15. CASE kernel_image
  <2>1. /\ pc = "kernel_image" /\ message = "none" /\ rax = 7 /\ Passed = 7 /\ line = 7
        /\ pc' = "kernel_entry" /\ UNCHANGED <<message, line, rax>>
        /\ screen' = Written(screen, 7, "stray") /\ Shows(screen, 7)
    BY <1>15, PassedIs DEF kernel_image, ScreenInv, EarlySteps
  <2>2. Passed' = 7
    BY <2>1 DEF Passed
  <2>3. ShowsBut(screen', 7, 7)
    BY <2>1 DEF Shows, ShowsBut, Written, Lines
  <2> QED
    BY <2>1, <2>2, <2>3 DEF ScreenInv, EarlySteps
<1>16. CASE kernel_entry
  <2>1. /\ pc = "kernel_entry" /\ message = "none" /\ rax = 7 /\ Passed = 7
        /\ pc' = "kernel" /\ message' = message
        /\ screen' = Written(screen, 7, "kernel_entry") /\ line' = 8
    BY <1>16, PassedIs DEF kernel_entry, print_64_bits, print, NextLine, ScreenInv,
                              EarlySteps
  <2>2. Passed' = 8
    BY <2>1 DEF Passed
  <2> QED
    BY <1>5, <2>1, <2>2, Order DEF EarlySteps
<1>17. CASE UNCHANGED vars
  BY <1>17 DEF vars, screenVars, ScreenInv, Passed, MessagesStand, Expected, InRealMode,
               Shows, ShowsBut
<1> QED
  BY <1>2, <1>3, <1>4, <1>7, <1>8, <1>9, <1>11, <1>12, <1>13, <1>14, <1>15, <1>16, <1>17
     DEF Next

(* What was printed stands in every state that the invariant allows.       *)
LEMMA ScreenStands == TypeOK /\ ScreenInv => MessagesStand
<1> SUFFICES ASSUME TypeOK, ScreenInv, ~InRealMode, pc # "halt" PROVE MessagesStand
  BY DEF ScreenInv, MessagesStand
<1>1. pc \notin EarlySteps \cup {"halt"} /\ message = "none"
  BY DEF ScreenInv, InRealMode, EarlySteps
<1>2. Passed \in 0..8
  BY DEF Passed
<1>3. CASE pc = "kernel_entry"
  BY <1>1, <1>2, <1>3 DEF ScreenInv, MessagesStand, Expected, ShowsBut
<1>4. CASE pc # "kernel_entry"
  BY <1>1, <1>2, <1>4 DEF ScreenInv, MessagesStand, Expected, Shows, ShowsBut, Lines
<1> QED
  BY <1>3, <1>4

(* What was printed stands, on every machine: stage 1 and the kernel agree *)
(* on the line through two variables and RAX, and the start of the image   *)
(* that runs as code writes where the next message goes.                   *)
THEOREM MessagesAreKept == Spec => []MessagesStand
<1>1. Init => ScreenInv
  BY DEF Init, ScreenInv, EarlySteps
<1> QED
  BY <1>1, ScreenStands, ScreenStep, TypeCorrect, PTL DEF Spec
=============================================================================
