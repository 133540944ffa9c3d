-------------------------- MODULE DeadCodeProofs --------------------------
(***************************************************************************)
(* MyPass erases no instruction that is still pointed to, and leaves what  *)
(* removing trivially dead instructions one at a time must leave, for      *)
(* functions of every size and for every order of the worklist.            *)
(***************************************************************************)
EXTENDS DeadCode, TLAPS

(* Whatever is dead is still ahead of the scan or waits in the worklist. *)
Found == \A i \in alive : Dead(i) /\ preserved = "running" =>
                            i >= pos \/ i \in nextdelinstructs

(* When run() has returned, nothing dead is left. *)
NothingDead == preserved # "running" => \A i \in alive : ~Dead(i)

ChangedInv == changed <=> alive # Instr

IInv == NoDangling /\ Found /\ NothingDead /\ ChangedInv /\ Kept \subseteq alive

-----------------------------------------------------------------------------
(* TypeOK holds of every state of the pass. *)
THEOREM TypeCorrect == Spec => []TypeOK
<1>1. Init => TypeOK
  <2>. SUFFICES ASSUME Init PROVE TypeOK
    OBVIOUS
  <2>1. program \in [ops : [Instr -> SUBSET Instr], removable : SUBSET Instr]
    BY ProgramsAssumption, Zenon DEF Init, Start
  <2>2. 1 \in 1..N + 1
    BY ProgramsAssumption
  <2>. QED
    BY <2>1, <2>2 DEF Init, Start, TypeOK
<1>2. TypeOK /\ [Next]_vars => TypeOK'
  <2>. SUFFICES ASSUME TypeOK, [Next]_vars PROVE TypeOK'
    OBVIOUS
  <2>a. N \in Nat /\ pos \in 1..N + 1
    BY ProgramsAssumption DEF TypeOK
  <2>b. ASSUME NEW i \in Instr PROVE LosesLastUser(i) \subseteq Instr
    BY <2>b DEF LosesLastUser, TypeOK
  <2>c. ASSUME NEW i \in Instr, NEW rest \in SUBSET nextdelinstructs,
               MakeInstructionDead(i, rest)
        PROVE  alive' \subseteq Instr /\ nextdelinstructs' \subseteq Instr
               /\ changed' \in BOOLEAN
    BY <2>b, <2>c DEF MakeInstructionDead, TypeOK
  <2>1. CASE Scan
    <3>1. pos \in Instr /\ pos' \in 1..N + 1
      BY <2>1, <2>a DEF Scan, Instr
    <3>2. alive' \subseteq Instr /\ nextdelinstructs' \subseteq Instr
          /\ changed' \in BOOLEAN
      BY <2>1, <2>c, <3>1 DEF Scan, TypeOK
    <3>. QED
      BY <2>1, <3>1, <3>2 DEF Scan, TypeOK
  <2>2. CASE Drain
    BY <2>2, <2>c DEF Drain, TypeOK
  <2>3. CASE Return
    BY <2>3 DEF Return, TypeOK
  <2>4. CASE UNCHANGED vars
    BY <2>4 DEF vars, TypeOK
  <2>. QED
    BY <2>1, <2>2, <2>3, <2>4 DEF Next
<1>. QED
  BY <1>1, <1>2, PTL DEF Spec

(* An instruction that something in Kept needs is not dead. *)
LEMMA KeptStays ==
  ASSUME Kept \subseteq alive, NEW i, Dead(i)
  PROVE  i \notin Kept
<1>. SUFFICES ASSUME i \in Kept PROVE FALSE
  OBVIOUS
<1>1. PICK S \in SUBSET Instr : Supported(S) /\ i \in S
  BY DEF Kept
<1>2. S \subseteq alive
  BY <1>1 DEF Kept
<1>. QED
  BY <1>1, <1>2 DEF Supported, Dead

(* Erasing a dead instruction i of the function keeps IInv, if every other *)
(* dead one is ahead of the scan or in rest.                               *)
LEMMA EraseStep ==
  ASSUME TypeOK, IInv, preserved = "running",
         NEW i \in alive, NEW rest \in SUBSET nextdelinstructs, i \notin rest,
         MakeInstructionDead(i, rest),
         UNCHANGED <<program, preserved>>,
         pos' \in Int, pos'..N \subseteq alive \ {i},
         \A d \in alive \ {i} : Dead(d) => d >= pos' \/ d \in rest,
         i >= pos' => Dead(i)
  PROVE  IInv'
<1>1. CASE Dead(i)
  <2>1. /\ alive' = alive \ {i} /\ changed' = TRUE
        /\ nextdelinstructs' = rest \cup LosesLastUser(i)
    BY <1>1 DEF MakeInstructionDead
  <2>2. NoDangling'
    <3>1. LosesLastUser(i) \subseteq alive \ {i}
      BY DEF LosesLastUser, IInv, NoDangling
    <3>2. nextdelinstructs' \subseteq alive'
      BY <2>1, <3>1 DEF IInv, NoDangling
    <3>3. \A j \in alive' : program.ops[j] \subseteq alive'
      BY <1>1, <2>1 DEF IInv, NoDangling, Dead
    <3>. QED
      BY <2>1, <3>2, <3>3 DEF NoDangling
  <2>3. Found'
    <3>. SUFFICES ASSUME NEW d \in alive', Dead(d)'
                  PROVE  d >= pos' \/ d \in nextdelinstructs'
      BY DEF Found
    <3>1. CASE Dead(d)
      BY <2>1, <3>1
    <3>2. CASE ~Dead(d)
      <4>1. d \in program.removable /\ \A j \in alive \ {i} : d \notin program.ops[j]
        BY <2>1 DEF Dead
      <4>2. d \in program.ops[i] /\ d # i
        BY <2>1, <3>2, <4>1 DEF Dead
      <4>. QED
        BY <2>1, <4>1, <4>2 DEF LosesLastUser
    <3>. QED
      BY <3>1, <3>2
  <2>4. NothingDead'
    BY DEF NothingDead
  <2>5. ChangedInv'
    BY <2>1 DEF ChangedInv, TypeOK, Instr
  <2>6. Kept' = Kept
    BY DEF Kept, Supported
  <2>7. Kept' \subseteq alive'
    BY <1>1, <2>1, <2>6, KeptStays DEF IInv
  <2>. QED
    BY <2>2, <2>3, <2>4, <2>5, <2>7 DEF IInv
<1>2. CASE ~Dead(i)
  <2>1. UNCHANGED <<program, alive, preserved, changed>> /\ nextdelinstructs' = rest
    BY <1>2 DEF MakeInstructionDead
  <2>2. NoDangling'
    BY <2>1 DEF IInv, NoDangling
  <2>3. Found'
    BY <1>2, <2>1 DEF Found, Dead
  <2>4. NothingDead' /\ ChangedInv'
    BY <2>1 DEF IInv, NothingDead, ChangedInv
  <2>5. Kept' \subseteq alive'
    BY <2>1 DEF IInv, Kept, Supported
  <2>. QED
    BY <2>2, <2>3, <2>4, <2>5 DEF IInv
<1>. QED
  BY <1>1, <1>2

(* IInv holds throughout: it says why one scan and the worklist are enough. *)
LEMMA InvCorrect == Spec => []IInv
<1>1. Init => IInv
  <2>. SUFFICES ASSUME Init PROVE IInv
    OBVIOUS
  <2>1. /\ N \in Nat /\ alive = 1..N /\ pos = 1 /\ nextdelinstructs = {}
        /\ program.ops \in [Instr -> SUBSET Instr]
        /\ preserved = "running" /\ changed = FALSE
    BY ProgramsAssumption DEF Init, Start, Instr
  <2>2. NoDangling
    BY <2>1 DEF NoDangling, Instr
  <2>3. Found
    BY <2>1 DEF Found
  <2>4. NothingDead /\ ChangedInv
    BY <2>1 DEF NothingDead, ChangedInv, Instr
  <2>5. Kept \subseteq alive
    BY <2>1 DEF Kept, Instr
  <2>. QED
    BY <2>2, <2>3, <2>4, <2>5 DEF IInv
<1>2. TypeOK /\ IInv /\ [Next]_vars => IInv'
  <2>. SUFFICES ASSUME TypeOK, IInv, [Next]_vars PROVE IInv'
    OBVIOUS
  <2>a. N \in Nat /\ pos \in Nat /\ nextdelinstructs \subseteq alive
        /\ pos..N \subseteq alive /\ alive \subseteq 1..N
    BY ProgramsAssumption DEF TypeOK, IInv, NoDangling, Instr
  <2>1. CASE Scan
    <3>1. /\ preserved = "running" /\ pos' = pos + 1 /\ pos \in alive
          /\ UNCHANGED <<program, preserved>>
      BY <2>1, <2>a DEF Scan
    <3>2. pos' \in Int /\ pos'..N \subseteq alive \ {pos} /\ ~(pos >= pos')
      BY <2>a, <3>1
    <3>3. \A d \in alive \ {pos} : Dead(d) => d >= pos' \/ d \in nextdelinstructs
      BY <2>a, <3>1 DEF IInv, Found
    <3>4. CASE pos \in nextdelinstructs
      <4>1. UNCHANGED <<alive, nextdelinstructs, changed>>
        BY <2>1, <3>4 DEF Scan
      <4>2. NoDangling'
        BY <3>1, <3>2, <4>1 DEF IInv, NoDangling
      <4>3. Found'
        BY <3>1, <3>3, <3>4, <4>1 DEF Found, Dead
      <4>4. NothingDead' /\ ChangedInv' /\ Kept' \subseteq alive'
        BY <3>1, <4>1 DEF IInv, NothingDead, ChangedInv, Kept, Supported
      <4>. QED
        BY <4>2, <4>3, <4>4 DEF IInv
    <3>5. CASE pos \notin nextdelinstructs
      BY <2>1, <3>1, <3>2, <3>3, <3>5, EraseStep DEF Scan
    <3>. QED
      BY <3>4, <3>5
  <2>2. CASE Drain
    <3>1. PICK i \in nextdelinstructs : MakeInstructionDead(i, nextdelinstructs \ {i})
      BY <2>2 DEF Drain
    <3>2. /\ preserved = "running" /\ pos' = pos /\ pos > N
          /\ UNCHANGED <<program, preserved>> /\ i \in alive
      BY <2>2, <2>a DEF Drain
    <3>3. pos' \in Int /\ pos'..N \subseteq alive \ {i} /\ ~(i >= pos')
      BY <2>a, <3>2
    <3>4. \A d \in alive \ {i} : Dead(d) => d >= pos' \/ d \in nextdelinstructs \ {i}
      BY <2>a, <3>2 DEF IInv, Found
    <3>. QED
      BY <3>1, <3>2, <3>3, <3>4, EraseStep
  <2>3. CASE Return
    <3>1. /\ UNCHANGED <<program, alive, nextdelinstructs, pos, changed>>
          /\ preserved' # "running" /\ preserved = "running" /\ nextdelinstructs = {}
      BY <2>3 DEF Return
    <3>2. \A i \in alive : ~Dead(i)
      BY <2>3, <2>a DEF Return, IInv, Found
    <3>. QED
      BY <3>1, <3>2 DEF IInv, NoDangling, Found, NothingDead, ChangedInv, Dead,
                        Kept, Supported
  <2>4. CASE UNCHANGED vars
    BY <2>4 DEF vars, IInv, NoDangling, Found, NothingDead, ChangedInv, Dead,
                Kept, Supported
  <2>. QED
    BY <2>1, <2>2, <2>3, <2>4 DEF Next
<1>. QED
  BY <1>1, <1>2, TypeCorrect, PTL DEF Spec

(* MyPass never uses an erased instruction: none that is queued, ahead of the *)
(* scan or an operand of a remaining instruction has been erased.             *)
THEOREM NoDanglingCorrect == Spec => []NoDangling
<1>1. IInv => NoDangling
  BY DEF IInv
<1>. QED
  BY <1>1, InvCorrect, PTL

(* When MyPass returns, exactly the instructions of Kept are left, whatever *)
(* the order in which the worklist handed them out.                         *)
THEOREM KeepsExactlyCorrect == Spec => []KeepsExactly
<1>1. TypeOK /\ IInv => KeepsExactly
  <2>. SUFFICES ASSUME TypeOK, IInv, preserved # "running" PROVE alive = Kept
    BY DEF KeepsExactly
  <2>1. alive \subseteq Instr
    BY DEF TypeOK
  <2>2. Supported(alive)
    BY DEF IInv, NothingDead, Dead, Supported
  <2>3. alive \subseteq Kept
    BY <2>1, <2>2 DEF Kept
  <2>. QED
    BY <2>3 DEF IInv
<1>. QED
  BY <1>1, TypeCorrect, InvCorrect, PTL

(* Every step of MyPass removes one dead instruction, reports the end, or *)
(* stutters: the pass implements removal in an arbitrary order.           *)
THEOREM RemovalCorrect == Spec => Removal
<1>1. Init => Start
  BY DEF Init
<1>2. TypeOK /\ IInv /\ [Next]_vars => [Remove \/ Report]_absvars
  <2>. SUFFICES ASSUME TypeOK, IInv, [Next]_vars PROVE [Remove \/ Report]_absvars
    OBVIOUS
  <2>a. N \in Nat /\ pos \in Nat /\ nextdelinstructs \subseteq alive
        /\ pos..N \subseteq alive
    BY ProgramsAssumption DEF TypeOK, IInv, NoDangling
  <2>b. ASSUME NEW i \in alive, NEW rest, MakeInstructionDead(i, rest),
               preserved = "running", UNCHANGED <<program, preserved>>
        PROVE  [Remove \/ Report]_absvars
    BY <2>b DEF MakeInstructionDead, Remove, absvars
  <2>1. CASE Scan
    <3>1. pos \in alive
      BY <2>1, <2>a DEF Scan
    <3>. QED
      BY <2>1, <2>b, <3>1 DEF Scan, absvars
  <2>2. CASE Drain
    BY <2>2, <2>a, <2>b DEF Drain
  <2>3. CASE Return
    <3>1. \A i \in alive : ~Dead(i)
      <4>1. alive \subseteq 1..N /\ pos > N
        BY <2>3 DEF Return, TypeOK, Instr
      <4>. QED
        BY <2>3, <2>a, <4>1 DEF Return, IInv, Found
    <3>2. changed <=> alive # Instr
      BY DEF IInv, ChangedInv
    <3>. QED
      BY <2>3, <3>1, <3>2 DEF Return, Report
  <2>4. CASE UNCHANGED vars
    BY <2>4 DEF vars, absvars
  <2>. QED
    BY <2>1, <2>2, <2>3, <2>4 DEF Next
<1>. QED
  BY <1>1, <1>2, TypeCorrect, InvCorrect, PTL DEF Spec, Removal, RemoveSpec
=============================================================================
