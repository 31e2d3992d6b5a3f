------------------------ MODULE RulesMeasuresProofs ------------------------
(***************************************************************************)
(* Proofs about what the rules judge and how: no excess goes unnoticed,    *)
(* and a second run on the same readings changes nothing, for any number   *)
(* of modules, banks and relays, any readings and any settings.            *)
(*                                                                         *)
(* The extremes are chosen from sets, the bank voltages summed and the     *)
(* lowest temperature searched recursively.  What these give is proved     *)
(* with the least number of a set (Least), as no theorem of the library    *)
(* that takes an operator is of use to the provers.                        *)
(***************************************************************************)
EXTENDS RulesTaskProofs, FiniteSetTheorems, WellFoundedInduction

(***************************************************************************)
(* Numbers and sets.                                                       *)
(***************************************************************************)

\* A set of natural numbers that is not empty has a least element.
LEMMA Least ==
    ASSUME NEW S, S \subseteq Nat, S # {}
    PROVE  \E n \in S : \A k \in S : n <= k
<1>1. PICK n \in S : \A k \in S : ~(<<k, n>> \in OpToRel(<, Nat))
    BY WFMin, NatLessThanWellFounded
<1>2. ASSUME NEW k \in S, k < n
      PROVE  <<k, n>> \in OpToRel(<, Nat)
    BY <1>2 DEF OpToRel
<1>3. \A k \in S : ~(k < n)
    BY <1>1, <1>2, Zenon
<1> HIDE <1>1, <1>2
<1> QED
    BY <1>3

\* Induction over the natural numbers, stated of a set so that the provers can use it.
LEMMA Induction ==
    ASSUME NEW S, 0 \in S, \A n \in Nat : n \in S => n + 1 \in S
    PROVE  Nat \subseteq S
<1> SUFFICES ASSUME Nat \ S # {}
             PROVE  FALSE
    OBVIOUS
<1>1. PICK n \in Nat \ S : \A k \in Nat \ S : n <= k
    BY Least
<1>2. n - 1 \in Nat /\ n - 1 \notin Nat \ S
    BY <1>1
<1> QED
    BY <1>1, <1>2

\* A finite set of numbers has a largest and a smallest one.
LEMMA Extremes ==
    ASSUME NEW S, S \subseteq Int, IsFiniteSet(S), S # {}
    PROVE  /\ Max(S) \in S /\ \A x \in S : x <= Max(S)
           /\ Min(S) \in S /\ \A x \in S : Min(S) <= x
<1> DEFINE Has(T) == /\ \E high \in T : \A x \in T : high >= x
                     /\ \E low \in T : \A x \in T : low <= x
           Good == {n \in Nat : \A T \in SUBSET S :
                       IsFiniteSet(T) /\ Cardinality(T) = n + 1 => Has(T)}
<1>1. 0 \in Good
    <2> SUFFICES ASSUME NEW T \in SUBSET S, IsFiniteSet(T), Cardinality(T) = 1
                 PROVE  Has(T)
        OBVIOUS
    <2>1. PICK x : T = {x}
        BY FS_Singleton
    <2> QED
        BY <2>1
<1>2. ASSUME NEW n \in Nat, n \in Good
      PROVE  n + 1 \in Good
    <2> SUFFICES ASSUME NEW T \in SUBSET S, IsFiniteSet(T), Cardinality(T) = n + 2
                 PROVE  Has(T)
        BY <1>2
    <2>1. T # {}
        BY FS_EmptySet
    <2>2. PICK e \in T : TRUE
        BY <2>1
    <2>3. IsFiniteSet(T \ {e}) /\ Cardinality(T \ {e}) = n + 1 /\ T \ {e} \in SUBSET S
        BY FS_RemoveElement
    <2>4. Has(T \ {e})
        BY <1>2, <2>3
    <2>5. \E high \in T : \A x \in T : high >= x
        BY <2>2, <2>4
    <2>6. \E low \in T : \A x \in T : low <= x
        BY <2>2, <2>4
    <2> QED
        BY <2>5, <2>6
<1>3. Nat \subseteq Good
    <2> HIDE DEF Good
    <2> QED
        BY <1>1, <1>2, Induction
<1>4. Cardinality(S) \in Nat /\ Cardinality(S) # 0
    BY FS_CardinalityType, FS_EmptySet
<1>5. Cardinality(S) - 1 \in Good
    BY <1>3, <1>4
<1>6. Has(S)
    BY <1>4, <1>5
<1>7. Max(S) \in S /\ \A x \in S : Max(S) >= x
    BY <1>6, Zenon DEF Max
<1>8. Min(S) \in S /\ \A x \in S : Min(S) <= x
    BY <1>6, Zenon DEF Min
<1> HIDE DEF Has, Good
<1> QED
    BY <1>7, <1>8

(***************************************************************************)
(* The recursive definitions have values.                                  *)
(***************************************************************************)

\* Configured modules are modules.
LEMMA Configured ==
    ASSUME TypeOK
    PROVE  /\ layout.banks \in 1 .. 4 /\ layout.series \in 1 .. MaxModules
           /\ MaxModules \in Nat \ {0}
           /\ LastModule \in Module
           /\ ValidModules \subseteq Module
           /\ \A m \in ValidModules : m \div layout.series \in 0 .. layout.banks - 1
           /\ \A m \in Module : cell[m] \in Cell
<1>1. /\ layout.banks \in 1 .. 4 /\ layout.series \in 1 .. MaxModules
      /\ layout.banks * layout.series <= MaxModules
      /\ MaxModules \in Nat \ {0}
    BY LayoutsAssumption, ModulesAssumption DEF TypeOK
<1> DEFINE b == layout.banks
           s == layout.series
<1> HIDE DEF b, s
<1>2. b \in 1 .. 4 /\ s \in 1 .. MaxModules /\ b * s <= MaxModules /\ MaxModules \in Nat
    BY <1>1 DEF b, s
<1>3. b * s \in Nat \ {0}
    <2>1. CASE b = 1
        BY <1>2, <2>1
    <2>2. CASE b = 2
        BY <1>2, <2>2
    <2>3. CASE b = 3
        BY <1>2, <2>3
    <2>4. CASE b = 4
        BY <1>2, <2>4
    <2> QED
        BY <1>2, <2>1, <2>2, <2>3, <2>4
<1>4. LastModule = b * s - 1
    BY DEF LastModule, b, s
<1>5. ASSUME NEW m \in 0 .. LastModule
      PROVE  m \div s \in 0 .. b - 1
    <2>1. m \in Nat /\ m < b * s
        BY <1>3, <1>4, <1>5
    <2>2. PICK q \in Int, r \in 0 .. s - 1 : m = s * q + r /\ q = m \div s
        BY <1>2, <2>1, Z3
    <2>3. q >= 0
        <3>1. q <= -1 => s * q <= -s
            BY <1>2, <2>2
        <3> QED
            BY <1>2, <2>1, <2>2, <3>1
    <2>4. q < b
        <3>1. q >= b => s * q >= s * b
            BY <1>2, <2>2
        <3>2. s * b = b * s
            BY <1>2
        <3> QED
            BY <1>2, <1>3, <2>1, <2>2, <3>1, <3>2
    <2> QED
        BY <1>2, <2>2, <2>3, <2>4
<1>6. LastModule \in Module /\ ValidModules \subseteq Module /\ ValidModules \subseteq 0 .. LastModule
    BY <1>2, <1>3, <1>4 DEF Module, ValidModules
<1> QED
    BY <1>1, <1>5, <1>6 DEF TypeOK, s, b

\* Voltages and temperatures are integers within the widths of their fields.
LEMMA Ranges ==
    /\ \A v \in Voltage : v \in Int /\ 0 <= v
    /\ \A t \in Temperature : t \in Int /\ -128 <= t /\ t <= 127
<1> DEFINE high == 8191
<1>1. high \in Nat
    OBVIOUS
<1> HIDE DEF high
<1>2. \A v \in 0 .. high : v \in Int /\ 0 <= v
    BY <1>1
<1> QED
    BY <1>2 DEF Voltage, Temperature, high

\* The readings of a module are integers within those widths.
LEMMA CellsTyped ==
    ASSUME TypeOK, NEW m \in Module
    PROVE  /\ cell[m].voltagemV \in Int /\ 0 <= cell[m].voltagemV
           /\ cell[m].internalTemp \in Int
           /\ -128 <= cell[m].internalTemp /\ cell[m].internalTemp <= 127
           /\ cell[m].externalTemp \in Int
           /\ -128 <= cell[m].externalTemp /\ cell[m].externalTemp <= 127
<1>1. cell[m] \in Cell
    BY Configured
<1>2. /\ cell[m].voltagemV \in Voltage
      /\ cell[m].internalTemp \in Temperature
      /\ cell[m].externalTemp \in Temperature
    BY <1>1 DEF Cell
<1> QED
    BY <1>2, Ranges

\* The search for the lowest internal temperature ends in a temperature.
LEMMA LowestTyped ==
    ASSUME TypeOK
    PROVE  \A m \in -1 .. MaxModules - 1 : lowestInternalTempUpTo[m] \in Int
<1> DEFINE Body(g, m) ==
               IF m = -1 THEN 127
               ELSE IF m \in ValidModules /\ cell[m].externalTemp < g[m - 1]
                    THEN cell[m].internalTemp ELSE g[m - 1]
           Good == {n \in Nat : \E g : g = [m \in -1 .. n - 1 |-> Body(g, m)]}
<1>1. 0 \in Good
    <2> DEFINE g == [m \in -1 .. -1 |-> 127]
    <2>1. g = [m \in -1 .. 0 - 1 |-> Body(g, m)]
        OBVIOUS
    <2> QED
        BY <2>1
<1>2. ASSUME NEW n \in Nat, n \in Good
      PROVE  n + 1 \in Good
    <2>1. PICK g : g = [m \in -1 .. n - 1 |-> Body(g, m)]
        BY <1>2
    <2> DEFINE h == [m \in -1 .. n |-> IF m = n THEN Body(g, n) ELSE g[m]]
    <2>2. \A m \in -1 .. n - 1 : h[m] = g[m]
        OBVIOUS
    <2>3. ASSUME NEW m \in -1 .. n
          PROVE  h[m] = Body(h, m)
        <3>1. m = -1 \/ (m - 1 \in -1 .. n - 1 /\ h[m - 1] = g[m - 1])
            OBVIOUS
        <3>2. Body(h, m) = Body(g, m)
            BY <3>1
        <3>3. CASE m = n
            BY <3>2, <3>3
        <3>4. CASE m \in -1 .. n - 1
            <4>1. g[m] = Body(g, m)
                BY <2>1, <3>4
            <4> QED
                BY <2>2, <3>2, <3>4, <4>1
        <3> QED
            BY <3>3, <3>4
    <2>4. h = [m \in -1 .. (n + 1) - 1 |-> Body(h, m)]
        <3>1. (n + 1) - 1 = n
            OBVIOUS
        <3>2. h = [m \in -1 .. n |-> h[m]]
            OBVIOUS
        <3> HIDE DEF h, Body
        <3> QED
            BY <2>3, <3>1, <3>2
    <2>5. \E f : f = [m \in -1 .. (n + 1) - 1 |-> Body(f, m)]
        <3> HIDE DEF h, Body
        <3> QED
            BY <2>4, Zenon
    <2> QED
        BY <2>5
<1>3. Nat \subseteq Good
    <2> HIDE DEF Good
    <2> QED
        BY <1>1, <1>2, Induction
<1>4. \E g : g = [m \in -1 .. MaxModules - 1 |-> Body(g, m)]
    BY <1>3, Configured
<1>5. lowestInternalTempUpTo = [m \in -1 .. MaxModules - 1 |-> Body(lowestInternalTempUpTo, m)]
    BY <1>4, Zenon DEF lowestInternalTempUpTo
<1> DEFINE Typed == {n \in Nat : n <= MaxModules => lowestInternalTempUpTo[n - 1] \in Int}
<1>6. 0 \in Typed
    <2>1. -1 \in -1 .. MaxModules - 1
        BY Configured
    <2> QED
        BY <1>5, <2>1
<1>7. ASSUME NEW n \in Nat, n \in Typed
      PROVE  n + 1 \in Typed
    <2> SUFFICES ASSUME n + 1 <= MaxModules
                 PROVE  lowestInternalTempUpTo[n] \in Int
        OBVIOUS
    <2>1. n \in -1 .. MaxModules - 1 /\ n # -1 /\ n \in Module
        BY Configured DEF Module
    <2>2. lowestInternalTempUpTo[n - 1] \in Int
        BY <1>7, Configured
    <2>3. cell[n].internalTemp \in Int
        BY <2>1, CellsTyped
    <2>4. lowestInternalTempUpTo[n] = Body(lowestInternalTempUpTo, n)
        BY <1>5, <2>1
    <2> QED
        BY <2>1, <2>2, <2>3, <2>4
<1>8. Nat \subseteq Typed
    <2> HIDE DEF Typed
    <2> QED
        BY <1>6, <1>7, Induction
<1> SUFFICES ASSUME NEW m \in -1 .. MaxModules - 1
             PROVE  lowestInternalTempUpTo[m] \in Int
    OBVIOUS
<1>9. m + 1 \in Nat /\ (m + 1) - 1 = m /\ m + 1 <= MaxModules
    BY Configured
<1> QED
    BY <1>8, <1>9

\* The voltages of a bank have a sum.
LEMMA PackvoltageTyped ==
    ASSUME TypeOK, NEW bank
    PROVE  packvoltage(bank) \in Int
<1> DEFINE S == {m \in ValidModules : m \div layout.series = bank}
           Body(g, s) == IF s = {} THEN 0
                         ELSE LET x == CHOOSE x \in s : TRUE
                              IN  cell[x].voltagemV + g[s \ {x}]
           Upto(n) == {s \in SUBSET S : Cardinality(s) <= n}
           Good == {n \in Nat : \E g : g = [s \in Upto(n) |-> Body(g, s)]}
<1>1. S \subseteq Module /\ IsFiniteSet(S)
    <2>1. S \subseteq 0 .. MaxModules - 1
        BY Configured DEF Module
    <2>2. IsFiniteSet(0 .. MaxModules - 1)
        BY Configured, FS_Interval
    <2> QED
        BY <2>1, <2>2, FS_Subset DEF Module
<1> HIDE DEF S
<1>2. \A s \in SUBSET S : IsFiniteSet(s) /\ Cardinality(s) \in Nat
                          /\ Cardinality(s) <= Cardinality(S)
    BY <1>1, FS_Subset, FS_CardinalityType
<1>3. ASSUME NEW s \in SUBSET S, s # {}
      PROVE  LET x == CHOOSE x \in s : TRUE IN
             /\ x \in s /\ s \ {x} \in SUBSET S
             /\ Cardinality(s \ {x}) = Cardinality(s) - 1
    BY <1>2, <1>3, FS_RemoveElement
<1>4. 0 \in Good
    <2> DEFINE g == [s \in Upto(0) |-> 0]
    <2>1. \A s \in Upto(0) : s = {}
        BY <1>2, FS_EmptySet
    <2>2. g = [s \in Upto(0) |-> Body(g, s)]
        BY <2>1
    <2> QED
        BY <2>2
<1>5. ASSUME NEW n \in Nat, n \in Good
      PROVE  n + 1 \in Good
    <2>1. PICK g : g = [s \in Upto(n) |-> Body(g, s)]
        BY <1>5
    <2> DEFINE h == [s \in Upto(n + 1) |-> IF s \in Upto(n) THEN g[s] ELSE Body(g, s)]
    <2>2. Upto(n) \subseteq Upto(n + 1)
        BY <1>2
    <2>3. \A s \in Upto(n) : h[s] = g[s] /\ g[s] = Body(g, s)
        BY <2>1, <2>2
    <2>4. ASSUME NEW s \in Upto(n + 1)
          PROVE  h[s] = Body(h, s)
        <3>1. Body(h, s) = Body(g, s)
            <4>1. CASE s = {}
                BY <4>1
            <4>2. CASE s # {}
                <5> DEFINE x == CHOOSE x \in s : TRUE
                <5>1. s \ {x} \in Upto(n)
                    BY <1>2, <1>3, <4>2
                <5>2. h[s \ {x}] = g[s \ {x}]
                    BY <2>3, <5>1
                <5> QED
                    BY <4>2, <5>2
            <4> QED
                BY <4>1, <4>2
        <3>2. h[s] = Body(g, s)
            BY <2>3
        <3> QED
            BY <3>1, <3>2
    <2>5. h = [s \in Upto(n + 1) |-> Body(h, s)]
        <3>1. h = [s \in Upto(n + 1) |-> h[s]]
            OBVIOUS
        <3> HIDE DEF h, Body, Upto
        <3> QED
            BY <2>4, <3>1
    <2>6. \E f : f = [s \in Upto(n + 1) |-> Body(f, s)]
        <3> HIDE DEF h, Body, Upto
        <3> WITNESS h
        <3> QED
            BY <2>5
    <2>7. n + 1 \in Nat
        OBVIOUS
    <2> HIDE DEF h, Body, Upto
    <2> QED
        BY <2>6, <2>7
<1>6. Nat \subseteq Good
    <2> HIDE DEF Good
    <2> QED
        BY <1>4, <1>5, Induction
<1>7. \E g : g = [s \in SUBSET S |-> Body(g, s)]
    <2>1. Upto(Cardinality(S)) = SUBSET S
        BY <1>2
    <2>2. Cardinality(S) \in Good
        BY <1>2, <1>6
    <2> QED
        BY <2>1, <2>2
<1> DEFINE iter == CHOOSE g : g = [s \in SUBSET S |-> Body(g, s)]
<1>8. iter = [s \in SUBSET S |-> Body(iter, s)]
    BY <1>7, Zenon
<1>9. packvoltage(bank) = iter[S]
    BY DEF packvoltage, MapThenSumSet, MapThenFoldSet, S
<1> HIDE DEF iter
<1>13. \A m \in Module : cell[m].voltagemV \in Int
    BY CellsTyped
<1> DEFINE Typed == {n \in Nat : \A s \in SUBSET S : Cardinality(s) = n => iter[s] \in Int}
<1>10. 0 \in Typed
    <2>1. \A s \in SUBSET S : Cardinality(s) = 0 => s = {}
        BY <1>2, FS_EmptySet
    <2> QED
        BY <1>8, <2>1
<1>11. ASSUME NEW n \in Nat, n \in Typed
       PROVE  n + 1 \in Typed
    <2> SUFFICES ASSUME NEW s \in SUBSET S, Cardinality(s) = n + 1
                 PROVE  iter[s] \in Int
        OBVIOUS
    <2>1. s # {}
        BY FS_EmptySet
    <2> DEFINE x == CHOOSE x \in s : TRUE
    <2>2. x \in s /\ s \ {x} \in SUBSET S /\ Cardinality(s \ {x}) = n
        BY <1>3, <2>1
    <2>3. iter[s \ {x}] \in Int
        BY <1>11, <2>2
    <2>4. cell[x].voltagemV \in Int
        <3>1. x \in Module
            BY <1>1, <2>2
        <3> HIDE DEF x
        <3> QED
            BY <3>1, <1>13
    <2>5. iter[s] = cell[x].voltagemV + iter[s \ {x}]
        BY <1>8, <2>1
    <2> QED
        BY <2>3, <2>4, <2>5
<1>12. Nat \subseteq Typed
    <2> HIDE DEF Typed
    <2> QED
        BY <1>10, <1>11, Induction
<1> QED
    BY <1>2, <1>9, <1>12

(***************************************************************************)
(* What a rule is tested on.                                               *)
(***************************************************************************)

\* The highest of the values above the floor the loop starts from is one of them.
LEMMA HighestIs ==
    ASSUME NEW S, S \subseteq Int, IsFiniteSet(S), NEW floor \in Int
    PROVE  /\ Highest(S, floor) \in S \cup {floor} /\ Highest(S, floor) \in Int
           /\ \A x \in S : x <= Highest(S, floor)
<1>1. IsFiniteSet(S \cup {floor}) /\ S \cup {floor} \subseteq Int /\ S \cup {floor} # {}
    BY FS_AddElement
<1> QED
    BY <1>1, Extremes DEF Highest

\* The lowest of the values below the ceiling the loop starts from is one of them.
LEMMA LowestIs ==
    ASSUME NEW S, S \subseteq Int, IsFiniteSet(S), NEW ceiling \in Int
    PROVE  /\ Lowest(S, ceiling) \in S \cup {ceiling} /\ Lowest(S, ceiling) \in Int
           /\ \A x \in S : Lowest(S, ceiling) <= x
<1>1. IsFiniteSet(S \cup {ceiling}) /\ S \cup {ceiling} \subseteq Int /\ S \cup {ceiling} # {}
    BY FS_AddElement
<1> QED
    BY <1>1, Extremes DEF Lowest

\* What the modules report is a finite set of numbers.
LEMMA ReportsFinite ==
    ASSUME TypeOK
    PROVE  /\ voltages \subseteq Int /\ IsFiniteSet(voltages)
           /\ internalTemps \subseteq Int /\ IsFiniteSet(internalTemps)
           /\ externalTemps \subseteq Int /\ IsFiniteSet(externalTemps)
           /\ \A t \in internalTemps \cup externalTemps : -128 <= t /\ t <= 127
<1>1. \A m \in ValidModules : /\ cell[m].voltagemV \in Voltage
                              /\ cell[m].internalTemp \in Temperature
                              /\ cell[m].externalTemp \in Temperature
    BY Configured DEF Cell
<1>2. IsFiniteSet(Voltage) /\ IsFiniteSet(Temperature)
    <2> DEFINE high == 8191
    <2>1. high \in Int /\ -128 \in Int /\ 127 \in Int /\ 0 \in Int
        OBVIOUS
    <2> HIDE DEF high
    <2>2. IsFiniteSet(0 .. high) /\ IsFiniteSet(-128 .. 127)
        BY <2>1, FS_Interval
    <2> QED
        BY <2>2 DEF Voltage, Temperature, high
<1>3. /\ voltages \subseteq Voltage /\ internalTemps \subseteq Temperature
      /\ externalTemps \subseteq Temperature
    BY <1>1 DEF voltages, internalTemps, externalTemps
<1> QED
    BY <1>2, <1>3, Ranges, FS_Subset

\* The banks' voltages are at most four numbers.
LEMMA PackvoltagesFinite ==
    ASSUME TypeOK
    PROVE  packvoltages \subseteq Int /\ IsFiniteSet(packvoltages) /\ packvoltages # {}
<1>1. /\ packvoltages \subseteq {packvoltage(0), packvoltage(1), packvoltage(2), packvoltage(3)}
      /\ packvoltage(0) \in packvoltages
    BY Configured DEF packvoltages
<1>2. \A a, b, c, d : IsFiniteSet({a, b, c, d})
    <2> TAKE a, b, c, d
    <2>1. IsFiniteSet({a}) /\ IsFiniteSet({b}) /\ IsFiniteSet({c}) /\ IsFiniteSet({d})
        BY FS_Singleton
    <2>2. IsFiniteSet({a} \cup {b}) /\ IsFiniteSet({c} \cup {d})
        BY <2>1, FS_Union
    <2>3. IsFiniteSet(({a} \cup {b}) \cup ({c} \cup {d}))
        BY <2>2, FS_Union
    <2>4. {a, b, c, d} = ({a} \cup {b}) \cup ({c} \cup {d})
        OBVIOUS
    <2> QED
        BY <2>3, <2>4
<1>3. packvoltages \subseteq Int
    BY PackvoltageTyped DEF packvoltages
<1> QED
    BY <1>1, <1>2, <1>3, FS_Subset

\* Each rule by its number.
LEMMA MeasuredByRule ==
    /\ Measured(ModuleOverVoltage) = Highest(voltages, 0)
    /\ Measured(ModuleUnderVoltage) = Lowest(voltages, 65535)
    /\ Measured(ModuleOverTemperatureInternal) = uint8(Highest(internalTemps, -127))
    /\ Measured(ModuleUnderTemperatureInternal) = uint8(lowestInternalTempUpTo[LastModule])
    /\ Measured(ModuleOverTemperatureExternal) = uint8(Highest(externalTemps, -127))
    /\ Measured(ModuleUnderTemperatureExternal) = uint8(Lowest(externalTemps, 127))
    /\ Measured(BankOverVoltage) = Highest(packvoltages, 0)
    /\ Measured(BankUnderVoltage) = Min(packvoltages)
BY DEF Measured, ModuleOverVoltage, ModuleUnderVoltage, ModuleOverTemperatureInternal,
       ModuleUnderTemperatureInternal, ModuleOverTemperatureExternal,
       ModuleUnderTemperatureExternal, BankOverVoltage, BankUnderVoltage

\* The rules are the eight that are evaluated, and no others.
LEMMA RuleIs ==
    ASSUME NEW rule \in Rule
    PROVE  rule \in {ModuleOverVoltage, ModuleUnderVoltage, ModuleOverTemperatureInternal,
                     ModuleUnderTemperatureInternal, ModuleOverTemperatureExternal,
                     ModuleUnderTemperatureExternal, BankOverVoltage, BankUnderVoltage}
BY DEF Rule, ModuleOverVoltage, ModuleUnderVoltage, ModuleOverTemperatureInternal,
       ModuleUnderTemperatureInternal, ModuleOverTemperatureExternal,
       ModuleUnderTemperatureExternal, BankOverVoltage, BankUnderVoltage

\* A rule is tested on an integer.
LEMMA MeasuredTyped ==
    ASSUME TypeOK, NEW rule \in Rule
    PROVE  Measured(rule) \in Int
<1>1. \A t \in Int : uint8(t) \in Int
    BY DEF uint8
<1>2. /\ Highest(voltages, 0) \in Int /\ Lowest(voltages, 65535) \in Int
      /\ Highest(internalTemps, -127) \in Int
      /\ Highest(externalTemps, -127) \in Int /\ Lowest(externalTemps, 127) \in Int
    BY ReportsFinite, HighestIs, LowestIs
<1>3. Highest(packvoltages, 0) \in Int /\ Min(packvoltages) \in Int
    BY PackvoltagesFinite, HighestIs, Extremes
<1>4. lowestInternalTempUpTo[LastModule] \in Int
    <2>1. LastModule \in -1 .. MaxModules - 1
        BY Configured DEF Module
    <2> QED
        BY <2>1, LowestTyped
<1>5. \A r \in {ModuleOverVoltage, ModuleUnderVoltage, ModuleOverTemperatureInternal,
               ModuleUnderTemperatureInternal, ModuleOverTemperatureExternal,
               ModuleUnderTemperatureExternal, BankOverVoltage, BankUnderVoltage} :
          Measured(r) \in Int
    BY <1>1, <1>2, <1>3, <1>4, MeasuredByRule
<1> QED
    BY <1>5, RuleIs

\* A rule's limits are natural numbers.
LEMMA LimitsTyped ==
    ASSUME TypeOK, NEW rule \in Rule
    PROVE  rules[rule].value \in Nat /\ rules[rule].hysteresis \in Nat
BY DEF TypeOK, RuleSettings

\* A rule trips or does not, and resets or does not.
LEMMA DecisionsAreBoolean ==
    ASSUME NEW rule
    PROVE  Trips(rule) \in BOOLEAN /\ Resets(rule) \in BOOLEAN
<1>1. CASE rule \in OverRule
    BY <1>1 DEF Trips, Resets
<1>2. CASE rule \notin OverRule
    BY <1>2 DEF Trips, Resets
<1> QED
    BY <1>1, <1>2

\* With a sane reset value, no rule both trips and resets.
LEMMA NotBoth ==
    ASSUME TypeOK, NEW rule \in Rule, Sane(rule)
    PROVE  ~(Trips(rule) /\ Resets(rule))
<1>1. /\ Measured(rule) \in Int
      /\ rules[rule].value \in Nat /\ rules[rule].hysteresis \in Nat
    BY MeasuredTyped, LimitsTyped
<1> QED
    BY <1>1 DEF Trips, Resets, Sane

(***************************************************************************)
(* Nothing goes unnoticed.                                                 *)
(***************************************************************************)

\* Whatever is beyond a limit trips its rule: the extremes are those of all modules.
LEMMA ExcessTrips ==
    ASSUME TypeOK, NEW m \in ValidModules, NEW rule \in Rule \ {ModuleUnderTemperatureInternal},
           Exceeds(m, rule)
    PROVE  Trips(rule) /\ (rule \in ExternalRule => moduleHasExternalTempSensor)
<1> DEFINE limit == rules[rule].value
           bank == m \div layout.series
<1>1. limit \in Nat
    BY LimitsTyped
<1>2. /\ cell[m].voltagemV \in voltages
      /\ cell[m].internalTemp \in internalTemps
      /\ cell[m].externalTemp # NoSensor => cell[m].externalTemp \in externalTemps
    BY DEF voltages, internalTemps, externalTemps
<1>3. bank \in 0 .. layout.banks - 1 /\ packvoltage(bank) \in packvoltages
    BY Configured DEF packvoltages
<1> USE DEF OverRule, ExternalRule
<1> USE DEF ModuleOverVoltage, ModuleUnderVoltage, ModuleOverTemperatureInternal,
            ModuleUnderTemperatureInternal, ModuleOverTemperatureExternal,
            ModuleUnderTemperatureExternal, BankOverVoltage, BankUnderVoltage
<1>4. CASE rule = ModuleOverVoltage
    <2>1. cell[m].voltagemV > limit
        BY <1>4 DEF Exceeds
    <2>2. cell[m].voltagemV <= Highest(voltages, 0) /\ Highest(voltages, 0) \in Int
          /\ cell[m].voltagemV \in Int
        BY <1>2, ReportsFinite, HighestIs
    <2>3. Measured(rule) = Highest(voltages, 0)
        BY <1>4, MeasuredByRule
    <2> QED
        BY <1>1, <1>4, <2>1, <2>2, <2>3 DEF Trips
<1>5. CASE rule = ModuleUnderVoltage
    <2>1. cell[m].voltagemV < limit
        BY <1>5 DEF Exceeds
    <2>2. Lowest(voltages, 65535) <= cell[m].voltagemV /\ Lowest(voltages, 65535) \in Int
          /\ cell[m].voltagemV \in Int
        BY <1>2, ReportsFinite, LowestIs
    <2>3. Measured(rule) = Lowest(voltages, 65535)
        BY <1>5, MeasuredByRule
    <2> QED
        BY <1>1, <1>5, <2>1, <2>2, <2>3 DEF Trips
<1>6. CASE rule = ModuleOverTemperatureInternal
    <2> DEFINE high == Highest(internalTemps, -127)
    <2>1. cell[m].internalTemp > limit
        BY <1>6 DEF Exceeds
    <2>2. /\ cell[m].internalTemp <= high /\ high \in Int /\ high <= 127
          /\ cell[m].internalTemp \in Int
        BY <1>2, ReportsFinite, HighestIs
    <2>3. Measured(rule) = uint8(high)
        BY <1>6, MeasuredByRule
    <2> HIDE DEF high, limit
    <2>4. uint8(high) = high
        BY <1>1, <2>1, <2>2 DEF uint8
    <2>5. Measured(rule) > limit
        BY <1>1, <2>1, <2>2, <2>3, <2>4
    <2> QED
        BY <1>6, <2>5 DEF Trips, limit
<1>7. CASE rule = ModuleOverTemperatureExternal
    <2> DEFINE high == Highest(externalTemps, -127)
    <2>1. cell[m].externalTemp # NoSensor /\ cell[m].externalTemp > limit
        BY <1>7 DEF Exceeds
    <2>2. /\ cell[m].externalTemp <= high /\ high \in Int /\ high <= 127
          /\ cell[m].externalTemp \in Int
        BY <1>2, <2>1, ReportsFinite, HighestIs
    <2>3. Measured(rule) = uint8(high)
        BY <1>7, MeasuredByRule
    <2>4. moduleHasExternalTempSensor
        BY <1>2, <2>1 DEF moduleHasExternalTempSensor
    <2> HIDE DEF high, limit
    <2>5. uint8(high) = high
        BY <1>1, <2>1, <2>2 DEF uint8
    <2>6. Measured(rule) > limit
        BY <1>1, <2>1, <2>2, <2>3, <2>5
    <2> QED
        BY <1>7, <2>4, <2>6 DEF Trips, limit
<1>8. CASE rule = ModuleUnderTemperatureExternal
    <2> DEFINE low == Lowest(externalTemps, 127)
    <2>1. /\ cell[m].externalTemp # NoSensor /\ cell[m].externalTemp < limit
          /\ \A temperature \in externalTemps : temperature >= 0
        BY <1>8 DEF Exceeds
    <2>2. /\ low <= cell[m].externalTemp /\ low \in Int /\ low >= 0
          /\ cell[m].externalTemp \in Int /\ cell[m].externalTemp <= 127
        BY <1>2, <2>1, ReportsFinite, LowestIs
    <2>3. Measured(rule) = uint8(low)
        BY <1>8, MeasuredByRule
    <2>4. moduleHasExternalTempSensor
        BY <1>2, <2>1 DEF moduleHasExternalTempSensor
    <2> HIDE DEF low, limit
    <2>5. uint8(low) = low
        BY <2>2 DEF uint8
    <2>6. Measured(rule) < limit
        BY <1>1, <2>1, <2>2, <2>3, <2>5
    <2> QED
        BY <1>8, <2>4, <2>6 DEF Trips, limit
<1>9. CASE rule = BankOverVoltage
    <2>1. packvoltage(bank) > limit
        BY <1>9 DEF Exceeds
    <2>2. packvoltage(bank) <= Highest(packvoltages, 0) /\ Highest(packvoltages, 0) \in Int
          /\ packvoltage(bank) \in Int
        BY <1>3, PackvoltagesFinite, HighestIs
    <2>3. Measured(rule) = Highest(packvoltages, 0)
        BY <1>9, MeasuredByRule
    <2> QED
        BY <1>1, <1>9, <2>1, <2>2, <2>3 DEF Trips
<1>10. CASE rule = BankUnderVoltage
    <2>1. packvoltage(bank) < limit
        BY <1>10 DEF Exceeds
    <2>2. Min(packvoltages) <= packvoltage(bank) /\ Min(packvoltages) \in Int
          /\ packvoltage(bank) \in Int
        BY <1>3, PackvoltagesFinite, Extremes
    <2>3. Measured(rule) = Min(packvoltages)
        BY <1>10, MeasuredByRule
    <2> QED
        BY <1>1, <1>10, <2>1, <2>2, <2>3 DEF Trips
<1> QED
    BY <1>4, <1>5, <1>6, <1>7, <1>8, <1>9, <1>10, RuleIs

\* Nothing that rules are tested on changes unless the inputs do.
LEMMA SameInputs ==
    ASSUME UNCHANGED inputs
    PROVE  /\ ValidModules' = ValidModules /\ zeroVoltageModule' = zeroVoltageModule
           /\ moduleHasExternalTempSensor' = moduleHasExternalTempSensor
           /\ \A rule : /\ Measured(rule)' = Measured(rule)
                        /\ Trips(rule)' = Trips(rule) /\ Resets(rule)' = Resets(rule)
                        /\ Sane(rule)' = Sane(rule)
           /\ \A m, rule : Exceeds(m, rule)' = Exceeds(m, rule)
           /\ \A outcome : Relays(outcome)' = Relays(outcome)
<1>1. UNCHANGED <<cell, layout, rules, relayDefault>>
    BY DEF inputs
<1>2. ValidModules' = ValidModules /\ zeroVoltageModule' = zeroVoltageModule
      /\ moduleHasExternalTempSensor' = moduleHasExternalTempSensor
    BY <1>1 DEF ValidModules, LastModule, zeroVoltageModule, voltages,
                moduleHasExternalTempSensor, externalTemps
<1>3. ASSUME NEW rule
      PROVE  Measured(rule)' = Measured(rule)
    BY <1>1
       DEF Measured, voltages, internalTemps, externalTemps, lowestInternalTempUpTo,
           packvoltages, packvoltage, MapThenSumSet, MapThenFoldSet, ValidModules, LastModule
<1>4. ASSUME NEW rule
      PROVE  /\ Trips(rule)' = Trips(rule) /\ Resets(rule)' = Resets(rule)
             /\ Sane(rule)' = Sane(rule)
    BY <1>1, <1>3, Zenon DEF Trips, Resets, Sane
<1>5. ASSUME NEW m, NEW rule
      PROVE  Exceeds(m, rule)' = Exceeds(m, rule)
    <2>1. externalTemps' = externalTemps
        BY <1>1 DEF externalTemps, ValidModules, LastModule
    <2>2. ASSUME NEW bank
          PROVE  packvoltage(bank)' = packvoltage(bank)
        BY <1>1
           DEF packvoltage, MapThenSumSet, MapThenFoldSet, ValidModules, LastModule
    <2> QED
        BY <1>1, <2>1, <2>2, Zenon DEF Exceeds
<1>6. ASSUME NEW outcome
      PROVE  Relays(outcome)' = Relays(outcome)
    BY <1>1 DEF Relays, Overwrite, DefaultRelays
<1> QED
    BY <1>2, <1>3, <1>4, <1>5, <1>6, Zenon

\* A run notices every excess.
LEMMA RunNotices ==
    ASSUME TypeOK, RulesRun
    PROVE  EveryExcessTrips'
<1>1. UNCHANGED inputs
    BY DEF RulesRun
<1> SUFFICES ASSUME ~zeroVoltageModule', NEW m \in ValidModules',
                    NEW rule \in Rule \ {ModuleUnderTemperatureInternal},
                    Sane(rule)', Exceeds(m, rule)'
             PROVE  ruleOutcome'[rule]
    BY DEF EveryExcessTrips
<1>2. ~zeroVoltageModule /\ m \in ValidModules /\ Sane(rule) /\ Exceeds(m, rule)
    <2>1. /\ zeroVoltageModule' = zeroVoltageModule /\ ValidModules' = ValidModules
          /\ Sane(rule)' = Sane(rule) /\ Exceeds(m, rule)' = Exceeds(m, rule)
        BY <1>1, SameInputs
    <2> QED
        BY <2>1, Zenon
<1>3. Trips(rule) /\ (rule \in ExternalRule => moduleHasExternalTempSensor)
    BY <1>2, ExcessTrips
<1>4. ~Resets(rule)
    BY <1>2, <1>3, NotBoth
<1>5. OutcomeAfter(rule)
    BY <1>2, <1>3, <1>4 DEF OutcomeAfter
<1> QED
    BY <1>5 DEF RulesRun

\* After a run in which no module reads 0 V, whatever is beyond a limit with a sane reset
\* value has its rule tripped, for any modules, banks, readings and limits (_ProcessCell
\* and _ProcessBank keep extremes only, and compare temperatures as uint8_t).
THEOREM NoExcessUnnoticed == Spec => []EveryExcessTrips
<1>1. Init => EveryExcessTrips
    BY DEF Init, EveryExcessTrips
<1>2. TypeOK /\ EveryExcessTrips /\ [Next]_vars => EveryExcessTrips'
    <2> SUFFICES ASSUME TypeOK, EveryExcessTrips, [Next]_vars
                 PROVE  EveryExcessTrips'
        OBVIOUS
    <2>1. CASE RulesRun
        BY <2>1, RunNotices
    <2>2. CASE InputChange \/ Restart
        BY <2>2 DEF InputChange, Restart, EveryExcessTrips
    <2>3. CASE UNCHANGED vars
        <3>1. UNCHANGED <<inputs, ruleOutcome, settled>>
            BY <2>3 DEF vars, inputs
        <3> QED
            BY <3>1, SameInputs, Zenon DEF EveryExcessTrips
    <2> QED
        BY <2>1, <2>2, <2>3 DEF Next
<1> QED
    BY <1>1, <1>2, TypeCorrect, PTL DEF Spec

(***************************************************************************)
(* No chatter.                                                             *)
(***************************************************************************)

\* Once a run was made, the relays follow the rules, and a rule with a sane reset value
\* would not change if it were tested again.
Rested ==
    settled =>
        /\ previousRelayState = Relays(ruleOutcome)
        /\ \A rule \in Rule : Sane(rule) => OutcomeAfter(rule) = ruleOutcome[rule]

\* A second test decides as the first did.
LEMMA TestedTwice ==
    ASSUME TypeOK, RulesRun, NEW rule \in Rule, Sane(rule)
    PROVE  OutcomeAfter(rule)' = ruleOutcome'[rule]
<1>1. UNCHANGED inputs /\ ruleOutcome'[rule] = OutcomeAfter(rule)
    BY DEF RulesRun
<1>2. /\ zeroVoltageModule' = zeroVoltageModule
      /\ moduleHasExternalTempSensor' = moduleHasExternalTempSensor
      /\ Trips(rule)' = Trips(rule) /\ Resets(rule)' = Resets(rule)
    BY <1>1, SameInputs
<1>3. ~(Trips(rule) /\ Resets(rule))
    BY NotBoth
<1>4. OutcomeAfter(rule) \in BOOLEAN /\ ruleOutcome[rule] \in BOOLEAN
    BY OutcomeIsBoolean DEF TypeOK
<1>5. Trips(rule) \in BOOLEAN /\ Resets(rule) \in BOOLEAN
    BY DecisionsAreBoolean
<1>6. CASE zeroVoltageModule
    BY <1>1, <1>2, <1>4, <1>6 DEF OutcomeAfter
<1>7. CASE ~zeroVoltageModule /\ rule \in ExternalRule /\ ~moduleHasExternalTempSensor
    BY <1>1, <1>2, <1>7 DEF OutcomeAfter
<1>8. CASE ~zeroVoltageModule /\ ~(rule \in ExternalRule /\ ~moduleHasExternalTempSensor)
    <2>1. OutcomeAfter(rule) = IF ruleOutcome[rule] THEN ~Resets(rule) ELSE Trips(rule)
        BY <1>8 DEF OutcomeAfter
    <2>2. OutcomeAfter(rule)' = IF ruleOutcome'[rule] THEN ~Resets(rule) ELSE Trips(rule)
        BY <1>2, <1>8 DEF OutcomeAfter
    <2>3. CASE ruleOutcome'[rule]
        BY <1>1, <1>3, <1>5, <2>1, <2>2, <2>3, Zenon
    <2>4. CASE ~ruleOutcome'[rule]
        BY <1>1, <1>3, <1>4, <1>5, <2>1, <2>2, <2>4, Zenon
    <2> QED
        BY <2>3, <2>4
<1> QED
    BY <1>6, <1>7, <1>8

\* A step keeps the rules rested.
LEMMA StaysRested ==
    ASSUME TypeOK, Rested, [Next]_vars
    PROVE  Rested'
<1>1. CASE RulesRun
    <2>1. previousRelayState' = Relays(ruleOutcome')
        BY <1>1 DEF RulesRun, DriveRelays
    <2>2. UNCHANGED inputs
        BY <1>1 DEF RulesRun
    <2>3. Relays(ruleOutcome)' = Relays(ruleOutcome')
        BY <2>2 DEF inputs, Relays, Overwrite, DefaultRelays
    <2>4. ASSUME NEW rule \in Rule, Sane(rule)'
          PROVE  OutcomeAfter(rule)' = ruleOutcome'[rule]
        <3>1. Sane(rule)
            BY <2>2, <2>4, SameInputs, Zenon
        <3> QED
            BY <1>1, <3>1, TestedTwice
    <2> QED
        BY <2>1, <2>3, <2>4 DEF Rested
<1>2. CASE InputChange \/ Restart
    BY <1>2 DEF InputChange, Restart, Rested
<1>3. CASE UNCHANGED vars
    <2>1. UNCHANGED <<inputs, ruleOutcome, previousRelayState, settled>>
        BY <1>3 DEF vars, inputs
    <2>2. Relays(ruleOutcome)' = Relays(ruleOutcome)
        BY <2>1 DEF inputs, Relays, Overwrite, DefaultRelays
    <2>3. \A rule : OutcomeAfter(rule)' = OutcomeAfter(rule) /\ Sane(rule)' = Sane(rule)
        <3> TAKE rule
        <3>1. /\ zeroVoltageModule' = zeroVoltageModule
              /\ moduleHasExternalTempSensor' = moduleHasExternalTempSensor
              /\ Trips(rule)' = Trips(rule) /\ Resets(rule)' = Resets(rule)
              /\ Sane(rule)' = Sane(rule)
            BY <2>1, SameInputs
        <3> QED
            BY <2>1, <3>1, Zenon DEF OutcomeAfter
    <2> QED
        BY <2>1, <2>2, <2>3, Zenon DEF Rested
<1> QED
    BY <1>1, <1>2, <1>3 DEF Next

\* So every run, and every moment until the inputs change, is at rest.
LEMMA AlwaysRested == Spec => []Rested
<1>1. Init => Rested
    BY DEF Init, Rested
<1>2. TypeOK /\ Rested /\ [Next]_vars => Rested'
    BY StaysRested
<1> QED
    BY <1>1, <1>2, TypeCorrect, PTL DEF Spec

\* With sane reset values a second run on the same readings and settings changes neither
\* a rule nor a relay nor a pin, whatever the readings and the limits (_RunRules,
\* RULES_TaskRun).
THEOREM Steady == Spec => NoChatter
<1>1. ASSUME TypeOK, Rested
      PROVE  [RulesRun /\ settled /\ (\A rule \in Rule : Sane(rule)) => UNCHANGED outputs]_vars
    <2> SUFFICES ASSUME RulesRun, settled, \A rule \in Rule : Sane(rule)
                 PROVE  UNCHANGED outputs
        OBVIOUS
    <2>1. ruleOutcome' = ruleOutcome
        <3>1. \A rule \in Rule : OutcomeAfter(rule) = ruleOutcome[rule]
            BY <1>1 DEF Rested
        <3>2. ruleOutcome' = [rule \in Rule |-> OutcomeAfter(rule)]
            BY DEF RulesRun
        <3>3. ruleOutcome \in [Rule -> BOOLEAN]
            BY <1>1 DEF TypeOK
        <3> QED
            BY <3>1, <3>2, <3>3
    <2>2. previousRelayState' = previousRelayState
        BY <1>1, <2>1 DEF Rested, RulesRun, DriveRelays
    <2>3. pin' = pin
        <3>1. pin' = [y \in Relay |-> IF previousRelayState[y] # previousRelayState'[y]
                                      THEN previousRelayState'[y] = "RELAY_ON" ELSE pin[y]]
            BY DEF RulesRun, DriveRelays
        <3>2. pin' = [y \in Relay |-> pin[y]]
            BY <2>2, <3>1
        <3>3. pin \in [Relay -> BOOLEAN]
            BY <1>1 DEF TypeOK
        <3> QED
            BY <3>2, <3>3
    <2> QED
        BY <2>1, <2>2, <2>3 DEF outputs
<1> QED
    BY <1>1, AlwaysRested, TypeCorrect, PTL DEF Spec, NoChatter

(***************************************************************************)
(* What one rule makes of readings that are all on the safe side of its    *)
(* reset value.                                                            *)
(***************************************************************************)

\* The rule for over voltage resets when every valid module is below its reset value.
LEMMA BelowResets ==
    ASSUME TypeOK, 0 < rules[ModuleOverVoltage].hysteresis,
           \A m \in ValidModules : cell[m].voltagemV < rules[ModuleOverVoltage].hysteresis
    PROVE  Resets(ModuleOverVoltage)
<1>1. Highest(voltages, 0) \in voltages \cup {0}
    BY ReportsFinite, HighestIs
<1>2. Highest(voltages, 0) < rules[ModuleOverVoltage].hysteresis
    <2>1. \A v \in voltages \cup {0} : v < rules[ModuleOverVoltage].hysteresis
        BY DEF voltages
    <2> QED
        BY <1>1, <2>1
<1>3. Measured(ModuleOverVoltage) = Highest(voltages, 0)
    BY MeasuredByRule
<1>4. ModuleOverVoltage \in OverRule
    BY DEF OverRule
<1> QED
    BY <1>2, <1>3, <1>4 DEF Resets

\* After a run, a module rule that would reset is not tripped.
LEMMA ResetReleases ==
    ASSUME TypeOK, Rested, settled, NEW rule \in Rule \ ExternalRule, Sane(rule),
           ~zeroVoltageModule, Resets(rule)
    PROVE  ~ruleOutcome[rule]
<1>1. OutcomeAfter(rule) = ruleOutcome[rule] /\ ruleOutcome[rule] \in BOOLEAN
    BY Zenon DEF Rested, TypeOK
<1>2. CASE ruleOutcome[rule]
    <2>1. OutcomeAfter(rule) = FALSE
        BY <1>2, Zenon DEF OutcomeAfter
    <2> QED
        BY <1>1, <2>1, Zenon
<1> QED
    BY <1>1, <1>2, Zenon

\* A module that has reported a voltage is valid until the next restart.
ReadIsValid == \A m \in Module : cell[m].voltagemV > 0 => cell[m].valid

\* A module whose voltage was read is valid, in every reachable state.
LEMMA AlwaysValid == Spec => []ReadIsValid
<1>1. Init => ReadIsValid
    BY DEF Init, NoReadings, ReadIsValid
<1>2. TypeOK /\ ReadIsValid /\ [Next]_vars => ReadIsValid'
    <2> SUFFICES ASSUME TypeOK, ReadIsValid, [Next]_vars, NEW m \in Module,
                        cell'[m].voltagemV > 0
                 PROVE  cell'[m].valid
        BY DEF ReadIsValid
    <2>1. cell \in [Module -> Cell] /\ cell[m] \in Cell
        BY DEF TypeOK
    <2>2. cell[m].voltagemV > 0 => cell[m].valid
        BY DEF ReadIsValid
    <2>3. CASE cell'[m] = cell[m]
        BY <2>2, <2>3
    <2>4. CASE Restart
        BY <2>4 DEF Restart, NoReadings
    <2>5. ASSUME NEW reply, NEW last, VoltageReply(reply, last)
          PROVE  cell'[m].valid
        <3>1. cell'[m] = IF m <= last
                         THEN [cell[m] EXCEPT !.voltagemV = reply[m], !.valid = @ \/ reply[m] > 0]
                         ELSE cell[m]
            BY <2>5 DEF VoltageReply
        <3>2. CASE m <= last
            <4>1. /\ cell'[m].voltagemV = reply[m]
                  /\ cell'[m].valid = (cell[m].valid \/ reply[m] > 0)
                BY <2>1, <3>1, <3>2 DEF Cell
            <4> QED
                BY <4>1
        <3> QED
            BY <2>2, <3>1, <3>2
    <2>6. ASSUME NEW reply, NEW last, TemperatureReply(reply, last)
          PROVE  cell'[m].valid
        <3>1. cell'[m] = IF m <= last
                         THEN [cell[m] EXCEPT !.internalTemp = reply[m].internal,
                                              !.externalTemp = reply[m].external]
                         ELSE cell[m]
            BY <2>6 DEF TemperatureReply
        <3>2. cell'[m].voltagemV = cell[m].voltagemV /\ cell'[m].valid = cell[m].valid
            BY <2>1, <3>1 DEF Cell
        <3> QED
            BY <2>2, <3>2
    <2>7. CASE RulesRun \/ UNCHANGED vars
        BY <2>3, <2>7 DEF RulesRun, inputs, vars
    <2>8. CASE InputChange
        BY <2>3, <2>5, <2>6, <2>8
        DEF InputChange, Started, SetLayout, SetRule, SetRelayState, SetRelayDefaultState
    <2> QED
        BY <2>4, <2>7, <2>8 DEF Next
<1> QED
    BY <1>1, <1>2, TypeCorrect, PTL DEF Spec
============================================================================
