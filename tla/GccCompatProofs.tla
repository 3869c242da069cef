--------------------------- MODULE GccCompatProofs ---------------------------
(***************************************************************************)
(* The GCC-builtin compatibility shim does what the native builtins do,    *)
(* for every width class, set of threads and set of legacy int arguments: *)
(* static_cast<T> of the argument followed by the MSVC branch is the       *)
(* builtin applied to the int itself.  The proof reuses the refinement     *)
(* lemmas of MsvcAtomicOpsProofs, which hold for every argument of T, and  *)
(* adds the arithmetic that makes a wrapped delta equal to the delta       *)
(* modulo 2^Bits.                                                          *)
(***************************************************************************)
EXTENDS GccCompat, MsvcAtomicOpsProofs

\* static_cast<T> of a legacy argument is a value of T.
LEMMA ShimArg ==
  ASSUME NEW u \in UVals
  PROVE  u \in Int /\ ToUnsigned(u) \in Word
  BY UValsAssumption, ToUnsignedType

\* Adding a multiple of 2^Bits changes nothing modulo 2^Bits.
LEMMA ModShift ==
  ASSUME NEW a \in Int, NEW q \in Int
  PROVE  (a + q * Mod) % Mod = a % Mod
  <1>0. Mod \in Nat \ {0}
    BY PowerAssumption
  <1>1. \E d \in Int, r \in 0 .. Mod - 1 : a = d * Mod + r /\ a % Mod = r
    BY <1>0
  <1>2. PICK d \in Int, r \in 0 .. Mod - 1 : a = d * Mod + r /\ a % Mod = r
    BY <1>1
  <1>3. a + q * Mod = (d + q) * Mod + r /\ d + q \in Int
    BY <1>0, <1>2
  <1>4. ((d + q) * Mod + r) % Mod = r
    BY <1>0, <1>2, <1>3
  <1>5. QED
    BY <1>2, <1>3, <1>4

\* Reducing a delta modulo 2^Bits first gives the same wrapped sum and
\* difference.
LEMMA DeltaMod ==
  ASSUME NEW m \in Int, NEW u \in Int
  PROVE  /\ (m + (u % Mod)) % Mod = (m + u) % Mod
         /\ (m - (u % Mod)) % Mod = (m - u) % Mod
  <1>0. Mod \in Nat \ {0}
    BY PowerAssumption
  <1>1. \E q \in Int, r \in Int : u = r + q * Mod /\ u % Mod = r
    BY <1>0
  <1>2. PICK q \in Int, r \in Int : u = r + q * Mod /\ u % Mod = r
    BY <1>1
  <1>3. m + u = (m + r) + q * Mod /\ m - r = (m - u) + q * Mod
    BY <1>0, <1>2
  <1>4. ((m + r) + q * Mod) % Mod = (m + r) % Mod
    BY <1>2, ModShift
  <1>5. ((m - u) + q * Mod) % Mod = (m - u) % Mod
    BY <1>2, ModShift
  <1>6. QED
    BY <1>2, <1>3, <1>4, <1>5

\* Every shim call keeps the variables in their types.
THEOREM ShimTypeCorrect == ShimSpec => []TypeOK
  <1>1. Init => TypeOK
    BY ZeroWord DEF Init, TypeOK, PC
  <1>2. TypeOK /\ [ShimNext]_vars => TypeOK'
    <2> SUFFICES ASSUME TypeOK, [ShimNext]_vars PROVE TypeOK'
      OBVIOUS
    <2> USE DEF TypeOK
    <2>1. ASSUME NEW t \in Threads, NEW u \in UVals,
                 ShimFetchAdd(t, u) \/ ShimFetchSub(t, u) \/ ShimExchange(t, u)
          PROVE  TypeOK'
      <3> DEFINE w == ToUnsigned(u)
      <3>1. w \in Word /\ smem \in SWord
        BY ShimArg
      <3>2. CASE ShimFetchAdd(t, u)
        <4>1. atomic_fetch_add(smem, w).mem \in SWord
              /\ atomic_fetch_add(smem, w).ret \in Word
          BY <3>1, OpsType
        <4>2. QED
          BY <3>2, <4>1 DEF ShimFetchAdd, FetchAdd, Call
      <3>3. CASE ShimFetchSub(t, u)
        <4>1. atomic_fetch_sub(smem, w).mem \in SWord
              /\ atomic_fetch_sub(smem, w).ret \in Word
          BY <3>1, OpsType
        <4>2. QED
          BY <3>3, <4>1 DEF ShimFetchSub, FetchSub, Call
      <3>4. CASE ShimExchange(t, u)
        <4>1. atomic_exchange(smem, w).mem \in SWord
              /\ atomic_exchange(smem, w).ret \in Word
          BY <3>1, OpsType
        <4>2. QED
          BY <3>4, <4>1 DEF ShimExchange, Exchange, Call
      <3>5. QED
        BY <2>1, <3>2, <3>3, <3>4
    <2>2. ASSUME NEW t \in Threads, NEW u \in UVals, ShimCompareExchangeN(t, u)
          PROVE  TypeOK'
      <3>1. ToUnsigned(u) \in Word
        BY ShimArg
      <3>2. QED
        BY <2>2, <3>1, OpsType DEF ShimCompareExchangeN, CasInterlocked, PC
    <2>3. ASSUME NEW t \in Threads, NEW v \in Vals, SetExpected(t, v)
          PROVE  TypeOK'
      BY <2>3, ValsAssumption DEF SetExpected
    <2>4. ASSUME NEW t \in Threads, CasCompare(t) PROVE TypeOK'
      BY <2>4, OpsType, ZeroWord DEF CasCompare, PC
    <2>5. CASE UNCHANGED vars
      BY <2>5 DEF vars
    <2>6. QED
      BY <2>1, <2>2, <2>3, <2>4, <2>5 DEF ShimNext
  <1>3. QED
    BY <1>1, <1>2, PTL DEF ShimSpec

\* Each shim call, in a state of the right type, is the builtin of the
\* same name applied to the int argument.
LEMMA ShimStepMatch == TypeOK => ShimCallsMatch
  <1> SUFFICES ASSUME TypeOK, NEW t \in Threads PROVE ShimCallsMatch!(t)
    BY DEF ShimCallsMatch
  <1>0. Abs!Mod = Mod /\ ToUnsigned(smem) \in Int
    BY ToUnsignedType, WordsInt DEF Abs!Mod, Mod, TypeOK
  <1>1. ASSUME NEW u \in UVals, ShimFetchAdd(t, u) PROVE Abs!FetchAdd(t, u)
    <2>1. Abs!FetchAdd(t, ToUnsigned(u))
      BY <1>1, ShimArg, RmwMatch DEF ShimFetchAdd
    <2>2. (ToUnsigned(smem) + ToUnsigned(u)) % Mod = (ToUnsigned(smem) + u) % Mod
      BY <1>0, ShimArg, DeltaMod DEF ToUnsigned
    <2>3. QED
      BY <1>0, <2>1, <2>2 DEF Abs!FetchAdd
  <1>2. ASSUME NEW u \in UVals, ShimFetchSub(t, u) PROVE Abs!FetchSub(t, u)
    <2>1. Abs!FetchSub(t, ToUnsigned(u))
      BY <1>2, ShimArg, RmwMatch DEF ShimFetchSub
    <2>2. (ToUnsigned(smem) - ToUnsigned(u)) % Mod = (ToUnsigned(smem) - u) % Mod
      BY <1>0, ShimArg, DeltaMod DEF ToUnsigned
    <2>3. QED
      BY <1>0, <2>1, <2>2 DEF Abs!FetchSub
  <1>3. ASSUME NEW u \in UVals, ShimExchange(t, u) PROVE Abs!Exchange(t, u % Mod)
    <2>1. Abs!Exchange(t, ToUnsigned(u))
      BY <1>3, ShimArg, RmwMatch DEF ShimExchange
    <2>2. QED
      BY <2>1 DEF ToUnsigned
  <1>4. ASSUME NEW u \in UVals, ShimCompareExchangeN(t, u)
        PROVE  Abs!CompareExchange(t, u % Mod)
    <2>1. Abs!CompareExchange(t, ToUnsigned(u))
      BY <1>4, ShimArg, CasMatch DEF ShimCompareExchangeN
    <2>2. QED
      BY <2>1 DEF ToUnsigned
  <1>5. QED
    BY <1>1, <1>2, <1>3, <1>4, SetExpectedMatch, CompareStutters

\* Legacy code calling the shim with int arguments of any sign and width
\* sees the native __atomic_* builtins: every fetch_add, fetch_sub,
\* exchange_n and compare_exchange_n through the shim, the second half of
\* the compare-exchange included, is the builtin's step with the same int.
THEOREM ShimRefinement == ShimSpec => ShimImplementsBuiltins
  BY ShimTypeCorrect, InitMatch, ShimStepMatch, PTL
  DEF ShimImplementsBuiltins, ShimSpec

=============================================================================
