------------------------- MODULE MsvcAtomicOpsProofs -------------------------
(***************************************************************************)
(* Type correctness of threads calling the MSVC branch, for every width    *)
(* class, set of threads and set of argument values: the location always  *)
(* holds a value of the signed intrinsic type, and every result, expected  *)
(* variable and compare-exchange local a bit pattern of T.                 *)
(***************************************************************************)
EXTENDS MsvcAtomicOps, MsvcOpsProofs, TLAPS

\* The interval 0 .. 2^Bits - 1 contains 0, the value every result and
\* local starts from.
LEMMA ZeroWord == 0 \in Word
  BY PowerAssumption DEF Word

\* Every step of every call keeps the location a value of the intrinsic's
\* signed type and each thread's ret, expected, old_val and by-value
\* expected a bit pattern of T, whatever thread makes it with whatever
\* argument of Vals.
THEOREM TypeCorrect == Spec => []TypeOK
  <1>1. Init => TypeOK
    BY ZeroWord DEF Init, TypeOK, PC
  <1>2. TypeOK /\ [Next]_vars => TypeOK'
    <2> SUFFICES ASSUME TypeOK, [Next]_vars PROVE TypeOK'
      OBVIOUS
    <2> USE DEF TypeOK
    <2>1. ASSUME NEW t \in Threads, NEW r,
                 r.mem \in SWord, r.ret \in Word, Call(t, r)
          PROVE  TypeOK'
      BY <2>1 DEF Call
    <2>2. ASSUME NEW t \in Threads, Load(t) PROVE TypeOK'
      BY <2>2, <2>1, OpsType, ZeroWord DEF Load
    <2>3. ASSUME NEW t \in Threads, NEW v \in Vals, Store(t, v) PROVE TypeOK'
      BY <2>3, OpsType, ValsAssumption DEF Store
    <2>4. ASSUME NEW t \in Threads, NEW v \in Vals,
                 Exchange(t, v) \/ FetchAdd(t, v) \/ FetchSub(t, v)
                 \/ XorFetch(t, v)
          PROVE  TypeOK'
      <3>1. v \in Word
        BY ValsAssumption
      <3>2. QED
        BY <2>4, <2>1, <3>1, OpsType
        DEF Exchange, FetchAdd, FetchSub, XorFetch
    <2>5. ASSUME NEW t \in Threads, NEW v \in Vals, CasInterlocked(t, v)
          PROVE  TypeOK'
      BY <2>5, OpsType, ValsAssumption DEF CasInterlocked, PC
    <2>6. ASSUME NEW t \in Threads, NEW v \in Vals, SetExpected(t, v)
          PROVE  TypeOK'
      BY <2>6, ValsAssumption DEF SetExpected
    <2>7. ASSUME NEW t \in Threads, NEW e \in Vals, NEW d \in Vals,
                 CasNInterlocked(t, e, d)
          PROVE  TypeOK'
      BY <2>7, OpsType, ValsAssumption DEF CasNInterlocked, PC
    <2>8. ASSUME NEW t \in Threads, CasCompare(t) PROVE TypeOK'
      BY <2>8, OpsType, ZeroWord DEF CasCompare, PC
    <2>9. ASSUME NEW t \in Threads, CasNCompare(t) PROVE TypeOK'
      BY <2>9, OpsType, ZeroWord DEF CasNCompare, PC
    <2>10. CASE UNCHANGED vars
      BY <2>10 DEF vars
    <2>11. QED
      BY <2>2, <2>3, <2>4, <2>5, <2>6, <2>7, <2>8, <2>9, <2>10 DEF Next
  <1>3. QED
    BY <1>1, <1>2, PTL DEF Spec

(***************************************************************************)
(* Refinement: every call is the same call of AtomicOps under the mapping  *)
(* mem <- ToUnsigned(smem), expected <- ExpectedBar, success <- SuccessBar.*)
(***************************************************************************)

\* A step that leaves a thread's compare-exchange state alone leaves the
\* abstract expected and success variables alone.
LEMMA BarFrame ==
  ASSUME TypeOK,
         UNCHANGED <<expected, success, pc, oldv, copy>>
  PROVE  UNCHANGED <<ExpectedBar, SuccessBar>>
  BY DEF ExpectedBar, SuccessBar

\* An idle thread's abstract expected variable is its own.
LEMMA IdleBar ==
  ASSUME NEW t \in Threads, pc[t] = "idle"
  PROVE  ExpectedBar[t] = expected[t] /\ SuccessBar[t] = success[t]
  BY DEF ExpectedBar, SuccessBar

\* mtk_atomic_load is __atomic_load_n.
LEMMA LoadMatch ==
  ASSUME TypeOK, NEW t \in Threads, Load(t)
  PROVE  Abs!Load(t)
  <1>1. ToUnsigned(smem') = ToUnsigned(smem) /\ ret'[t] = ToUnsigned(smem)
    BY OpsMeaning DEF TypeOK, Load, Call
  <1>2. UNCHANGED <<ExpectedBar, SuccessBar>>
    BY BarFrame DEF Load, Call
  <1>3. QED
    BY <1>1, <1>2 DEF Load, Call, TypeOK, Abs!Load, Abs!Return

\* mtk_atomic_store is __atomic_store_n.
LEMMA StoreMatch ==
  ASSUME TypeOK, NEW t \in Threads, NEW v \in Vals, Store(t, v)
  PROVE  Abs!Store(t, v)
  <1>1. ToUnsigned(smem') = v
    BY OpsMeaning, ValsAssumption DEF TypeOK, Store
  <1>2. UNCHANGED <<ExpectedBar, SuccessBar>>
    BY BarFrame DEF Store
  <1>3. QED
    BY <1>1, <1>2 DEF Store, Abs!Store

\* A one-step call whose result, read as T, is the new content m and the
\* returned value x is an abstract step doing the same.
LEMMA CallMatch ==
  ASSUME TypeOK, NEW t \in Threads, NEW r, NEW m, NEW x,
         Call(t, r), ToUnsigned(r.mem) = m, r.ret = x
  PROVE  /\ ToUnsigned(smem') = m
         /\ Abs!Return(t, x)
         /\ UNCHANGED ExpectedBar
  <1>1. UNCHANGED <<ExpectedBar, SuccessBar>>
    BY BarFrame DEF Call
  <1>2. QED
    BY <1>1 DEF Call, Abs!Return

\* mtk_atomic_exchange, fetch_add, fetch_sub and xor_fetch are the
\* builtins of the same name, for every argument of T.
LEMMA RmwMatch ==
  ASSUME TypeOK, NEW t \in Threads, NEW v \in Word
  PROVE  /\ Exchange(t, v) => Abs!Exchange(t, v)
         /\ FetchAdd(t, v) => Abs!FetchAdd(t, v)
         /\ FetchSub(t, v) => Abs!FetchSub(t, v)
         /\ XorFetch(t, v) => Abs!XorFetch(t, v)
  <1> DEFINE s == smem
  <1>1. v \in Word /\ s \in SWord
    BY DEF TypeOK
  <1>2. Abs!Mod = Mod
    BY DEF Abs!Mod, Mod
  <1>3. Exchange(t, v) => Abs!Exchange(t, v)
    <2>1. ToUnsigned(atomic_exchange(s, v).mem) = v
          /\ atomic_exchange(s, v).ret = ToUnsigned(s)
      BY <1>1, OpsMeaning
    <2>2. QED
      BY <2>1, CallMatch DEF Exchange, Abs!Exchange
  <1>4. FetchAdd(t, v) => Abs!FetchAdd(t, v)
    <2>1. ToUnsigned(atomic_fetch_add(s, v).mem) = (ToUnsigned(s) + v) % Mod
          /\ atomic_fetch_add(s, v).ret = ToUnsigned(s)
      BY <1>1, OpsMeaning
    <2>2. QED
      BY <1>2, <2>1, CallMatch DEF FetchAdd, Abs!FetchAdd
  <1>5. FetchSub(t, v) => Abs!FetchSub(t, v)
    <2>1. ToUnsigned(atomic_fetch_sub(s, v).mem) = (ToUnsigned(s) - v) % Mod
          /\ atomic_fetch_sub(s, v).ret = ToUnsigned(s)
      BY <1>1, OpsMeaning
    <2>2. QED
      BY <1>2, <2>1, CallMatch DEF FetchSub, Abs!FetchSub
  <1>6. XorFetch(t, v) => Abs!XorFetch(t, v)
    <2>1. ToUnsigned(atomic_xor_fetch(s, v).mem) = BitXor(ToUnsigned(s), v)
          /\ atomic_xor_fetch(s, v).ret = BitXor(ToUnsigned(s), v)
      BY <1>1, OpsMeaning
    <2>2. QED
      BY <2>1, CallMatch DEF XorFetch, Abs!XorFetch
  <1>7. QED
    BY <1>3, <1>4, <1>5, <1>6

\* mtk_atomic_compare_exchange is the strong __atomic_compare_exchange:
\* the intrinsic decides and, under the mapping, already shows the
\* comparison's outcome and write-back.
LEMMA CasMatch ==
  ASSUME TypeOK, NEW t \in Threads, NEW d \in Word, CasInterlocked(t, d)
  PROVE  Abs!CompareExchange(t, d)
  <1> DEFINE e == expected[t]
             u == ToUnsigned(smem)
  <1>1. d \in Word /\ smem \in SWord /\ e \in Word /\ pc[t] = "idle"
    BY DEF TypeOK, CasInterlocked
  <1>2. ToUnsigned(smem') = (IF u = e THEN d ELSE u) /\ oldv'[t] = u
    <2>1. ToUnsigned(cas_interlocked(smem, d, e).mem) = (IF u = e THEN d ELSE u)
          /\ cas_interlocked(smem, d, e).old_val = u
      BY <1>1, OpsMeaning
    <2>2. QED
      BY <2>1 DEF CasInterlocked, TypeOK
  <1>3. ExpectedBar[t] = e
    BY <1>1, IdleBar
  <1>4. ExpectedBar' = [ExpectedBar EXCEPT ![t] = IF u = e THEN e ELSE u]
    BY <1>2 DEF CasInterlocked, TypeOK, ExpectedBar, cas_compare
  <1>5. SuccessBar' = [SuccessBar EXCEPT ![t] = (u = e)]
    BY <1>2 DEF CasInterlocked, TypeOK, SuccessBar, cas_compare
  <1>6. UNCHANGED ret
    BY DEF CasInterlocked
  <1>7. CASE u = e
    <2>1. ExpectedBar' = ExpectedBar
      <3>1. ExpectedBar = [s \in Threads |-> ExpectedBar[s]]
        BY DEF ExpectedBar
      <3>2. QED
        BY <1>3, <1>4, <1>7, <3>1
    <2>2. QED
      BY <1>2, <1>3, <1>5, <1>6, <1>7, <2>1 DEF Abs!CompareExchange, Abs!Succeed
  <1>8. CASE u # e
    BY <1>2, <1>3, <1>4, <1>5, <1>6, <1>8 DEF Abs!CompareExchange, Abs!Succeed
  <1>9. QED
    BY <1>7, <1>8

\* mtk_atomic_compare_exchange_n is the same on a copy of expected.
LEMMA CasNMatch ==
  ASSUME TypeOK, NEW t \in Threads, NEW e \in Vals, NEW d \in Vals,
         CasNInterlocked(t, e, d)
  PROVE  Abs!CompareExchangeN(t, e, d)
  <1> DEFINE u == ToUnsigned(smem)
  <1>1. d \in Word /\ e \in Word /\ smem \in SWord /\ pc[t] = "idle"
    BY ValsAssumption DEF TypeOK, CasNInterlocked
  <1>2. ToUnsigned(smem') = (IF u = e THEN d ELSE u) /\ oldv'[t] = u
    <2>1. ToUnsigned(cas_interlocked(smem, d, e).mem) = (IF u = e THEN d ELSE u)
          /\ cas_interlocked(smem, d, e).old_val = u
      BY <1>1, OpsMeaning
    <2>2. QED
      BY <2>1 DEF CasNInterlocked, TypeOK
  <1>3. UNCHANGED ExpectedBar
    BY <1>1 DEF CasNInterlocked, TypeOK, ExpectedBar
  <1>4. SuccessBar' = [SuccessBar EXCEPT ![t] = (u = e)]
    BY <1>2 DEF CasNInterlocked, TypeOK, SuccessBar, cas_compare
  <1>5. QED
    BY <1>2, <1>3, <1>4 DEF CasNInterlocked, Abs!CompareExchangeN, Abs!Succeed

\* The caller's assignment to its expected variable.
LEMMA SetExpectedMatch ==
  ASSUME TypeOK, NEW t \in Threads, NEW v \in Vals, SetExpected(t, v)
  PROVE  Abs!SetExpected(t, v)
  BY DEF TypeOK, SetExpected, Abs!SetExpected, ExpectedBar, SuccessBar

\* The second half of a compare-exchange changes no abstract variable: the
\* abstract state already holds its result.
LEMMA CompareStutters ==
  ASSUME TypeOK, NEW t \in Threads, CasCompare(t) \/ CasNCompare(t)
  PROVE  UNCHANGED Abs!vars
  BY DEF TypeOK, CasCompare, CasNCompare, Abs!vars, ExpectedBar, SuccessBar

\* The initial states are initial states of AtomicOps.
LEMMA InitMatch == Init => Abs!Init
  <1> SUFFICES ASSUME Init PROVE Abs!Init
    OBVIOUS
  <1>1. ToUnsigned(smem) \in Word
    BY ToUnsignedType, WordsInt DEF Init
  <1>2. ExpectedBar \in [Threads -> Word]
    BY DEF Init, ExpectedBar
  <1>3. SuccessBar = [t \in Threads |-> FALSE]
    BY DEF Init, SuccessBar
  <1>4. Abs!Word = Word
    BY DEF Abs!Word, Word, Abs!Mod, Mod
  <1>5. QED
    BY <1>1, <1>2, <1>3, <1>4 DEF Init, Abs!Init

\* In every state of the right type, each step of each call is the same
\* step of AtomicOps.
LEMMA StepMatch == TypeOK => CallsMatch
  <1> SUFFICES ASSUME TypeOK, NEW t \in Threads PROVE CallsMatch!(t)
    BY DEF CallsMatch
  <1> QED
    BY LoadMatch, StoreMatch, RmwMatch, CasMatch, CasNMatch,
       SetExpectedMatch, CompareStutters, ValsAssumption

\* The MSVC branch implements the GCC/Clang contract: for every width
\* class, set of threads and arguments, every step of every call of the
\* _Interlocked* emulation, the two halves of compare-exchange included,
\* is the same call of the __atomic_* builtins, from an initial state of
\* the builtins' specification.
THEOREM Refinement == Spec => ImplementsContract
  BY TypeCorrect, InitMatch, StepMatch, PTL DEF ImplementsContract, Spec

=============================================================================
