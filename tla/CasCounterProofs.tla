--------------------------- MODULE CasCounterProofs ---------------------------
(***************************************************************************)
(* No increment of the shared counter is lost, for every width class and   *)
(* every finite set of threads: fetch_add increments and compare-exchange  *)
(* retry loops on the MSVC branch.  The proof strengthens NoLostUpdate to  *)
(* CounterInv, which also counts the compare-exchanges that have taken     *)
(* effect at their intrinsic but not yet returned.                         *)
(***************************************************************************)
EXTENDS CasCounter, MsvcOpsProofs, FiniteSetTheorems, TLAPS

\* The increment and the zero the counter starts from are words.
LEMMA SmallWords == 0 \in Word /\ 1 \in Word
  BY PowerAssumption DEF Word

\* The pending set is a finite set of threads.
LEMMA PendingFinite ==
  IsFiniteSet(Pending) /\ Cardinality(Pending) \in Nat
  <1>1. IsFiniteSet(Pending)
    BY ThreadsAssumption, FS_Subset DEF Pending
  <1>2. QED
    BY <1>1, FS_CardinalityType

\* Adding one to a sum modulo 2^Bits, with the sum already reduced.
LEMMA IncMod ==
  ASSUME NEW a \in Nat
  PROVE  ((a % Mod) + 1) % Mod = (a + 1) % Mod
  <1>0. Mod \in Nat \ {0}
    BY PowerAssumption
  <1> DEFINE q == a \div Mod
             r == a % Mod
  <1>1. a = q * Mod + r /\ r \in 0 .. Mod - 1 /\ q \in Nat
    BY <1>0
  <1>2. CASE r + 1 < Mod
    <2>1. (a + 1) \div Mod = q
      BY <1>0, <1>1, <1>2
    <2>2. QED
      BY <1>0, <1>1, <1>2, <2>1
  <1>3. CASE r + 1 = Mod
    <2>1. a + 1 = (q + 1) * Mod
      BY <1>0, <1>1, <1>3
    <2>2. (a + 1) \div Mod = q + 1
      BY <1>0, <1>1, <1>3
    <2>3. (a + 1) % Mod = 0
      BY <1>0, <2>1, <2>2
    <2>4. QED
      BY <1>0, <1>1, <1>3, <2>3
  <1>4. QED
    BY <1>0, <1>1, <1>2, <1>3

\* Every step keeps the variables in their types.
LEMMA TypeStep == TypeOK /\ [Next]_vars => TypeOK'
  <1> SUFFICES ASSUME TypeOK, [Next]_vars PROVE TypeOK'
    OBVIOUS
  <1> USE DEF TypeOK
  <1>1. ASSUME NEW t \in Threads, FetchAddInc(t) PROVE TypeOK'
    <2>1. atomic_fetch_add(smem, 1).mem \in SWord
          /\ atomic_fetch_add(smem, 1).ret \in Word
      BY SmallWords, OpsType
    <2>2. Append(tickets[t], atomic_fetch_add(smem, 1).ret) \in Seq(Word)
      BY <2>1
    <2>3. QED
      BY <1>1, <2>1, <2>2 DEF FetchAddInc, Complete
  <1>2. ASSUME NEW t \in Threads, CasLoad(t) PROVE TypeOK'
    <2>1. atomic_load(smem).mem \in SWord /\ atomic_load(smem).ret \in Word
      BY OpsType
    <2>2. QED
      BY <1>2, <2>1 DEF CasLoad
  <1>3. ASSUME NEW t \in Threads, CasTry(t) PROVE TypeOK'
    <2>0. x[t] + 1 \in Int
      <3>1. x[t] \in Word
        OBVIOUS
      <3>2. x[t] \in Int
        BY <3>1, WordInt
      <3>3. QED
        BY <3>2
    <2>1. ToUnsigned(x[t] + 1) \in Word
      BY <2>0, ToUnsignedType
    <2>2. QED
      BY <1>3, <2>1, OpsType DEF CasTry
  <1>4. ASSUME NEW t \in Threads, CasCheck(t) PROVE TypeOK'
    <2>1. cas_compare(oldv[t], x[t]).expected \in Word
      BY OpsType
    <2>2. Append(tickets[t], x[t]) \in Seq(Word)
      OBVIOUS
    <2>3. /\ x' \in [Threads -> Word] /\ oldv' \in [Threads -> Word]
          /\ smem' \in SWord
      BY <1>4, <2>1, SmallWords DEF CasCheck
    <2>4. CASE cas_compare(oldv[t], x[t]).success
      <3>1. /\ pc' = [pc EXCEPT ![t] = "idle"]
            /\ tickets' = [tickets EXCEPT ![t] = Append(tickets[t], x[t])]
            /\ count' = count + 1
        BY <1>4, <2>4 DEF CasCheck, Complete
      <3>2. QED
        BY <2>2, <2>3, <3>1
    <2>5. CASE ~cas_compare(oldv[t], x[t]).success
      BY <1>4, <2>3, <2>5 DEF CasCheck
    <2>6. QED
      BY <2>4, <2>5
  <1>5. CASE Finished \/ UNCHANGED vars
    BY <1>5 DEF Finished, vars
  <1>6. QED
    BY <1>1, <1>2, <1>3, <1>4, <1>5 DEF Next, Step


\* Every step keeps the counter balanced against the returned and the
\* pending increments.
LEMMA CounterStep == CounterInv /\ [Next]_vars => CounterInv'
  <1> SUFFICES ASSUME CounterInv, [Next]_vars PROVE CounterInv'
    OBVIOUS
  <1> DEFINE u == ToUnsigned(smem)
             k == Cardinality(Pending)
  <1>0. /\ TypeOK /\ TypeOK'
        /\ u = (count + k) % Mod
        /\ IsFiniteSet(Pending) /\ k \in Nat /\ count \in Nat
        /\ smem \in SWord
    BY TypeStep, PendingFinite DEF CounterInv, TypeOK
  <1> SUFFICES ToUnsigned(smem') = (count' + Cardinality(Pending')) % Mod
    BY <1>0 DEF CounterInv
  <1>1. ASSUME NEW t \in Threads, FetchAddInc(t)
        PROVE  ToUnsigned(smem') = (count' + Cardinality(Pending')) % Mod
    <2>0. smem' = atomic_fetch_add(smem, 1).mem
      BY <1>1 DEF FetchAddInc
    <2>1. ToUnsigned(smem') = (u + 1) % Mod
      BY <2>0, <1>0, SmallWords, OpsMeaning
    <2>2. count' = count + 1 /\ Pending' = Pending
      BY <1>1 DEF FetchAddInc, Complete, Pending
    <2>3. QED
      BY <1>0, <2>1, <2>2, IncMod
  <1>2. ASSUME NEW t \in Threads, CasLoad(t)
        PROVE  ToUnsigned(smem') = (count' + Cardinality(Pending')) % Mod
    <2>0. smem' = atomic_load(smem).mem
      BY <1>2 DEF CasLoad
    <2>1. ToUnsigned(smem') = u
      BY <2>0, <1>0, SmallWords, OpsMeaning
    <2>2. count' = count /\ Pending' = Pending
      BY <1>2, <1>0 DEF CasLoad, Pending, TypeOK
    <2>3. QED
      BY <1>0, <2>1, <2>2
  <1>3. ASSUME NEW t \in Threads, CasTry(t)
        PROVE  ToUnsigned(smem') = (count' + Cardinality(Pending')) % Mod
    <2> DEFINE e == x[t]
               d == ToUnsigned(x[t] + 1)
    <2>1. e \in Word /\ d \in Word /\ d = (e + 1) % Mod
      <3>0. e \in Word
        BY <1>0 DEF TypeOK
      <3>1. e \in Word /\ e + 1 \in Int
        BY <3>0, WordInt
      <3>2. QED
        BY <3>1, ToUnsignedType DEF ToUnsigned
    <2>2. ToUnsigned(smem') = (IF u = e THEN d ELSE u) /\ oldv'[t] = u
      <3>1. smem' = cas_interlocked(smem, d, e).mem
            /\ oldv'[t] = cas_interlocked(smem, d, e).old_val
        BY <1>3, <1>0 DEF CasTry, TypeOK
      <3>2. QED
        BY <3>1, <1>0, <2>1, OpsMeaning
    <2>3. t \notin Pending /\ count' = count
      BY <1>3 DEF CasTry, Pending
    <2>4. CASE u = e
      <3>1. Pending' = Pending \cup {t}
        BY <1>3, <1>0, <2>2, <2>4 DEF CasTry, Pending, TypeOK
      <3>2. Cardinality(Pending') = k + 1
        BY <1>0, <2>3, <3>1, FS_AddElement
      <3>3. QED
        BY <1>0, <2>1, <2>2, <2>3, <2>4, <3>2, IncMod
    <2>5. CASE u # e
      <3>1. Pending' = Pending
        BY <1>3, <1>0, <2>2, <2>5 DEF CasTry, Pending, TypeOK
      <3>2. QED
        BY <1>0, <2>2, <2>3, <2>5, <3>1
    <2>6. QED
      BY <2>4, <2>5
  <1>4. ASSUME NEW t \in Threads, CasCheck(t)
        PROVE  ToUnsigned(smem') = (count' + Cardinality(Pending')) % Mod
    <2>1. ToUnsigned(smem') = u
      BY <1>4 DEF CasCheck
    <2>2. CASE oldv[t] = x[t]
      <3>1. t \in Pending /\ count' = count + 1
        BY <1>4, <2>2 DEF CasCheck, Pending, Complete, cas_compare
      <3>2. Pending' = Pending \ {t}
        BY <1>4, <1>0, <2>2 DEF CasCheck, Pending, TypeOK, cas_compare
      <3>3. Cardinality(Pending') = k - 1
        BY <1>0, <3>1, <3>2, FS_RemoveElement
      <3>4. QED
        BY <1>0, <2>1, <3>1, <3>3
    <2>3. CASE oldv[t] # x[t]
      <3>1. t \notin Pending /\ count' = count
        BY <1>4, <2>3 DEF CasCheck, Pending, cas_compare
      <3>2. Pending' = Pending
        BY <1>4, <1>0, <2>3 DEF CasCheck, Pending, TypeOK, cas_compare
      <3>3. QED
        BY <1>0, <2>1, <3>1, <3>2
    <2>4. QED
      BY <2>2, <2>3
  <1>5. CASE Finished \/ UNCHANGED vars
    BY <1>0, <1>5 DEF Finished, vars, Pending
  <1>6. QED
    BY <1>1, <1>2, <1>3, <1>4, <1>5 DEF Next, Step

\* The initial state is balanced: counter 0, nothing returned or pending.
LEMMA InitCounter == Init => CounterInv
  <1> SUFFICES ASSUME Init PROVE CounterInv
    OBVIOUS
  <1>1. TypeOK
    BY SmallWords, PowerAssumption DEF Init, TypeOK, SWord
  <1>2. Pending = {}
    BY DEF Init, Pending
  <1>3. ToUnsigned(smem) = (count + Cardinality(Pending)) % Mod
    BY <1>2, FS_EmptySet, PowerAssumption DEF Init, ToUnsigned
  <1>4. QED
    BY <1>1, <1>3 DEF CounterInv

\* The counter is balanced in every reachable state.
THEOREM CounterInvariant == Spec => []CounterInv
  BY InitCounter, CounterStep, PTL DEF Spec

\* Every increment, by fetch_add or by the retry loop, keeps the counter
\* in the intrinsic's signed type, the locals x and old_val in T and the
\* recorded tickets in T: the casts of the MSVC branch never leave them.
THEOREM CounterTypeCorrect == Spec => []TypeOK
  <1>1. CounterInv => TypeOK
    BY DEF CounterInv
  <1>2. QED
    BY <1>1, CounterInvariant, PTL

\* No increment is lost: whenever no compare-exchange is between its two
\* steps, the counter read as T is the number of returned increments
\* modulo 2^Bits, however the threads' fetch_adds, emulated loads and
\* compare-exchanges interleave.
THEOREM NoLostUpdateHolds == Spec => []NoLostUpdate
  <1>1. CounterInv => NoLostUpdate
    <2> SUFFICES ASSUME CounterInv, \A t \in Threads : pc[t] # "cas_cmp"
                 PROVE  ToUnsigned(smem) = count % Mod
      BY DEF NoLostUpdate
    <2>1. Pending = {}
      BY DEF Pending
    <2>2. QED
      BY <2>1, FS_EmptySet DEF CounterInv, TypeOK
  <1>2. QED
    BY <1>1, CounterInvariant, PTL

=============================================================================
