--------------------------- MODULE CasLinearProofs ---------------------------
(***************************************************************************)
(* The shared counter on the MSVC branch is linearizable: every behaviour  *)
(* of threads incrementing it by fetch_add or by the load/compare-exchange *)
(* retry loop is a behaviour of the atomic ticket counter TicketCounter,  *)
(* for every width, finite thread set and number of rounds with at most    *)
(* 2^Bits increments in all.  An increment takes effect at its fetch_add  *)
(* or at the intrinsic of the compare-exchange that succeeds; every other  *)
(* step maps to a stutter.  The proof rests on TicketInv, which gives the *)
(* round a thread inside its loop still has.                               *)
(***************************************************************************)
EXTENDS CasTicketsProofs

\* The abstract variables, as expressions of the state.
Ctr == ToUnsigned(smem)

\* A step that leaves a thread's pc, x, old_val and tickets alone leaves
\* what it has obtained alone.
LEMMA ObtainedFrame ==
  ASSUME NEW s \in Threads,
         pc'[s] = pc[s], x'[s] = x[s], oldv'[s] = oldv[s],
         tickets'[s] = tickets[s]
  PROVE  Obtained'[s] = Obtained[s]
  <1>1. s \in Pending' <=> s \in Pending
    BY DEF Pending
  <1>2. QED
    BY <1>1, Zenon DEF Obtained

\* Every step of the threads is an increment of the ticket counter or
\* leaves the counter and every thread's obtained tickets unchanged.
LEMMA CounterStepMatch ==
  TicketInv /\ [Next]_vars => [Counter!Next]_<<Ctr, Obtained>>
  <1> SUFFICES ASSUME TicketInv, [Next]_vars
               PROVE  [Counter!Next]_<<Ctr, Obtained>>
    OBVIOUS
  <1>0. /\ TypeOK /\ TypeOK'
        /\ \A t \in Threads : /\ Len(tickets[t]) <= Rounds
                              /\ pc[t] # "idle" => Len(tickets[t]) < Rounds
    BY TypeStep DEF TicketInv, CounterInv
  <1> DEFINE u == ToUnsigned(smem)
  <1>1. ASSUME NEW t \in Threads, FetchAddInc(t)
        PROVE  Counter!Increment(t)
    <2>1. ToUnsigned(smem') = (u + 1) % Mod
          /\ tickets'[t] = Append(tickets[t], u)
      <3>1. smem \in SWord /\ 1 \in Word
        BY <1>0, SmallWords DEF TypeOK
      <3>2. /\ ToUnsigned(atomic_fetch_add(smem, 1).mem) = (u + 1) % Mod
            /\ atomic_fetch_add(smem, 1).ret = u
        BY <3>1, OpsMeaning
      <3>3. QED
        BY <1>1, <1>0, <3>2 DEF FetchAddInc, Complete, TypeOK
    <2>2. t \notin Pending /\ t \notin Pending'
      BY <1>1 DEF FetchAddInc, Pending
    <2>3. Obtained'[t] = Append(Obtained[t], u)
      BY <2>1, <2>2 DEF Obtained
    <2>4. \A s \in Threads \ {t} : Obtained'[s] = Obtained[s]
      BY <1>1, <1>0, ObtainedFrame DEF FetchAddInc, Complete, TypeOK
    <2>5. Obtained' = [Obtained EXCEPT ![t] = Append(@, u)]
      BY <2>3, <2>4 DEF Obtained
    <2>6. Len(Obtained[t]) < Rounds
      <3>1. Obtained[t] = tickets[t]
        BY <2>2 DEF Obtained
      <3>2. Len(tickets[t]) # Rounds /\ Len(tickets[t]) <= Rounds
        BY <1>0, <1>1 DEF FetchAddInc, Done
      <3>3. Len(tickets[t]) \in Nat /\ Rounds \in Nat
        BY <1>0, RoundsAssumption DEF TypeOK
      <3>4. QED
        BY <3>1, <3>2, <3>3
    <2>7. QED
      BY <2>1, <2>5, <2>6 DEF Counter!Increment, Ctr, Mod
  <1>2. ASSUME NEW t \in Threads, CasLoad(t)
        PROVE  UNCHANGED <<Ctr, Obtained>>
    <2>1. ToUnsigned(smem') = u
      BY <1>2, <1>0, OpsMeaning DEF CasLoad, TypeOK
    <2>2. t \notin Pending /\ t \notin Pending'
      BY <1>2 DEF CasLoad, Pending
    <2>3. Obtained'[t] = Obtained[t]
      BY <1>2, <2>2 DEF CasLoad, Obtained
    <2>4. \A s \in Threads \ {t} : Obtained'[s] = Obtained[s]
      BY <1>2, <1>0, ObtainedFrame DEF CasLoad, TypeOK
    <2>5. QED
      BY <2>1, <2>3, <2>4 DEF Obtained, Ctr
  <1>3. ASSUME NEW t \in Threads, CasTry(t)
        PROVE  Counter!Next \/ UNCHANGED <<Ctr, Obtained>>
    <2> DEFINE e == x[t]
               d == ToUnsigned(x[t] + 1)
    <2>1. e \in Word /\ d \in Word /\ d = (e + 1) % Mod
      <3>1. e \in Word /\ e + 1 \in Int
        BY <1>0, WordInt DEF TypeOK
      <3>2. QED
        BY <3>1, ToUnsignedType DEF ToUnsigned
    <2>2. ToUnsigned(smem') = (IF u = e THEN d ELSE u) /\ oldv'[t] = u
      <3>1. smem' = cas_interlocked(smem, d, e).mem
            /\ oldv'[t] = cas_interlocked(smem, d, e).old_val
        BY <1>3, <1>0 DEF CasTry, TypeOK
      <3>2. QED
        BY <3>1, <1>0, <2>1, OpsMeaning DEF TypeOK
    <2>3. t \notin Pending /\ tickets' = tickets /\ x' = x
      BY <1>3 DEF CasTry, Pending
    <2>4. \A s \in Threads \ {t} : Obtained'[s] = Obtained[s]
      BY <1>3, <1>0, ObtainedFrame DEF CasTry, TypeOK
    <2>5. CASE u = e
      <3>1. t \in Pending'
        BY <1>3, <1>0, <2>2, <2>5 DEF CasTry, Pending, TypeOK
      <3>2. Obtained'[t] = Append(Obtained[t], u)
        BY <2>3, <2>5, <3>1 DEF Obtained
      <3>3. Obtained' = [Obtained EXCEPT ![t] = Append(@, u)]
        BY <2>4, <3>2 DEF Obtained
      <3>4. Len(Obtained[t]) < Rounds
        BY <1>0, <1>3, <2>3 DEF CasTry, Obtained
      <3>5. ToUnsigned(smem') = (u + 1) % Mod
        BY <2>1, <2>2, <2>5
      <3>6. Counter!Increment(t)
        BY <3>3, <3>4, <3>5 DEF Counter!Increment, Ctr, Mod
      <3>7. QED
        BY <3>6 DEF Counter!Next
    <2>6. CASE u # e
      <3>1. t \notin Pending'
        BY <1>3, <1>0, <2>2, <2>6 DEF CasTry, Pending, TypeOK
      <3>2. Obtained'[t] = Obtained[t]
        BY <2>3, <3>1 DEF Obtained
      <3>3. QED
        BY <2>2, <2>4, <2>6, <3>2 DEF Obtained, Ctr
    <2>7. QED
      BY <2>5, <2>6
  <1>4. ASSUME NEW t \in Threads, CasCheck(t)
        PROVE  UNCHANGED <<Ctr, Obtained>>
    <2>1. smem' = smem
      BY <1>4 DEF CasCheck
    <2>2. \A s \in Threads \ {t} : Obtained'[s] = Obtained[s]
      BY <1>4, <1>0, ObtainedFrame DEF CasCheck, Complete, TypeOK
    <2>3. CASE oldv[t] = x[t]
      <3>1. t \in Pending /\ t \notin Pending'
        BY <1>4, <1>0, <2>3 DEF CasCheck, Pending, cas_compare, TypeOK
      <3>2. tickets'[t] = Append(tickets[t], x[t])
        BY <1>4, <2>3, <1>0 DEF CasCheck, Complete, cas_compare, TypeOK
      <3>3. QED
        BY <2>1, <2>2, <3>1, <3>2 DEF Obtained, Ctr
    <2>4. CASE oldv[t] # x[t]
      <3>1. t \notin Pending /\ t \notin Pending'
        BY <1>4, <1>0, <2>4 DEF CasCheck, Pending, cas_compare, TypeOK
      <3>2. tickets'[t] = tickets[t]
        BY <1>4, <2>4, <1>0 DEF CasCheck, cas_compare, TypeOK
      <3>3. QED
        BY <2>1, <2>2, <3>1, <3>2 DEF Obtained, Ctr
    <2>5. QED
      BY <2>3, <2>4
  <1>5. CASE Finished \/ UNCHANGED vars
    BY <1>5 DEF Finished, vars, Obtained, Pending, Ctr
  <1>6. QED
    BY <1>1, <1>2, <1>3, <1>4, <1>5 DEF Next, Step, Counter!Next

\* The initial state is the ticket counter's: 0, no tickets.
LEMMA CounterInitMatch == Init => Counter!Init
  <1> SUFFICES ASSUME Init PROVE Counter!Init
    OBVIOUS
  <1>1. Pending = {}
    BY DEF Init, Pending
  <1>2. ToUnsigned(smem) = 0
    BY PowerAssumption DEF Init, ToUnsigned
  <1>3. QED
    BY <1>1, <1>2 DEF Init, Obtained, Counter!Init

\* However the threads' fetch_adds, emulated loads and compare-exchanges
\* interleave, the counter behaves as the atomic ticket counter of spec
\* section 8: each increment takes effect in one step, at its intrinsic,
\* and obtains the counter's previous value.
THEOREM CounterRefinement == Spec => CounterLinearizable
  <1>1. TicketInv /\ [Next]_vars => [Counter!Next]_<<Ctr, Obtained>>
    BY CounterStepMatch
  <1>2. QED
    BY <1>1, CounterInitMatch, TicketInvariant, PTL
    DEF Spec, CounterLinearizable, Counter!Spec, Ctr

=============================================================================
