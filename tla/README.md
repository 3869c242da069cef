# TLA+ models of mt-kahypar's portable atomics (`src/mt-kahypar/utils/atomic_ops.h`)

`atomic_ops.h` gives the partitioner one vocabulary of atomic operations —
load, store, exchange, fetch_add, fetch_sub, xor_fetch, compare_exchange —
over 1-, 2-, 4- and 8-byte values with a `MemoryOrder` argument, on two
toolchains whose primitives differ. The file in this repository also carries
the bit-probing utilities and a CMake helper.

## The system

| Part | Lines | What it does |
|---|---|---|
| `MemoryOrder` enum | 50-56 | Relaxed, Acquire, Release, AcqRel, SeqCst; the header comment (33-37) says what each guarantees |
| MSVC `detail::atomic_*` | 60-187 | Each function calls one `_Interlocked*` intrinsic of the signed type of T's width. Load is `_InterlockedOr(p, 0)`, store and exchange are `_InterlockedExchange`, fetch_sub adds the negation, and xor_fetch XORs the intrinsic's old value again. compare_exchange calls the intrinsic with `*expected`, then compares `old_val` with `*expected` and writes it back on failure. Orders only decide where `_ReadWriteBarrier()` goes. |
| GCC/Clang `detail::atomic_*` | 189-239 | Each function is one `__atomic_*` builtin with the order passed through `to_gcc_order`. compare_exchange is strong. |
| Public `mtk_atomic_*` | 247-290 | Forward to `detail::`. `compare_exchange_n` takes `expected` by value. |
| MSVC compatibility shim | 294-337 | `__atomic_fetch_add/_sub/_exchange_n/_compare_exchange_n` for legacy code. Each one converts its `U` argument with `static_cast<T>` and its integer order with `mtk_map_gcc_order`, and ignores `weak`. |
| Bit utilities | 378-405 | `popcount_64`, `lowest_set_bit_64` (MSVC `_BitScanForward64` with a 64 sentinel; GCC `__builtin_ctzll`), recursive `log2`, `is_power_of_2` |
| `add_gmock_test` (CMake) | 409-435 | Test registration; not modelled |

The only shared state is the atomic location. Concurrency comes from callers,
because the header itself runs no threads. The hard parts are:
- whether every MSVC emulation computes what the builtin computes at every
  width edge: the signed intrinsic types, wrap-around, the negation of the
  most negative value, xor's post-value, and the OR-with-0 load;
- whether the two-step MSVC compare-exchange (intrinsic, then a second read
  of `*expected`) behaves as one atomic CAS among other threads' calls;
- whether client retry loops terminate;
- whether the barrier placement gives each order its meaning.

## Modules

| Module | Models | State / actions |
|---|---|---|
| `Words` | The width class: `Word` (T's bit patterns, `0..2^Bits-1`), `SWord` (the intrinsic's signed type), the casts `ToSigned`/`ToUnsigned`, and `^`/`\|` as constant operators `BitXor`/`BitOr` | — |
| `MsvcOps` | Lines 62-187 as operators on the location content `s ∈ SWord`. Each intrinsic returns `[old, new]`, and each function returns `[mem, ret]`. The compare-exchange is split into `cas_interlocked` (intrinsic) and `cas_compare` (compare and write-back). | — |
| `AtomicOps` | The GCC branch, the **abstract contract** | `mem`, `expected[t]`, `ret[t]`, `success[t]`; one action per builtin; `SetExpected` is the caller assigning its variable |
| `MsvcAtomicOps` | Threads calling the public API on the MSVC branch | `smem`, the same per-thread variables, and `pc`/`oldv`/`copy` for a thread between the two steps of a compare-exchange (`copy` is the by-value `expected` of `_n`). Actions: `Load`, `Store`, `Exchange`, `FetchAdd`, `FetchSub`, `XorFetch`, `CasInterlocked`/`CasCompare`, `CasNInterlocked`/`CasNCompare`, `SetExpected` |
| `GccCompat` | The four shims on top of `MsvcAtomicOps`, with `int` arguments | `ShimFetchAdd`, `ShimFetchSub`, `ShimExchange`, `ShimCompareExchangeN` |
| `MemoryOrder` | The enum, its promised semantics, the GCC codes, and `mtk_map_gcc_order` | — |
| `MsvcBarriers` | Where each MSVC function puts `_ReadWriteBarrier`, checked on the message-passing idiom under compiler reordering of plain accesses. Each thread calls the API with an order, or a shim with a code. | The compiled order of each thread is fixed at Init; `WriterStep`/`ReaderStep` run it |
| `GccBarriers` | The GCC branch's ordering, on the same message-passing idiom as `MsvcBarriers`. Each builtin is given `to_gcc_order(order)`. A builtin with a release code keeps the earlier plain write before it, and one with an acquire code keeps the later plain read after it. Each operation is called only with the orders spec §2 allows it. | Same variables and steps as `MsvcBarriers`; `GccInit` fixes the compiled order |
| `CasCounter` | A client (spec §8): threads incrementing a shared counter by `fetch_add` or by `load` + CAS retry loop, on the MSVC branch | `FetchAddInc`, `CasLoad`, `CasTry`, `CasCheck`; `count` is a history variable |
| `TicketCounter` | The **abstract counter** of spec §8: `Increment(t)` hands `t` the counter's value as its ticket and adds one modulo `2^(8w)`, in one step | `counter`, `tickets` |
| `BitUtils` | The four utilities on a word scaled to `Width` bits. `log2` takes `const int`, so a word reaches it through `ToInt`, the modular conversion to an `IntWidth`-bit int. `__builtin_ctzll(0)` is a nondeterministic result in `0..Width`, since the build can produce anything there. | `Probe(v)`: a caller evaluates all of them on `v` |
| `CasCounterProofs`, `CasTicketsProofs`, `CasLinearProofs` | The proofs about `CasCounter` | — |
| `BarriersProofs` | The proofs about `MsvcBarriers` and `GccBarriers` | — |
| `GccCompatProofs` | The proof that the shim implements the builtins | — |
| `MC*` | TLC instances: `BitXor`/`BitOr` are tabulated from `Bitwise`, with symmetry over threads | — |

`Words` models the value of `T` by its bit pattern. The four
`if constexpr (sizeof(T) == n)` arms call the same intrinsic at
different widths, and the constant `Bits` stands for the one `T` selects. The
proofs hold for every `Bits`. The runs take `Bits = 2`, or 3 where six
increments must fit. These widths have all the edges of the 64-bit case:
a wrap to 0, a most-negative value whose negation overflows, and −1.

### Refinement

`MsvcAtomicOps` instantiates `AtomicOps` with:
- `mem <- ToUnsigned(smem)`;
- `expected <- ExpectedBar` and `success <- SuccessBar`.

`CasCounter` instantiates `TicketCounter` (as `Counter`) with:
- `counter <- ToUnsigned(smem)`;
- `tickets <- Obtained`: the returned tickets of each thread, followed, for
  a compare-exchange that has succeeded at its intrinsic but not returned,
  by the `x` it succeeded with.

`CounterLinearizable == Counter!Spec` says that the counter is
linearizable. Each increment takes effect at one step: its `fetch_add`, or
the intrinsic of the compare-exchange that succeeds. That step obtains the
counter's previous value. Every other step (the emulated load, a failed
intrinsic, the compare and write-back) is an abstract stutter.

`ExpectedBar` and `SuccessBar` show a thread between the two halves of a
compare-exchange as having already obtained the result that `cas_compare`
will produce. The CAS takes effect at the intrinsic, and the second step is
an abstract stutter. `CallsMatch` requires each concrete step to be the
*same* abstract action with the *same* arguments. That is stronger than
`Abs!Spec`, which would let a wrong xor_fetch pass as an exchange.

## Runs

| Run | Checks | Bounds, and why they suffice |
|---|---|---|
| `msvc_contract` | `ImplementsContract` | 2 threads; 2-bit word; arguments {2,3}: 2 is the most negative value, whose negation overflows, and 3 is −1, whose cast changes the value; every initial location value, so every value of the word occurs. About 205k states in under 2 minutes. A small positive argument such as 1 casts to itself and adds no case. The refinement lemmas of `MsvcAtomicOpsProofs` cover every argument anyway. |
| `cas_counter` | `NoLostUpdate`, `CounterInv`, `TicketsUnique`, `AllIncrementsComplete` | 4 threads, 1 increment each, 2-bit counter. Every thread can interfere with every other's CAS, and the counter reaches the wrap. |
| `counter_linearizable` | `CounterLinearizable` | 2 threads, 2 increments each, 2-bit counter. A thread's second increment races the other thread's loop, and the fourth increment wraps the counter to 0, so the abstract `% 2^Bits` is reached. |
| `cas_tickets` | `TicketInv` | 3 threads, 2 increments each, 3-bit counter (34k states). A thread's second increment races the others' first and second increments. The six tickets cross from 3 to −4 in the signed type. |
| `gcc_shim` | `ShimImplementsBuiltins` | 2 threads; int arguments {−1, −2, 5}, covering a negative delta, the most negative value after conversion, and a value that truncates |
| `barriers` | `MessagePassing`, `ReleasePublishes` | Writer `store`/`exchange`, reader `load`, with all 5×5 orders and all shim codes −1..6 |
| `gcc_barriers` | `MessagePassing` | GCC branch: every writer operation against every reader operation, each with every order spec §2 allows it |
| `barriers_exchange_acquire` | `MessagePassing` (violation) | The reader uses `exchange` |
| `barriers_rmw_release` | `MessagePassing` (violation) | The writer uses `fetch_add`/`xor_fetch`/`compare_exchange` |
| `bit_utils` | `PowerOfTwoIsSingleBit`, `Log2Floor`, `LowestSetBitArith` | All 128 words of 7 bits. `log2`'s `int` is scaled to 5 bits, so `Log2Floor` covers its positive values 1..15. The words from 16 up reach `log2` through the modular conversion `ToInt`. |
| `ctz_zero_sentinel` | `ZeroSentinel` (violation) | The all-zero input |

Each property of a passing run has a mutant in `PROJECT.json`: a plausible
bug in the mapped code that TLC then catches. Examples:
- `_InterlockedOr` replaced by a clearing RMW;
- `_InterlockedAdd` returning the new value;
- xor_fetch returning the old value;
- the CAS write-back dropped;
- `old_val` taken without its `static_cast<T>`;
- the shim's fetch_sub forwarding to fetch_add;
- the ACQUIRE/RELEASE cases swapped in `mtk_map_gcc_order` (caught by
  `ReleasePublishes`) or in `to_gcc_order`;
- exchange and comparand swapped in the call to
  `_InterlockedCompareExchange`;
- the AcqRel test missing in the load's barrier;
- `is_power_of_2` without `x != 0`;
- log2 stopping below 1;
- an `ffs`-style 1-based bit index.

### Fairness

Only `cas_counter` has a liveness property. `Fairness` is weak fairness of
each thread's steps: the OS keeps scheduling a runnable thread. There is no
fairness between threads beyond that. The retry loop is lock-free rather
than wait-free, and termination follows because each thread makes finitely
many increments.

### Findings

Two of the findings are about barrier placement, judged against spec §4.1,
which requires barriers around the intrinsic. The model assumes that the
compiler may move a plain access across an intrinsic call that has no
barrier next to it, which is the spec's premise.
- **Exchange has no acquire barrier (line 103):** `atomic_exchange` places a
  barrier only before the intrinsic, and only for release orders, so an
  acquiring exchange lets a later plain read be hoisted above it.
- **RMW operations ignore the order (lines 120, 140, 157):** `fetch_add`,
  `xor_fetch` and `compare_exchange` place no barrier at all, so a releasing
  RMW lets an earlier plain write sink below it.
- **`__builtin_ctzll(0)` (line 394):** on GCC/Clang, `lowest_set_bit_64(0)`
  is undefined. Spec §4.3 and §8 say it returns the sentinel 64, which only
  the MSVC form does.

## Proofs (TLAPS)

Every theorem holds for every width (`Bits`), every set of threads and
every set of arguments. TLC checks the same properties only on the small
instances above.

- **`MsvcOpsProofs`** holds the lemmas on the casts and the operators:
  - both casts land in their type;
  - a round trip through the signed type is the identity modulo 2^Bits;
  - the intrinsic's signed comparison equals the comparison of the bit
    patterns (`CastInjective`);
  - adding the negation, even of the most negative value, subtracts modulo
    2^Bits (`SubWraps`);
  - `OpsType`: every MSVC function maps a location in `SWord` and arguments
    in `Word` to a location in `SWord` and results in `Word`;
  - `OpsMeaning`: read as bit patterns of T, each MSVC function leaves and
    returns what the GCC builtin does.
- **`MsvcAtomicOpsProofs`**:
  - `TypeCorrect == Spec => []TypeOK`. `TypeOK` is inductive on its own.
    It is proved and used by the other proofs, but no run checks it. In C++
    the types already keep these values in range, and the implicit
    conversion at each intrinsic's parameter does so even where a
    `static_cast` is missing. So no source change could break it, and a
    run of it would say nothing about the code.
  - `Refinement == Spec => ImplementsContract`. This is the refinement of
    the GCC contract `AtomicOps` under the mapping above. The proof has
    three parts:
    - `InitMatch`: the initial states map to initial states.
    - `StepMatch`: under `TypeOK`, each action implies the *same* abstract
      action. It has one lemma per kind of call (`LoadMatch`, `StoreMatch`,
      `RmwMatch`, `CasMatch`, `CasNMatch`, `SetExpectedMatch`,
      `CompareStutters`), each resting on `OpsMeaning`.
    - `CasMatch` splits on whether the location equals `*expected`.
      `CompareStutters` shows that the second half of a compare-exchange
      changes none of the mapped variables.
- **`GccCompatProofs`**:
  - `ShimTypeCorrect == ShimSpec => []TypeOK`;
  - `ShimRefinement == ShimSpec => ShimImplementsBuiltins`, for every int
    argument set `UVals ⊆ Int`.

  The argument reuses `RmwMatch` and `CasMatch` of `MsvcAtomicOpsProofs`,
  which hold for every argument in `Word`. A shim call is the MSVC function
  applied to `static_cast<T>(u) = u mod 2^Bits`. So it is the builtin
  applied to that value. For exchange and compare-exchange this is the
  builtin on `u % Mod`. For fetch_add and fetch_sub, lemma `DeltaMod` shows
  that `(m ± (u mod 2^Bits)) mod 2^Bits = (m ± u) mod 2^Bits`, so the shim
  gives the builtin on the int `u` itself. `DeltaMod` rests on `ModShift`:
  adding a multiple of 2^Bits changes nothing modulo 2^Bits.
- **`BarriersProofs`**:
  - `GccMessagePassing == GccSpec => []MessagePassing`;
  - `GccReleasePublishes == GccSpec => ReleasePublishes`;
  - `MsvcMessagePassing` and `MsvcReleasePublishes`, the same two for
    `Spec`. Their hypotheses are the `barriers` run's constants: the writer
    publishes with `store` or `exchange`, and the reader observes with
    `load`. The two violation runs show that the hypotheses cannot be
    dropped.

  `MessagePassing` is not inductive, because it speaks only of the final
  state. The strengthening `BarrierInv` (checked by TLC on `barriers` and
  `gcc_barriers` before the proof used it) says:
  - a writer that asked for release has the emitted order
    `<<"data", "flag">>`, and a reader that asked for acquire has
    `<<"flag", "data">>`;
  - under release, data is written from the writer's second access on, so
    whenever the flag is set, and whenever the reader has read it as set.

  Lemma `BarrierStep` shows that the program's two steps keep `BarrierInv`,
  whatever order the compiler emitted. The initial states are the only
  part that differs between the branches:
  - `GccInitInv` checks that `to_gcc_order` gives a releasing code to every
    order that promises release, and an acquiring code to every order that
    promises acquire;
  - `MsvcInitInv` checks that every such order, and every shim code that
    `mtk_map_gcc_order` maps, puts `_ReadWriteBarrier` on the right side.

  `PublishStep` derives the action property from `BarrierInv`: under
  release, the flag is the writer's second access.
- **`CasCounterProofs`**:
  - `CounterTypeCorrect == Spec => []TypeOK`;
  - `CounterInvariant == Spec => []CounterInv`;
  - `NoLostUpdateHolds == Spec => []NoLostUpdate`.

  `NoLostUpdate` is not inductive. Between a successful intrinsic and its
  comparison, the counter is one ahead of `count`. The strengthening
  `CounterInv` adds the set `Pending` of threads whose intrinsic found
  `old_val = x`. TLC checks `CounterInv` as an invariant of `cas_counter`.
  In the proof, each action changes `count + |Pending|` exactly as it
  changes the counter:
  - `FetchAddInc`: both +1;
  - `CasTry`: on success, `t` joins `Pending`; on failure, nothing changes;
  - `CasCheck`: on success, `t` leaves `Pending` and `count` rises.

  The proof uses `FS_AddElement` and `FS_RemoveElement` from
  `FiniteSetTheorems`, and a lemma `IncMod` on `%`, proved through `\div`.
- **`CasTicketsProofs`**:
  - `TicketInvariant == Spec => []TicketInv`;
  - `TicketsUniqueHolds == Spec => []TicketsUnique`.

  `TicketsUnique` speaks only of the returned tickets, and it is not
  inductive. A pending compare-exchange already holds its ticket in `x`,
  and the proof has to know that the counter has not wrapped. `TicketInv`
  describes the increments that have taken effect (`Slots`): pairs
  `<<thread, round>>` for the returned increments, plus the current round
  of a pending CAS. Each has a ticket `TicketOf`. The invariant says:
  - there are `count + |Pending|` of them (`NN`);
  - their tickets are distinct and below `NN`;
  - a thread inside its loop has a round left.

  The step that takes a new increment hands it the counter's value. Lemma
  `NoWrap` shows that this value is `NN`, with no wrap:
  - the slot taken is new and lies in `Threads × 1..Rounds`;
  - that set has at most 2^Bits elements by `CapacityAssumption`;
  - so `NN < 2^Bits`, and `CounterInv` gives the counter as exactly `NN`.

  `SlotsOf`, `Height` and `TicketAt` restate `Slots` and `TicketOf` over
  given values of the variables. Lemmas `SlotsSame` and `SlotsUp` then say
  how the slots change when one thread's height (returned plus pending
  increments) stays the same or rises by one. TLC checks `TicketInv` on
  `cas_tickets` before the proof relies on it.

- **`CasLinearProofs`**: `CounterRefinement == Spec => CounterLinearizable`.
  `CounterStepMatch` shows that every step under `TicketInv` is an
  `Increment` or a stutter of `<<ToUnsigned(smem), Obtained>>`:
  - `FetchAddInc` and a successful `CasTry` are `Increment(t)`. The ticket
    is `ToUnsigned(smem)` by `OpsMeaning`. The guard `Len < Rounds` comes
    from `TicketInv`'s clause that a thread inside its loop has a round
    left. That clause is why `TicketInv`, not `CounterInv`, is the
    invariant used here.
  - `CasLoad`, a failed `CasTry` and both outcomes of `CasCheck` leave the
    counter and `Obtained` as they were. A successful `CasCheck` moves the
    ticket from `x` into `tickets`, and the thread leaves `Pending`.
  - Lemma `ObtainedFrame` says that a thread whose own variables a step
    leaves alone keeps what it has obtained.

The assumptions are:
- `BitsAssumption`;
- `PowerAssumption`: `2^Bits = 2·2^(Bits-1)`, a fact of arithmetic the
  provers cannot derive from `^`;
- `BitOpsAssumption`: `^` and `|` return words, and `x | 0 = x`;
- `ValsAssumption`;
- `ThreadsAssumption`: the thread set is finite;
- `RoundsAssumption` and `CapacityAssumption`: each thread makes at least
  one increment, and at most 2^Bits increments happen in all. Spec §8's
  8-byte counter satisfies this bound.

TLC evaluates all of them on every run. The MC modules tabulate `^` and `|`
from `Bitwise`.

Left to TLC:
- the liveness property `AllIncrementsComplete`;
- the bit utilities.

The bit utilities are built on `Bitwise` (`&`, `shiftR`), which no module
with a theorem may reach, and `log2` is a RECURSIVE operator. Their
properties (`Log2Floor`, `PowerOfTwoIsSingleBit`, ...) are also statements
about every word that need induction over its bits, which the installed
provers cannot do. Liveness and ENABLED are outside what TLAPS proves here.

`log2` is checked on its own domain, the positive ints. A caller that
passes it a `uint64_t` of 2^31 or more, such as a large power of two,
gets 0 or the logarithm of the truncated value. No caller in `src/` does
this, and the spec gives `log2` no width, so this is listed as a hazard
without a property.

## Not modelled

- **Hardware reordering beyond x86-TSO,** for example on ARM64 MSVC targets.
  `MsvcBarriers` takes the processor to execute the emitted order.
- **Read-only memory.** The MSVC load writes through `const_cast` (line 69),
  so on a read-only page it faults. The model has values and no memory
  protection, so no run can express that fault. It is the one hazard in
  `PROJECT.json` with no property.
- **The CMake helper and `WINDOWS_BUILD.md`.** Neither has runtime behaviour.

## Plan for later work

- Show that the MSVC barrier placement refines the GCC ordering model
  (`GccBarriers`) for the operations where `barriers` passes.
- Add more client compositions from the partitioner, such as a flag handoff
  built from `exchange`.
