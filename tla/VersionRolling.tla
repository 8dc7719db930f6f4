---------------------------- MODULE VersionRolling ----------------------------
(***************************************************************************)
(* bosminer/src/work/engine.rs: the work engine of one job, drained at     *)
(* once by the generators of all hash boards.  AtomicRange::next is a load *)
(* and a compare-and-swap with any other generator's steps in between;     *)
(* an index of the range stands for one block header, its version being    *)
(* the low part and its ntime offset the high part.                        *)
(***************************************************************************)
EXTENDS Integers

CONSTANTS
  Board,       \* the competing generators
  Versions,    \* BIP320_UPPER_BOUND_EXCLUSIVE_INDEX
  Seconds,     \* ROLL_NTIME_SECONDS
  Midstates,   \* midstates per work, the step of the range
  WordSize     \* 2^32: the index is a u32

\* VersionRolling::new and AtomicRange::new assert the second and the third;
\* the u32 holds the largest index and the terminating one after it.
ASSUME SizeAssumption == Versions \in Nat \ {0} /\ Seconds \in Nat \ {0} /\ WordSize \in Nat
ASSUME StepAssumption == Midstates \in Nat \ {0}
ASSUME DivideAssumption == Versions % Midstates = 0
ASSUME WidthAssumption == Versions * Seconds + 1 < WordSize

max_index == Versions * Seconds
Index == 0 .. max_index - 1

VARIABLES
  curr_index,  \* AtomicRange.curr_index
  at,          \* where each generator is: out of next, or before its swap
  loaded,      \* the index each generator loaded
  taken,       \* how many times each index was handed out
  breaks,      \* how often next_work returned Break
  terminated   \* terminate was called

engine_vars == <<curr_index, at, loaded, taken, breaks, terminated>>

EngineTypes ==
  /\ curr_index \in 0 .. max_index + 1
  /\ at \in [Board -> {"idle", "swap"}]
  /\ loaded \in [Board -> 0 .. max_index + 1]
  /\ taken \in [Index -> Nat]
  /\ breaks \in Nat
  /\ terminated \in BOOLEAN

EngineInit ==
  /\ curr_index = 0
  /\ at = [g \in Board |-> "idle"]
  /\ loaded = [g \in Board |-> 0]
  /\ taken = [i \in Index |-> 0]
  /\ breaks = 0
  /\ terminated = FALSE

\* checked_add succeeds: neither the u32 nor the range overflows.
Fits(index) == index + Midstates < WordSize /\ index + Midstates <= max_index

\* next: load the index; an exhausted range returns None at once.
Load(g) ==
  /\ at[g] = "idle"
  /\ Fits(curr_index)
  /\ at' = [at EXCEPT ![g] = "swap"]
  /\ loaded' = [loaded EXCEPT ![g] = curr_index]
  /\ UNCHANGED <<curr_index, taken, breaks, terminated>>

HandOut(from) ==
  taken' = [i \in Index |-> IF from <= i /\ i < from + Midstates THEN taken[i] + 1 ELSE taken[i]]

\* (Mutant: the index is stored, not compared and swapped.)
StoreIndex(g) ==
  /\ at[g] = "swap"
  /\ curr_index' = loaded[g] + Midstates
  /\ HandOut(loaded[g])
  /\ breaks' = IF Fits(loaded[g] + Midstates) THEN breaks ELSE breaks + 1
  /\ at' = [at EXCEPT ![g] = "idle"]
  /\ UNCHANGED <<loaded, terminated>>

\* next: the swap wins, and next_work turns the range into work, the last one
\* (Break) when no further range fits.
Swap(g) ==
  /\ at[g] = "swap"
  /\ curr_index = loaded[g]
  /\ curr_index' = loaded[g] + Midstates
  /\ HandOut(loaded[g])
  /\ breaks' = IF Fits(loaded[g] + Midstates) THEN breaks ELSE breaks + 1
  /\ at' = [at EXCEPT ![g] = "idle"]
  /\ UNCHANGED <<loaded, terminated>>

\* next: another generator was faster; try again from the load.
Retry(g) ==
  /\ at[g] = "swap"
  /\ curr_index # loaded[g]
  /\ at' = [at EXCEPT ![g] = "idle"]
  /\ UNCHANGED <<curr_index, loaded, taken, breaks, terminated>>

\* A generator found the job's client gone.
Terminate ==
  /\ curr_index' = (max_index + 1) % WordSize
  /\ terminated' = TRUE
  /\ UNCHANGED <<at, loaded, taken, breaks>>

EngineNext ==
  \/ \E g \in Board : Load(g) \/ Swap(g) \/ Retry(g)
  \/ Terminate

EngineSpec == EngineInit /\ [][EngineNext]_engine_vars

-----------------------------------------------------------------------------
\* get_block_version and get_ntime_offset.
Header(i) == <<i % Versions, i \div Versions>>

\* No work is handed out twice, for any race of the generators for the last
\* indices and with terminate: two boards never hash the same header.
NoWorkTwice == \A i \in Index : taken[i] <= 1

\* Nothing is skipped: until the engine is terminated every index below the
\* current one went to some board.
NoWorkSkipped == ~terminated => \A i \in Index : i < curr_index => taken[i] = 1

\* Each index of a job goes to one board: none twice, none left out.
EachWorkOnce == NoWorkTwice /\ NoWorkSkipped

\* Distinct indices are distinct headers within the rolled bits, and the
\* midstates of one work share their ntime (the assert_eq in next_work).
HeadersDistinct ==
  /\ \A i, j \in Index : taken[i] > 0 /\ taken[j] > 0 /\ Header(i) = Header(j) => i = j
  /\ \A i \in Index : taken[i] > 0 =>
       /\ Header(i)[1] \in 0 .. Versions - 1 /\ Header(i)[2] \in 0 .. Seconds - 1
       /\ Header(i)[2] = Header(i - (i % Midstates))[2]

\* The exhausted handler is called at most once per engine, and only for the
\* range that left nothing behind.
OneBreak == breaks <= 1 /\ (breaks = 1 => ~Fits(curr_index))

\* A terminated engine gives out nothing, not even to a generator that loaded
\* the index before the termination.
SilentAfterTerminate == [][terminated => taken' = taken]_engine_vars

-----------------------------------------------------------------------------
\* Indices are handed out below curr_index only, in whole steps, and a loaded
\* index leaves room for a range.
EngineInv ==
  /\ EngineTypes
  /\ terminated => curr_index = max_index + 1
  /\ \A i \in Index : taken[i] > 0 => i < curr_index
  /\ NoWorkTwice
  /\ NoWorkSkipped
  /\ breaks = 1 => ~Fits(curr_index)
  /\ breaks <= 1
  /\ \A g \in Board : at[g] = "swap" => Fits(loaded[g])
=============================================================================
