# Verification of the Boolean matcher and its SAT solver

The repository holds two programs' worth of logic: the matcher, and the SAT
solver CaDiCaL it is built with, which decides whether the answer is right.

The program (`bmatch`) is given two gate-level circuits and finds a matching of
their ports: every output of circuit 2 that it can is paired with an output of
circuit 1, possibly complemented, and every input of circuit 2 with an input of
circuit 1, possibly complemented, or with a constant, such that the paired
outputs compute the same function. It is one thread; what is hard in it is a
backtracking search of two mutually recursive functions over shared locks,
counters and bus maps that every return has to restore.

The solver (`src/cadical-master/src/`) is used through an incremental interface:
add clauses, assume literals, solve, ask for the model or for the failed
assumptions, go on. It rewrites the formula while it solves, and each of some
fifteen techniques must leave the answers, the models and the proof right
whatever ran before it.

All line numbers are of `src/src/Matching.cpp` unless another file is named.

## Inventory

| Component | State it keeps | Operations | Correct when |
|---|---|---|---|
| Search: `match_output`, `match_input`, `filtLockedInput`, `next_match` (:775-1141) | `inputLock(Count)`, `outputLock`, `c1_OutputLockCount`, `c1_inputMatchCount`, the bus maps and their count, best answer, the C++ stack | choose an output, try its candidates, choose a partner and a polarity per input, ask the miter, commit, undo | locks and counters are those of the calls on the stack; matching one-to-one; buses one-to-one; answer equivalent; failure means no match |
| Simulation miter: `miterOneOutputRandom` (`miter.cpp:728-847`) | none between calls | simulate both cones on all patterns (fewer than 18 driven inputs) or on 30 random samples | the verdict is right when exhaustive |
| Verification: `verifyResult` (:1514-1576) | none | recount locks, miter every pair of the answer | reports any wrong pair |
| Answer file: `writePartialAns` (:1578-1618), `Output.h`, `main.cpp:76-128` | the output file | truncate and rewrite at every improvement and at the end | the closed file is the best answer so far; a file cut off is part of it |
| Candidates: `genOutputMatch`, `genInputMatch`, `genPIinPO`, `genInfo`, `assignFuncSupp` (:1143-1384) | candidate lists, output order | filter and sort by bus size and support | no partner of a match is filtered out |
| Bus matching: `match_bus`, `recur_match_bus`, `getBusSet` (:665-772) | pairs of bus sizes that may match | enumerate size assignments | only feasible pairs of sizes are recorded, and a complete assignment |
| Presets: `MatchAlgo`, `setInitSolution`, `setGroupMatch` (:84-589) | `_init_input`, `_init_input_ne`, `_init_output`, `_priority` | recognise arithmetic or control structure by case | presets are consistent with each other |
| Support files: `readFunctionSupport` (:1465-1512) | `output_support`, `input_support` | read `caseXX_supp/*.txt` | supports belong to these netlists |
| Netlist: `Netlist.h` | nodes, gates, buses | parse result, `Simplification`, `setBus`, gate evaluation, structure recognisers | function preserved |
| Parser: `Parser.cpp` | modules under construction | read the case file and the mapped Verilog | every gate and net kept |
| CNF miter: `miter.cpp:43-370` | files | ABC and CaDiCaL on the final answer | reports eq iff all pairs are |
| Main: `main.cpp` | none | parse, map, presets, bus match, search, verify, write, miter | order of the stages |

The solver, with its files under `src/cadical-master/src/`:

| Component | State it keeps | Operations | Correct when |
|---|---|---|---|
| Clauses and their removal: `clause.cpp`, `collect.cpp`, `flags.cpp` | clauses, values of level 0, status of variables | add, delete, shorten, collect | no clause over a removed variable |
| Reconstruction: `extend.cpp`, `restore.cpp`, `external.cpp` | extension stack, witness and tainted literals, frozen counts | push, restore what new clauses taint, extend a model | models extend to every clause ever added |
| Proof: `proof.cpp`, `checker.cpp` | clauses of the checker | add original, add derived, delete | every derived clause follows by propagation |
| Strengthening: `subsume`, `deduplicate`, `transred`, `vivify`, `ternary`, `probe`, `decompose` | marks, schedules | remove or shorten clauses, learn units | same models, or undone by the stack |
| Elimination: `elim`, `gates`, `backward`, `instantiate`, `block`, `cover`, `condition`, `compact` | schedules, the bound on resolvents | remove variables and clauses with a witness | frozen variables stay; no model lost, none invented |
| Propagation: `propagate`, `watch`, `backtrack`, `assume` | trail, levels, watches, blocking literals, saved positions | assign, propagate, backtrack and keep literals of lower levels | nothing falsified or unit is missed |
| Conflict analysis: `analyze`, `minimize`, `shrink` | seen literals, learned clause | first UIP, minimize, shrink, choose the level, failed assumptions | learned clauses follow; failed assumptions refute |
| Search: `internal`, `decide`, `restart`, `rephase`, `reduce`, `walk`, `lucky`, `constrain`, `solver` | mode, limits, saved phases, assumptions, constraint, API state | decide, restart, rephase, reduce, lucky phases, local search, solve, terminate | right answers, and an end |
| Heuristics: `score`, `queue`, `bump`, `ema`, `phases`, `averages` | scores, queue, averages | choose what comes next | (choose among steps that are all right) |
| `lookahead`, `mobical`, front end (`cadical.cpp`, `parse`, `config`, `options`, ...) | | cubes, fuzzing, files and options | |

How they interact: `main` calls the stages in order and the stages communicate
through members of `Match` and `Module`; only the search calls back and forth
(`match_output` -> `match_input` -> `match_input` ... -> miter -> `match_output`),
passing locks by reference, and it calls the answer file on each improvement.
`caseID` 3 skips the search. `initOn` is always true when the search runs.
`isInTime` (:15) is never called, so nothing interrupts the search but a signal.

In the solver a call goes from `Solver` (API state, checks of the contract) to
`External` (user's variables, extension stack, frozen counts) to `Internal` (the
search). `solve` restores what new clauses taint, runs local search and lucky
phases, and then the search, which calls probing, subsumption, elimination and
conditioning between conflicts; all of them share the clauses and the values of
level 0 and trace the proof. `terminate` may be called from another thread. The
matcher itself makes one solver per final miter, has it read the CNF file ABC
wrote, and solves once (`miter.cpp:379-383`).

Hard behaviour in the matcher: balance of counters over every path of the backtracking; shared
bus maps released by whoever finishes last; a lock that one pair records and
another owns; presets that leave an input undriven for one pair and lock it for
the next; sampling verdicts; and being killed while writing. In the solver: a
technique that sees what another left half done (pending units, garbage, redundant clauses over removed
variables); a variable that comes back after it was eliminated; assumptions that
must survive inprocessing; watches and reasons after backtracking that keeps
literals out of order; failed assumptions read through a trail that is still
there from the last answer; what of one call survives into the next.
`PROJECT.json` lists each at its line under `hazards`, with the properties that would catch it.

## Modules

* `MatchSearch` - the search. `stack` is the C++ call stack: one record per
  activation of `match_output` (the output it picked, the index `k` of its
  candidate, and the locals it passes by reference: `quota`, `used` for
  `c1_input_match_count`, `locked` for `record_lock`, `todo` for what is left of
  `c2_input_set`) and in it `ins`, one frame per activation of `match_input` (the
  input, the index of its candidate, the polarity). `pc` is where the top
  activation is:

  | pc | place in the code |
  |---|---|
  | `match_output` | entry of `match_output` (:1077) |
  | `output_cand` | top of its candidate loop (:1099) |
  | `match_input` | entry of `match_input` (:781) |
  | `input_cand` | top of its candidate loop (:882) |
  | `neg` | test of the polarity loop (:950) |
  | `input_back` | `match_input` returned false (:964, :1137) |
  | `output_back` | `match_output` returned false (:841) |
  | `done` | back in `new_boolean_match` |

  Each action is the whole stretch of code between two such points. The call
  parameters `idx` and `out_idx` are the lengths of `ins` and `stack`. `mod`
  holds what the circuits compute, as the sets of input assignments that give 1;
  it is chosen in `Init` from `Netlists` and never changes, so one run covers
  many pairs of circuits. The results of candidate generation, presets and
  support files are constants; `PortsAssumption`, `BusAssumption`,
  `CandidateAssumption` and `BusListAssumption` say what the code before the search
  guarantees of them; the last is what `setBus` (`Netlist.h:421-455`) makes: a port
  is once in every bus that lists it, and a bus is of inputs or of outputs.
  In particular an input that lies on several buses has candidates with as many
  buses, which `genInputMatch` checks only when the numbers of inputs differ
  (:1276); with equal numbers the code would index past the candidate's buses, which no run
  and no theorem covers.
  `_priority` is not a variable: a value that is not positive is recomputed
  before every read (:1053-1062), so `CurrentPriority` computes it. A NULL from
  `next_match` would show as a deadlock, since `ChooseOutput` is then disabled.

* `MatchSearchProperties` - the invariants of the search, the reference
  definition of a full match (`FullMatch`), and the refinement mapping.
* `MatchInvariants` - what holds at every step of the search and makes those
  invariants inductive, and the conditions (`NoPresets`, `Exhaustive`,
  `SupportsExact`) under which the answer is right.
* `MatchAnswer` - the promise: an answer that starts empty, grows by one output
  at a time, never uses an output of circuit 1 twice, never holds a pair that is
  not equivalent under the input matching kept with it, and an end. The search
  implements it with `maxOutputDepth`, `maxOutputMatch`, `maxInputMatch`
  (`AnswerKept`).
* `VerifyResult` - `verifyResult` after the search (it extends `MatchSearch`):
  `VerifyLocks` is the recount, `VerifyOutput` one turn of the loop over the
  outputs with its call of the miter. An input below the output without a match
  goes to the miter as index -1: the outcome is then any verdict or a crash
  (`VerifyCrash`). `PiIdx` is `_pi_idx`, the inputs below an output in the
  netlist, a superset of its functional support.
* `AnswerFile` - the file as the sequence of lines on disk: what `writeOutput`
  writes for an answer, opening (which truncates), one line at a time, closing,
  and a reader used by the properties.
* `Pipeline` - the composition, as `main` runs it: a step of the search that
  records a better answer opens the file, and the search goes on when it is
  closed; then `verifyResult`; then `main` writes the file again. Being killed
  is stopping: every invariant holds in every state, so whatever is said of the
  file holds for what a kill leaves.
* `MiterSimulation` (with `Gates`, what a gate computes) - one call of
  `miterOneOutputRandom` with the packing of patterns into words of `PNUM` bits:
  a word is the set of its positions that are 1. `AllPatterns` and
  `RandomPatterns` are one round each. The verdict `MatchSearch!MiterResults`
  uses is what this module shows it to return. The order in which the set of
  inputs is iterated is open. `ProblemsAssumption` is what `match_input` and the
  mapped netlists guarantee of a call: two circuits without loops, gates with the
  fan-ins they read, one lock for an input of circuit 2.
* `Netlist` - `Parser` statement by statement (declarations, gates, `endmodule`),
  `Simplification` (`FixOutput` per output, `DeleteNode` per wire, buffer and
  inverter in list order; together `Simplify`) and `TraceInputs`. A node has its
  fan-ins, fan-outs and `inv`, the number of leading fan-ins that are inverted.
  `FilesAssumption` says of every file what the mapped Verilog of ABC guarantees and the
  parser does not check (`Plain`), and of a well-formed one in which order its lines
  come and where inverters stand (`AsMapped`).
* `BusMatch` - `match_bus`: the recursion `recur_match_bus` with its depth, loop
  indices, quota and the flag `new_match`; sizes are unsigned (`Modulus`).
* `Candidates` - `setBus`, `readFunctionSupport` and the stages of
  `new_boolean_match`, one action each. Sorts that are not stable leave the order
  of equal elements open; the read past the end of `bus[1]` (:1210) gives any
  size. `abs` of a difference of sizes is unsigned: the libraries that accept
  the call (libstdc++ before 7) make it a `double` near 2^64, modelled by
  `Wrapped`; newer ones reject the call.
Of the solver:

* `Formulas` - literals, clauses, models, unit propagation, and what follows by
  it (`Rup`); every solver module is built on it.
* `IncrementalSat` - the promise of `cadical.hpp`: added clauses stay, assumptions
  and the constraint last until the next answer, an answer is unknown, a model of
  everything, or unsatisfiable when there is none. `Simplifier` and `Cdcl` both
  implement it (`KeepsPromise` in each): one with the search abstracted, the other
  with the simplifications left out.
* `ClauseDatabase` - what the simplifications share: `db` is the clauses without
  garbage as a bag, `fixed` the values of level 0, `status` the flags of the
  variables, `extension` and `witness` the reconstruction stack with
  `RestoreClauses` and `Extended` (`restore.cpp`, `extend.cpp`), `proof` the clauses
  of the checker. `Rewrite` is the step all techniques are made of: clauses go,
  clauses come, units are assigned and propagated, entries are pushed, and the
  proof traces all of it in the order of the code. `GarbageCollection` propagates
  nothing; it takes satisfied clauses and those given as `stale`.
* `Strengthening`, `Elimination` - one action per technique and candidate
  (`SubsumeClause`, `VivifyStrengthen`, `HyperBinaryResolve`, `DecomposeRound`,
  `BlockClause`, `CoverClause`, `ConditionClause`, ...). Bounded variable elimination
  is not one step but follows the code: `attempt` says where `elim_round` is and what
  it holds there.

  | `attempt.at` | code |
  |---|---|
  | `round` | start of `elim_round`, satisfied clauses go |
  | `schedule` | choice of the next pivot |
  | `gates` | `mark_binary_literals`, `find_gate_clauses` |
  | `bound` | `elim_resolvents_are_bounded`, pair by pair |
  | `add` | `elim_add_resolvents`, pair by pair, then the clauses of the pivot go on the stack |
  | `backward`, `subsume` | `elim_backward_clauses`, and its comparison of the head of the queue with one clause after the other |

  A unit found at `bound` is propagated (`ElimAssign`), one found at `add` is only
  assigned (`Delay`; `propagate_eagerly` is false, `elim.cpp:471`). From then on
  clauses may be satisfied or shorter than they look, and gates, pairs and backward
  subsumption meet them in that state. `elim_propagate` later visits only the clauses
  of newly assigned literals, so `ElimAssign` does not make up for what was delayed;
  the propagation over all clauses before the next technique (`Propagate`) does. `attempt.satisfied` is the
  variable of that name in `elim_backward_clause`, which is not reset between two
  clauses (`backward.cpp:45`).
* `Simplifier` - the composition for one solver used incrementally: the calls
  `AddClause`, `Assume`, `Freeze`, `Melt`, `Solve`, `Simplify`, `SplittingLiteral`
  (`lookahead`, which answers nothing and keeps the assumptions), the order of the
  techniques as an `agenda`
  (`Advance`, `SkipDecompose`, `NextElimRound`, ...), and a search of which only the
  results are kept: `Learn` adds what follows by propagation, `Reduce` forgets.
  `CallsAssumption`: the user's literals are of the variables there are. Redundant
  clauses of an eliminated variable are marked only while the clauses are not refuted
  (`elim.cpp:763`), so `NoClauseOfRemoved` speaks of that time.
* `Propagation` - the search state as one record `Search`: clauses with their
  literals in order and the saved position, watch lists in order with blocking
  literals, the trail with level and reason, `control`. `PropagatedLiteral` visits
  the watches of one literal; `Backtracked` keeps literals of lower levels
  (`backtrack.cpp:94`).
* `ConflictAnalysis` - `Analyzed`: the conflict level after out-of-order
  assignments, forced flips, first UIP, shrinking and minimizing, the level to jump
  to, eager subsumption; `Failing`: the failed assumptions (`assume.cpp`).
* `Cdcl` - the calls of the user and the loop of `solve`. `mode` is the function
  that runs:

  | mode | code |
  |---|---|
  | `idle` | between calls |
  | `root` | `already_solved`, `local_search` |
  | `saved` | `try_to_satisfy_formula_by_saved_phases` |
  | `failing` | `produce_failed_assumptions` |
  | `lucky` | one of the lucky phases; the list holds those left |
  | `search` | `cdcl_loop_with_inprocessing` |
  | `reduce` | `reduce` propagating units before it marks clauses |
  | `walk` | `rephase_walk`: a local search between two conflicts, from level 0 |

  Values survive an answer: `failed` is computed from the trail of the last call.
  A walk, before the search or in it, stops at once with assumptions that contradict
  each other or falsify a clause (`Clashing`); it collects the satisfied clauses and
  leaves others with their true literals in front, newly watched (`Walked`).
* `CdclProperties` - its invariants, the refinement and the liveness property.
* `MC*` - small instances: ports, buses, supports, candidate lists and families
  of circuits, files and port lists.
* `MatchSearchProofs`, `MatchQuotaProofs` - theorems about the search (types, outputs and
  input locks; quota and buses), the second built on the first;
  `AnswerProofs`, built on the quota - the recorded answer, `verifyResult`, the pipeline
  and the answer file; `MiterProofs` - the simulation; `BusMatchProofs` - the bus
  matching by size; `NetlistProofs` - the parser and `Simplification`;
  `SimplifierProofs` - the solver's simplifications.
* `Recursion` - induction over the naturals, and that recursive functions over numbers
  and over graphs without loops exist and are unique, stated without operators as
  parameters, for the five that need it.

Operators with `(variant)` in their comment are plausible mistakes in the
definition that follows them; no action uses them.

## Runs

| Run | Instance | Asks |
|---|---|---|
| `sampled` | 3 inputs a side, 4 against 3 outputs, 27 pairs of circuits; the miter may decide on any sample of patterns | types and stack shape, input and output locks, one-to-one inputs under every verdict the miter could give |
| `pipeline` | 2 against 3 inputs, 3 against 2 outputs, 45 pairs of which 18 match, from search to file | outputs one-to-one; every input of the candidate driven (quota); the answer improves soundly and the search ends; verification confirms it; the file is the best answer whenever it is closed, part of it while written, and right in the end |
| `buses` | 4 buses a side, inputs on two buses, 32 pairs of which 12 match | bus maps one-to-one, held while used, released after; a failed search unwinds and missed nothing |
| `verify_preset` | one preset input that dangles for one of the candidates, then `verifyResult` | quota with presets; where all inputs are matched "eq" is said exactly of right answers, and wrong ones occur |
| `miter` | 12617 calls with up to 3 driven inputs and all patterns, 192 calls with all choices of random patterns; words of 2 | exact verdict; verdicts that err on one side only |
| `bus_match` | 3 buses a side of 2 to 5 bits, quotas 1 to 3 | only feasible pairs of sizes, a complete assignment among them |
| `candidates` | 1862 port lists of 3 against 4 or 3 inputs, with a match | no filter drops a partner of the match |
| `netlist` | 4164 files of 3 inputs, 2 outputs, up to three gates with buffers and inverters, and broken ones | functions preserved at every step; edges mirrored; the parser ends |
| `simplifier` | six formulas over four variables, each with the techniques it gives work to, in every order, and a call after the first answer; seven formulas of up to seven variables for bounded variable elimination, with units that are not propagated | models extend to all clauses ever added; assumptions keep their models; no clause over a removed variable unless refuted; frozen variables stay; the checker accepts the proof; the promise |
| `cdcl` | twenty questions over five variables, each for a case or an option; all decisions; a later call; termination at any time | watches; nothing missed by propagation; the trail explains itself; learned clauses follow; failed assumptions refute; the promise; every call comes back |
| `dangling`, `backward_lost` | | violated: findings below |

Findings, each the violated property of a run:

* `dangling`: a pair is accepted while a preset input dangles at 0
  (:1035); a later pair locks the input to its preset partner, after which the
  first pair is no longer equivalent. `verifyResult` would print "not eq".
* `backward_lost`: `elim_backward_clause` never resets `satisfied`
  (`backward.cpp:45`). After one clause that a unit satisfies, which a delayed unit
  makes possible, every later clause that is not smaller is dropped although nothing
  implies it. The model returned does not satisfy a clause of the user. The solver
  built from these sources does the same: with the clauses of the run, its frozen
  variables and the option `check`, it stops with "unsatisfied clause:"
  (`external.cpp:365`).

Observations made while modelling that no run reports:

* For an output with an unmatched input `verifyResult` warns (:1549) and then
  passes index -1, with which the miter reads before `input1` (`VerifyCrash`).
* The constant 1 is simulated as `bitset<8192> b(1)` (`Netlist.h:2048`), which is 1
  on the first pattern only, so a word of a circuit with such a constant is wrong;
  the circuits of `miter` have none.
* `match_bus` compares its quota, an int, with a size (:741): a negative one, when
  circuit 1 shares more inputs, is huge, nothing is pruned, and pairs of sizes are
  recorded that no assignment has (buses 2, 2, 2 against 2, 2, 2 with a quota of
  -1). `OnlyFeasible` is about quotas that are not negative.
* With the exemption of `n84` (:935, case 08, `Unpaired = {n84}`) the search
  reaches states in which `bus_1_to_2` and `bus_2_to_1` are not inverse to each
  other, and releasing one clears an entry that another input relies on.
* `verifyResult` compares the lock counts after the search has undone them, so
  after a partial match it prints "lock count wrong!!" (:1527) for every input
  below an output. `FullMatchCounts` is therefore stated for full matches.
* `recur_match_bus` cuts a branch that begins with known pairs even if it would
  end with a new one (:690): with buses of 2, 2, 2, 3 against 2, 3, 4, 4 bits and
  a quota of 4 the pair (3, 3) is never recorded, and `genInputMatch` drops what
  is not recorded. `OneRecorded` is what does hold.
* Output candidates are not sorted by bus size, as :1208 says: :1210 looks the bus of a
  circuit-1 output up among the buses of circuit 2, and reads past their end when
  circuit 1 has more. Candidates with equal supports then come in any order.
* `main.cpp:73` announces constants for inputs that nothing depends on; none are
  written, so such an input is in no group of the file.
* `cadical.hpp:290-291` gives a constraint the lifetime of the assumptions. After
  result 0 `solve` drops the assumptions only (`solver.cpp:598-627`), and the next
  call still has the constraint. `IncrementalSat` says what the code does.
* `cadical.hpp:229-230` says assumptions are reset after `lookahead`; the code does
  not (`GiveLiteral`). `assume` requires READY by `cadical.hpp:232` but accepts a
  clause that is half added (`solver.cpp:553`).
* `External::generate_cubes` (`external.cpp:285-303`) renames the literals of copies
  of its cubes, so the caller gets internal literals; the internal one clears
  `unsat` after a cube is refuted on level 0 (`lookahead.cpp:447`).
* `External::extend` (`extend.cpp:107`) keeps the value of the last model for a
  variable without internal literal until the stack decides it.
* The branches of `miterGetResult` for NAND, NOR and OR are not modelled; the
  mapping library has no such gates.

`AnswerKept` is checked where no input is preset; with presets it fails for the
reason `dangling` shows. `ModelsExtend` and `KeepsPromise` are no theorems of the
simplifier: they hold on the formulas of `simplifier`, where all
that is dropped unchecked is implied by the rest, and fail on that of `backward_lost`.

### Bounds

A violation of the bookkeeping needs a commit, a second pair that records locks
of the first, and a failure that undoes both; two outputs do that, and three
(`sampled`) let an undo pass through a level that stays. Two or three inputs let
inputs be shared, constant, recorded and free at once. The circuits of a run
include matching ones, ones that match under one polarity only, and ones that do
not match at all, so both the return through success and the full unwinding
occur. The real limit of 18 inputs for exhaustive simulation is the constant
`ExhaustiveLimit`: 18 makes every small instance exhaustive, 0 makes every one
sampled; in `MiterSimulation` each call carries its own. Words of two patterns
and up to eight patterns give a half-filled word, several rounds and the extra
last round of the code. Three buses of up to four different sizes let the
recursion return, prune and find a pair twice. Two circuits of a few ports are
enough for the filters, which look at one pair of ports at a time. No counter of
the matcher is capped: recursions and files bound all of them.

`simplifier`: four variables are the fewest on which an if-then-else gate, a
covered clause and a chain of two eliminations exist. The six formulas are chosen
so that each technique has work; a formula enables the techniques it is for, and
together, those that undo each other's premises (blocking with conditioning,
elimination with vivification, substitution with deduplication under an
assumption).
`MaxStarts = 1` allows one inprocessing round or repeated elimination round,
`MaxLearned = 1` one learned clause next to the original ones, `MaxCalls = 1` one
more clause, assumption, freeze, melt or lookahead, after which `solve` restores what was
removed. `MaxCopies = 2` lets equal clauses stand side by side, which
deduplication and the proof must count. A run can stop only between calls
(`Finished`): the deadlock check shows that no technique gets stuck.

The seven formulas for elimination have up to seven variables (in the six others those
left over are facts) and neither learned clauses nor further calls: `enabled` lacks
`learn` and `calls`. A unit is delayed when
counting the resolvents of a pivot did not find it, because the clauses of the pair
only became short through the unit of a later pair. The formulas are chosen for that;
most begin with the clauses of the first and add a second pivot whose clauses or gate
are satisfied or shortened by the unit, a clause compared after a satisfied one, a
resolvent that becomes empty, and a clause that is unit without having been propagated
(found by enumeration). Every action of the elimination occurs in the run.
`backward_lost` needs eight variables.

`cdcl`: five variables give three decision levels with a propagated literal on
each, which out-of-order assignment, shrinking of a block of two and jumping over a
level need. The questions of `MCCdcl` cover, one by one: chronological backtracking
always, never and beyond a limit, trail reuse, a forced flip, minimization alone, a
block whose shrinking fails, a constraint that fails, assumptions that fail
through reasons, assumptions that contradict each other or falsify a clause in the
walk, a walk between conflicts, a conflict limit of 0, and each of restart, rephase and reduce. `MaxReductions = 1`: the code
lets the interval between reductions grow (`reduce.cpp`), so finitely many
conflicts see finitely many reductions. `MaxTerminates = 1`: the flag is reset at
the end of each call.

Assumed of the matcher's input: no inverter or buffer behind another in the mapped files
(ABC does not write any), a single driver per net, names of gates and nets
distinct, indices in the support files that fit the circuits, and no answer file
when the program starts.

Simplifications in the models of the solver: schedules, limits and scores leave
open which candidate comes next and when a technique ends. User clauses have no
literal twice and are added whole, and in `Cdcl` all variables are declared at the
start. Which clauses `reduce` keeps (glue, `used`) is any set without reasons. A
limit of restarts, rephasing or reduction is passed at any conflict, if its option
is on. Shrinking is modelled off or at level 3. The
caches of minimization (`removable`, `poison`) repeat what was computed and are left
out. The flips of a walk are not followed: it finds any assignment of the irredundant
clauses or none, and the order it leaves the literals in is that of some assignment.
A walk collects garbage even if nothing was fixed since the last collection; the
clauses it takes then are watched by nobody. In elimination the order of occurrence
lists and of literals in a clause is open, so the clause compared next and the literal
whose list is used are any the code could take; equal clauses are copies of one
another, in the queue too. `Cdcl` eliminates no variable, `Simplifier` keeps no trail above level 0: the
two meet in the values of level 0 and the clauses, which is all that
inprocessing sees after its backtrack.

### Fairness

Each `Spec` of the matcher has weak fairness of its next-state relation: one thread that never
blocks, reads no input and waits for nothing takes a next step while there is
one. It is used for the ends: `AnswerKept`, `AnswerConfirmed`, `AnswerDelivered`
and `ParserEnds`.

`Cdcl` cannot have fairness of the whole: the user need not call again. Its
`Fairness` is weak fairness of the solver's own steps, written as: either solving
is over again and again, or a step that is not `terminate` happens again and
again. No step of solving waits for the user or for the other thread. Under it
`AnswersComeBack` says that every `solve` ends, although restarts, rephasing and
backtracking undo progress and no bound of the model counts conflicts: each
learned clause is new.

## Proofs

Checked by TLAPS for circuits of any size, any candidate lists, supports, buses and
presets that satisfy the assumptions of the modules, which every run evaluates on
its instance. A theorem that needs more says so as a hypothesis:

| Hypothesis | Says | Why it is needed |
|---|---|---|
| `Unpaired = {}` | not case 08 | there `n84` is placed without the test of the buses and the bus maps do stop being inverse (see the observations) |
| `NoPresets` | `MatchAlgo` preset no input | an input left out as dangling is locked by a later pair, after which the first pair is wrong: run `dangling` |
| `Exhaustive` | fewer inputs than `ExhaustiveLimit` | from 18 driven inputs on, a pair is accepted on random samples |
| `SupportsExact` | an output depends on the inputs in its support only | the support files are never compared with the netlists |
| `PiIdxExact` | the inputs below an output are its support | an input below an output but not in its support is counted by `verifyResult` and locked by nobody |
| `NoConstantOne` | no constant 1 among the gates | `miterGetResult` gives it in one position only |
| `NoWrap` | the quota of `match_bus` is not negative, and sizes and quota fit a `size_t` | `match_bus` compares its quota, an int, with a size (:741): see the observations |

`MCPipeline` states as `AnswerConditions` that the instance of `pipeline`
satisfies `NoPresets` to `PiIdxExact`, `MCVerifyPreset` those it uses, and `MCBusMatch` as
`BusConditions` the last; `Unpaired` is empty in all runs and the circuits of
`miter` have no constant 1.

| Theorem | Shows | Hypotheses |
|---|---|---|
| `TypeCorrect` | `TypeOK` | |
| `OutputsOneToOne`, `OutputsHeld` | `OutputOneToOne`, `OutputLocksHeld` | |
| `InputsHeld` | `InputLocksHeld` | |
| `InputsOneToOne` | `InputOneToOne` | |
| `MiterSeesSupport` | `SupportDriven` | |
| `BusesOneToOne`, `BusesInUse`, `SearchUnwound` | `BusOneToOne`, `BusesHeld`, `CleanUnwind` | `Unpaired = {}` |
| `SearchImplementsAnswer` | the search implements `MatchAnswer`, but for the end | `NoPresets`, `Exhaustive`, `SupportsExact` |
| `AnswersEquivalent` | `AnswerEquivalent` | the same |
| `VerdictsRight` | `VerdictRight` | `Exhaustive`, `SupportsExact` |
| `FullMatchCounted` | `FullMatchCounts` | `NoPresets`, `PiIdxExact` |
| `VerifyConfirms`, `PipelinePasses` | the answer passes verification, and main writes its file after that | `NoPresets` to `PiIdxExact` |
| `FileUpToDate`, `FileCutOff` | `FileIsBest`, `KilledFile` | |
| `EdgesAreMirrored`, `FunctionIsPreserved` | `EdgesMirrored`, `FunctionPreserved` | |
| `VerdictNeverRefuses`, `VerdictIsExact` | `VerdictOneSided`, `VerdictExact` | `NoConstantOne` |
| `FeasibleRecorded`, `WholeRecorded` | `OnlyFeasible`, `OneRecorded` | `NoWrap` |
| `FrozenStays`, `RemovedIsGone` | `FrozenKept`, `NoClauseOfRemoved` | |
| `SimplifierTyped` | the types of clauses, proof, stack and flags (`Typed`) | |

### The invariants

None of the properties of the search is inductive: an undo resets one lock or one
counter whatever the other levels hold, so the invariant has to say who holds what.

* `TypeOK` is inductive because `StackShape` says which frames may be past their last
  candidate or polarity: only the top one, at the points where the code is about to
  test that. Without it `OutCand[..][k]` and `InCand[..][j]` would have no type.
* `OutputPairing`, for the outputs: the levels picked different outputs
  (`PicksDistinct`), the committed levels have different candidates, each counted
  once, and hold exactly the locks there are (`PairsHeld`), and the candidate being
  worked on is not counted (`CandidateFree`, established by the test at :1105 and
  preserved until the commit at :831, although everything between them runs with the
  counter shared).
* `InputHolding`, for the input locks: an input is taken by one activation of one
  level and by nobody above it (`FramesApart`), every lock has such an activation and
  is what that activation is at, and the counter is the number of levels that hold or
  recorded the input (`LocksTaken`). What makes it work is that
  `filtLockedInput` takes the inputs locked below out of `c2_input_set`, so the
  activations of different levels never meet, though they share one lock array.
* `MatchesCounted`: `c1_inputMatchCount[c]` is the number of inputs placed on `c`. With
  as many inputs on both sides the test at :902 keeps it at one, and so
  `InputOneToOne`: a lock is always that of a placed input.
* `SupportSplit` and `QuotaKept`, for the quota: the support of a level's output is
  the inputs recorded as locked, its own, those left to it, and dangling ones; `used[c]`
  counts the inputs the level works with on `c`; the partners are in the candidate's
  support; and the quota is the inputs without a place, plus the partners, less
  that support, and never negative. When nothing is left, a quota that is not
  negative forces the partners to be the whole support: `SupportDriven`. The same
  fact in a committed level (`CommittedSupport`) is why the verdict of `verifyResult`
  is right with presets, too.
* `BusHolding`, for the buses: the maps are inverse, a bus is bound while its count is
  positive, and the count is the sum of three numbers: inputs placed on it, outputs
  committed on it, locks recorded for it. Whoever finishes last releases the
  bus, and the three come and go in different functions.
* `PairsRight`, for the answer: the pair of a committed level is equivalent under the
  locks as they are now. It is made true by the miter, which decided on all patterns
  of what was driven, and that was the support (`SupportDriven`); it stays true
  because the steps above it lock and unlock only inputs that are not in its support
  (`InputHolding`, `SupportSplit`). Recording copies the locks when the stack is deeper
  than before (`AnswerDepth`), so each abstract step improves by one.
* `Passing`, for verification: `RecordedDriven` and `RecordedMatched` carry over from the
  locks to the recorded answer that its inputs are there, and `VerdictSoFar` says that
  `eq` is the verdict on the outputs done so far and `point` their score. What
  the second miter call is given (the inputs below the output) differs from what the
  first was given (all locks); both decide the pair (`BelowDecides`, `MiterDecides`).
* `Simulating`, for the miter: every position of the words is one assignment of the
  driven inputs, which circuit 2 follows. `WordsAreSignals` is the lemma about
  the netlist: each position of the word of a node is the node's own value. It
  needs that the recursion has one solution, `SignalExists` and `SignalUnique`, which
  follow from the absence of loops: a first node without a value, or with two,
  would have fan-ins with exactly one.
* `Exact`, for the exact verdict: `Covered` says that the verdict so far is that of the
  first `PNUM * time` patterns, and a call that goes on has not refused. With few inputs
  the rounds end past the last pattern (`TwoTo`), pattern n is the set of inputs whose
  bit n has, and every set of inputs has such a number: induction over the inputs.
* `FileKept`, for the answer file: what is on disk and what is left to write are together
  what `writeOutput` gives for the recorded answer. The rest is about one text: `Reads`
  says that a reader goes from one state to another and on the way never shows more
  than the answer; it holds line by line and is joined over lines, groups and kinds of
  groups, so it holds of the whole file and, as `Partly`, of each beginning of it.
* `Path`, for the bus matching: the activations hold different buses of circuit 1, what
  their surpluses leave of the quota is what the next one sees, and nothing wraps.
  `OnlyFeasible` itself needs it at `Complete`. `Searching`, for what is not missed: until
  the first assignment is complete (`Whole`) none comes before the buses chosen in the
  order of the loops (`Ahead`), since `new_match` prunes only after that.

* `GraphInv`, for the edges: a net is an edge in `_fi` as often as in `_fo` (`Mirror`),
  and that survives `Redirect`, which replaces one of several fan-ins, because a node
  that is skipped has one fan-in (`Single`) that is not itself (`Loopless`). While
  lines are read (`Reading`), no gate has the name of a net or of another gate, and
  each net has at most the fan-in its one driver gave it; so the finished graph has no
  loop because the file has none.
* `ComputeInv`, for the function: `Computing` says that for every input there is a set of
  nodes which solves the nodes' equations and agrees with the file on the outputs. A
  graph without loops has one solution (`SolutionsAgree`) and it is what `OutputValue`
  computes; a step that skips or deletes a node turns the solution into a solution of the
  rest; the first one is made of what the file's nets carry. `Simplifying` is what makes
  skipping right: `inv` counts leading fan-ins only, so a fan-in that goes must not be
  one of them (`Inverted`), and an inverter must not drive another (`Apart`), nor be
  reached before the wires are gone (`WiresFirst`, `NetsRead`; nodes before `at` are no
  longer removable). `ReadNets` is the same while the parser reads.
* `Kept`, for the simplifications of the solver, over any variables, calls and order of
  techniques: `Typed`, `FrozenKept`, and `ClausesLast`, that no clause is a tautology and
  its variables are there (`Lasts`), for a redundant one until the round of elimination
  or blocking that took its variable has collected it (`Late`). A technique takes a
  variable only if every clause that has it goes in the same step, and the clauses that
  come are built from clauses that last: so one lemma about `Rewrite` and one per
  technique. That nothing is a tautology is needed where a resolvent or a substituted
  clause must not have the pivot any more. Propagation and `Reach` are closures that recursive
  functions compute; that they are the least closed sets is `ClosureLeast`. In `decompose` the equivalence classes are
  disjoint and each has one smallest literal that is not removed (`SmallestFacts`).
  `restore_clauses`, the clauses of a start and the steps of `cover_clause` go one by one
  (`FiniteRecursion`), and a restored clause gives its variables back first.

TLC checked each of these invariants on the instances of the runs (those of the search
on `sampled`, `buses`, `pipeline` and `verify_preset`, `GraphInv` and `ComputeInv` on
`netlist`, `Kept` on `simplifier`) before it was proved; since the theorems hold, the
runs do not repeat them.

### Only model-checked

* Ends: `<>finished` in `AnswerKept`, `AnswerConfirmed`, `AnswerDelivered`,
  `ParserEnds`, `AnswersComeBack`, and `SearchComplete`, which compares the outcome
  with a search over all matchings.
* `PartnersKept`: the filters of the candidates.
* Of the simplifications of the solver, `ModelsExtend`, `ModelsKept`, `ProofAccepted` and
  `KeepsPromise`: they relate models of all clauses ever added to the clauses there are,
  across every entry of the reconstruction stack.
* Everything about `Cdcl`: its propagation over watches and its first UIPs are folds.

The library's theorems about induction take an operator as a parameter and cannot be
used. `Recursion` states induction about a set of numbers instead, and recursion
about a function that gives the next value; the definitions that are proved about
are written as recursive functions (`Spent`, `TwoTo`, `ReadFile`, `NetValue`,
`Restored`) or with
operators of the library that are (`FlattenSeq`), not as folds with a `LAMBDA`. The value
of a netlist is a `CHOOSE` over functions of its nets: `SolutionExists` shows, by joining
the solutions on parts of a graph without loops, that its equations have one.

## Not modelled

Listed under `components` in `PROJECT.json` with reasons. Of the matcher: the
presets (`MatchAlgo`, `setInitSolution`, and `setGroupMatch`, which serves case 3
and bypasses the search), the structure recognisers of `Netlist.h` that feed them,
the CNF miter of the final answer, reading and splitting text, `miterOneOutput`
(never called), printing. Of the solver: decision heuristics (they choose among
steps that are all possible in `Cdcl`), memory and arenas, the levels of
`generate_cubes`, the API fuzzer `mobical`, reading DIMACS files, options, and what
is printed. ABC is not part of the repository.

## Plan

Done: the search of the matcher and its promise; the miter, the answer file, the candidates, the bus
matching, the netlist, the verification and their composition in `Pipeline`; the
solver's simplifications and its search, each against the promise of an
incremental solver.

Proved, of the matcher: every safety invariant of the search but `SearchComplete`, its
refinement of `MatchAnswer`, verification, the exact verdict of the miter, the answer
file in every state, what bus matching records, and that parsing and simplifying a
netlist keep its edges and its function. Of the solver: what the simplifications keep of
the variables (`FrozenKept`, `NoClauseOfRemoved`).

Next, theorems:

1. `Candidates`: that no filter drops a partner of a match (`PartnersKept`).
2. `Simplifier`: that each technique keeps the models (`ModelsKept`), on top of `Kept`;
   a technique that only strengthens or subsumes first, then the witnesses.
3. `Cdcl`: that the failed literals are assumptions, and what backtracking keeps; needs
   its folds as recursive functions, as in `Netlist`.
4. That `ProblemsAssumption` of the miter holds of what `Netlist` leaves: fan-ins of the
   right number and no loop are in `ComputeInv` and `GraphInv`.

Next, models: `setInitSolution` (:500-589) with its offset, `CountGate`
(`Netlist.h:670-755`), the pairs the CNF miter compares (`miter.cpp:43-370`),
`setBus` with the special bus of `n84`, and a negative quota in `BusMatch`.
