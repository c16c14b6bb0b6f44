------------------------------ MODULE TestService ------------------------------
(***************************************************************************)
(* The EEST mode of the Hypercube prover (run_test_service_eest) over the  *)
(* guest's answer (StateTransition::run_mfbd): the guest folds the outcome *)
(* of every bundle of a file into one 64-bit number, in which the two      *)
(* largest values mean failure and skipped, and the service counts each    *)
(* file as passed, failed or skipped by that number alone.                 *)
(*                                                                         *)
(* The width of the number is a constant, so that sums reach its limit. A  *)
(* bundle is one block, which the rules let use no more gas than           *)
(* kMaxGasLimit, half the range of the number.                             *)
(***************************************************************************)
EXTENDS Integers, Sequences, SequencesExt

CONSTANTS
  Width,         \* bits of gas_used
  GasValues,     \* gas of one bundle
  MaxBundles,    \* bound: bundles in one file
  MaxFiles,      \* bound: files in the test directory
  Limits         \* values of --max-file-size, 0 for none

VARIABLES max_file_size, i, passed, failed, skipped, current, verdict

vars == <<max_file_size, i, passed, failed, skipped, current, verdict>>

kRunFailure == 2 ^ Width - 1
kRunSkipped == 2 ^ Width - 2

kMaxGasLimit == 2 ^ (Width - 1) - 1

Bundles == [ok : {TRUE}, gas : {g \in GasValues : g <= kMaxGasLimit}] \cup {[ok |-> FALSE, gas |-> 0]}
Files ==
  [size : {1, 3}, readable : BOOLEAN, executes : BOOLEAN,
   bundles : UNION {[1..n -> Bundles] : n \in 0..MaxBundles}]

\* The gas of the bundles added up in Width bits.
cumulative_gas(bs) == FoldLeft(LAMBDA sum, b : (sum + b.gas) % 2 ^ Width, 0, bs)

\* The first bundle that does not validate ends the run as a failure; no
\* bundle at all is a skipped run.
run_mfbd(bs) ==
  IF \E k \in DOMAIN bs : ~bs[k].ok THEN kRunFailure
  ELSE IF bs = <<>> THEN kRunSkipped
  ELSE cumulative_gas(bs)

verdict_of(result) ==
  IF result = kRunFailure THEN "FAILED" ELSE IF result = kRunSkipped THEN "SKIP" ELSE "PASS"

NoFile == [size |-> 0, readable |-> FALSE, executes |-> FALSE, bundles |-> <<>>]

Init ==
  /\ max_file_size \in Limits
  /\ i = 0
  /\ passed = 0 /\ failed = 0 /\ skipped = 0
  /\ current = NoFile
  /\ verdict = "none"

Count(v) ==
  /\ passed' = IF v = "PASS" THEN passed + 1 ELSE passed
  /\ failed' = IF v = "FAILED" THEN failed + 1 ELSE failed
  /\ skipped' = IF v = "SKIP" THEN skipped + 1 ELSE skipped
  /\ verdict' = v

NextFile(f) ==
  /\ i < MaxFiles
  /\ i' = i + 1
  /\ current' = f
  /\ UNCHANGED max_file_size

too_large(f) == max_file_size > 0 /\ f.size > max_file_size

\* A file over the size limit is skipped unread.
SkipLarge(f) == NextFile(f) /\ too_large(f) /\ Count("SKIP")

\* A file that cannot be read, or whose execution fails, counts as failed
\* and the next one follows.
FailUnrun(f) == NextFile(f) /\ ~too_large(f) /\ ~(f.readable /\ f.executes) /\ Count("FAILED")

\* The guest ran: its answer decides.
CountResult(f) ==
  NextFile(f) /\ ~too_large(f) /\ f.readable /\ f.executes /\ Count(verdict_of(run_mfbd(f.bundles)))

Next == \E f \in Files : SkipLarge(f) \/ FailUnrun(f) \/ CountResult(f)

Spec == Init /\ [][Next]_vars

-----------------------------------------------------------------------------
\* docs/architecture.md, Public output: gas_used is "cumulative across bundles, or a
\* sentinel", and "it carries a sentinel on the failure/empty paths". A file that ran is
\* so counted as what its run was: PASS when every bundle validated and there was one,
\* SKIP when there was none, FAILED when one did not.
VerdictIsRight ==
  (verdict # "none" /\ ~too_large(current)) =>
    LET ran == current.readable /\ current.executes
        valid == \A k \in DOMAIN current.bundles : current.bundles[k].ok IN
      /\ (verdict = "PASS") <=> (ran /\ valid /\ current.bundles # <<>>)
      /\ (verdict = "SKIP") <=> (ran /\ current.bundles = <<>>)

=============================================================================
