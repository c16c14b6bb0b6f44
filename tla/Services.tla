------------------------------- MODULE Services -------------------------------
(***************************************************************************)
(* The parts of the proving host that share no state with each other, side *)
(* by side: the Hypercube service, the Ethproofs client, the fetcher and   *)
(* the prover's thread.                                                    *)
(***************************************************************************)
EXTENDS HypercubeService

CONSTANTS
  \* EthproofsClient
  PROVED_ATTEMPTS, MAX_RETRY_WAIT, ERROR_WAIT, RATE_WAIT, ServerWaits, MaxPostFaults, MaxRuns,
  \* Fetcher
  Procs, MAX_RETRIES, MaxFetches, MaxFetchFaults, FetchRequests,
  \* BlockProver
  MaxProofs

VARIABLES
  \* EthproofsClient
  run, call, attempt, wait, outcome, flight, answer, storedBy, faults,
  \* Fetcher
  files, names, at, kind, req, id, got, out, attempts, excused, fetched, fetches, failures,
  \* BlockProver
  caller, calls, worker, spawned, thread, init, request, open, batch, reply, result, purpose

Client == INSTANCE EthproofsClient WITH MaxFaults <- MaxPostFaults, pc <- call

Fetcher == INSTANCE FetcherProofs
  WITH MaxCalls <- MaxFetches, MaxFaults <- MaxFetchFaults, Requests <- FetchRequests,
       pc <- at, result <- fetched, calls <- fetches, faults <- failures

Prover == INSTANCE BlockProver WITH MaxCalls <- MaxProofs, pc <- caller

-----------------------------------------------------------------------------
\* The properties of the parts other than the Hypercube service, stated where
\* they are modelled.

\* A proof reported as posted is on the server.
ReportedIsStored == Client!ReportedIsStored

\* A bundle file is whole, whatever crashed while it was written.
BundleWhole == Fetcher!BundleWhole
\* A forced fetch without a fault of its own returns what the node gave it.
ForcedIsFresh == Fetcher!ForcedIsFresh

\* At most one GPU prover exists at a time.
OneProver == Prover!OneProver
=============================================================================
