---------------------------- MODULE EthproofsClient ----------------------------
(***************************************************************************)
(* The post of one block's proof to Ethproofs                              *)
(* (EthproofsClient::proved and post_json, prover/common): the attempts,   *)
(* the waits between them and what each answer leads to, over a network    *)
(* that loses requests and answers or delivers them late. The service may  *)
(* be killed in between and started again from the same block, which then  *)
(* proves and posts it anew; requests of the earlier run may still be on   *)
(* their way. The server is external: it stores a block's proof once and   *)
(* answers 409 to any later one.                                           *)
(***************************************************************************)
EXTENDS Integers, FiniteSets

CONSTANTS
  PROVED_ATTEMPTS,   \* posts of one proof, at most
  MAX_RETRY_WAIT,    \* longest wait between two posts, in seconds
  ERROR_WAIT,        \* wait after a server error or no answer
  RATE_WAIT,         \* wait after a 429 that names none
  ServerWaits,       \* waits a 429 may name
  MaxFaults,         \* bound: rate limits, server errors and lost messages
  MaxRuns            \* bound: service runs that post this block

ConstantsAssumption ==
  /\ PROVED_ATTEMPTS \in Nat \ {0}
  /\ MAX_RETRY_WAIT \in Nat
  /\ ERROR_WAIT \in Nat
  /\ RATE_WAIT \in Nat
  /\ ServerWaits \subseteq Nat
  /\ MaxFaults \in Nat /\ MaxRuns \in Nat \ {0}

VARIABLES
  run,       \* the service run whose call is under way
  pc,        \* where that call is: post, await, sleep, done, killed
  attempt,   \* posts it has sent
  wait,      \* the sleep before its next post
  outcome,   \* what it logged when it returned
  flight,    \* requests on the network, as <<run, attempt>>
  answer,    \* the answer to the current request, if it arrived
  storedBy,  \* the request whose proof the server keeps
  faults     \* faults so far

vars == <<run, pc, attempt, wait, outcome, flight, answer, storedBy, faults>>

NoRequest == <<0, 0>>
Requests == (1..MaxRuns) \X (1..PROVED_ATTEMPTS)

\* A 429 with the wait it names; a 429 that names none carries RATE_WAIT.
RateLimits == [status : {"limited"}, wait : ServerWaits \cup {RATE_WAIT}]
ServerError == [status |-> "server_error", wait |-> ERROR_WAIT]
NoResponse == [status |-> "no_response", wait |-> ERROR_WAIT]
Success == [status |-> "success", wait |-> 0]
Conflict == [status |-> "conflict", wait |-> 0]
Refused == [status |-> "refused", wait |-> 0]
NoAnswer == [status |-> "pending", wait |-> 0]

\* PostError.retry_after is set: repeating the post can succeed.
Retryable(a) == a.status \in {"limited", "server_error", "no_response"}

Least(m, n) == IF m < n THEN m ELSE n

-----------------------------------------------------------------------------
Init ==
  /\ run = 1
  /\ pc = "post"
  /\ attempt = 0
  /\ wait = 0
  /\ outcome = "none"
  /\ flight = {}
  /\ answer = NoAnswer
  /\ storedBy = NoRequest
  /\ faults = 0

\* post_json sends the request and waits for its answer.
Post ==
  /\ pc = "post"
  /\ attempt' = attempt + 1
  /\ flight' = flight \cup {<<run, attempt + 1>>}
  /\ answer' = NoAnswer
  /\ pc' = "await"
  /\ UNCHANGED <<run, wait, outcome, storedBy, faults>>

Awaits(r) == pc = "await" /\ r = <<run, attempt>> /\ answer = NoAnswer

\* The server's reading of request r (external): what it may answer, and
\* the proof it keeps afterwards. A server error may come after storing.
Handled(r) ==
  \/ storedBy = NoRequest /\ storedBy' = r /\ answer' = Success /\ UNCHANGED faults
  \/ storedBy # NoRequest /\ answer' = Conflict /\ UNCHANGED <<storedBy, faults>>
  \/ answer' = Refused /\ UNCHANGED <<storedBy, faults>>
  \/ /\ faults < MaxFaults
     /\ faults' = faults + 1
     /\ \/ answer' \in RateLimits /\ UNCHANGED storedBy
        \/ answer' = ServerError /\ storedBy' \in {storedBy, IF storedBy = NoRequest THEN r ELSE storedBy}

ServerAnswers(r) ==
  /\ r \in flight
  /\ Awaits(r)
  /\ flight' = flight \ {r}
  /\ Handled(r)
  /\ UNCHANGED <<run, pc, attempt, wait, outcome>>

\* The request reaches the server but its answer is lost, or nobody waits
\* for it any more.
AnswerLost(r) ==
  /\ r \in flight
  /\ flight' = flight \ {r}
  /\ \/ Awaits(r) /\ faults < MaxFaults /\ faults' = faults + 1 /\ answer' = NoResponse
     \/ ~Awaits(r) /\ UNCHANGED <<faults, answer>>
  /\ storedBy' \in {storedBy, IF storedBy = NoRequest THEN r ELSE storedBy}
  /\ UNCHANGED <<run, pc, attempt, wait, outcome>>

\* The client's timeout: the request stays on the network and may arrive later.
TimesOut ==
  /\ Awaits(<<run, attempt>>)
  /\ faults < MaxFaults
  /\ faults' = faults + 1
  /\ answer' = NoResponse
  /\ UNCHANGED <<run, pc, attempt, wait, outcome, flight, storedBy>>

-----------------------------------------------------------------------------
Returns(o) == pc' = "done" /\ outcome' = o /\ UNCHANGED wait

\* The longest wait the server can ask for is cut to MAX_RETRY_WAIT.
retry_wait(a) == Least(a.wait, MAX_RETRY_WAIT)

retries_left_M2 == attempt + 1 < PROVED_ATTEMPTS

retries_left == attempt < PROVED_ATTEMPTS

already_stored_M1(a) == attempt > 1 /\ ~Retryable(a)

\* A 409 to a retry means an earlier attempt landed, its answer lost.
already_stored(a) == attempt > 1 /\ a = Conflict

\* Only failures that can pass are retried.
retry_after(a) == Retryable(a)

\* What proved() does with the answer: return on success and on a 409 to a
\* retry, sleep and retry what can still succeed, give up otherwise.
Receive ==
  /\ pc = "await"
  /\ answer # NoAnswer
  /\ \/ answer = Success /\ Returns("ok")
     \/ /\ answer # Success
        /\ \/ already_stored(answer) /\ Returns("already")
           \/ /\ ~already_stored(answer)
              /\ retry_after(answer) /\ retries_left
              /\ pc' = "sleep"
              /\ wait' = retry_wait(answer)
              /\ UNCHANGED outcome
           \/ /\ ~already_stored(answer)
              /\ ~(retry_after(answer) /\ retries_left)
              /\ Returns("failed")
  /\ UNCHANGED <<run, attempt, flight, answer, storedBy, faults>>

Wake ==
  /\ pc = "sleep"
  /\ pc' = "post"
  /\ UNCHANGED <<run, attempt, wait, outcome, flight, answer, storedBy, faults>>

\* The service is killed, and its posts with it; what is on the network stays.
Kill ==
  /\ run < MaxRuns
  /\ pc \notin {"done", "killed"}
  /\ pc' = "killed"
  /\ UNCHANGED <<run, attempt, wait, outcome, flight, answer, storedBy, faults>>

\* It is started again from the same block, proves it and posts the proof.
Restart ==
  /\ pc \in {"killed", "done"}
  /\ run < MaxRuns
  /\ run' = run + 1
  /\ pc' = "post"
  /\ attempt' = 0
  /\ wait' = 0
  /\ outcome' = "none"
  /\ answer' = NoAnswer
  /\ UNCHANGED <<flight, storedBy, faults>>

Network == \E r \in flight : ServerAnswers(r) \/ AnswerLost(r)

Next == Post \/ Network \/ TimesOut \/ Receive \/ Wake \/ Kill \/ Restart

AnswerOrTimeout ==
  TimesOut \/ \E r \in flight : Awaits(r) /\ (ServerAnswers(r) \/ AnswerLost(r))

\* The runtime polls the call until it returns, and a request that waits is
\* answered or times out.
Fairness ==
  /\ WF_vars(Post)
  /\ WF_vars(Receive)
  /\ WF_vars(Wake)
  /\ WF_vars(AnswerOrTimeout)

Spec == Init /\ [][Next]_vars

FairSpec == Spec /\ Fairness

-----------------------------------------------------------------------------

\* When proved() reports the proof as posted, at once or as already stored
\* by an earlier attempt, the server does hold a proof of the block.
ReportedIsStored == outcome \in {"ok", "already"} => storedBy # NoRequest

\* With fewer faults than attempts and no restart, the proof reaches the
\* server unless the server refuses it: no sequence of rate limits, server
\* errors and lost answers within the attempts loses it.
Delivered ==
  <>(storedBy # NoRequest \/ answer = Refused \/ faults >= PROVED_ATTEMPTS \/ pc = "killed" \/ run > 1)
=============================================================================
