------------------------------ MODULE BlockProver ------------------------------
(***************************************************************************)
(* BlockProver (prover_airbender/src/prove.rs): the caller's side and the  *)
(* thread that owns the prover. A Worker is a thread, the channel of       *)
(* requests to it and the channel it announces its set-up on; each request *)
(* carries the channel of its own reply. A panic in the prover unwinds the *)
(* thread, which closes its ends of these channels; the caller then joins  *)
(* it and spawns another worker.                                           *)
(***************************************************************************)
EXTENDS Naturals

CONSTANT MaxCalls  \* bound: calls of prove

ConstantsAssumption == MaxCalls \in Nat \ {0}

VARIABLES
  pc,        \* the caller: new, init, idle, send, wait, join, dead
  calls,     \* calls of prove so far
  worker,    \* the current Worker, 0 for None
  spawned,   \* workers spawned so far
  thread,    \* each worker's thread: none, building, waiting, proving, leaving, ended
  init,      \* its set-up message: pending, ok, err, closed
  request,   \* the request on its channel: the batch, 0 for none
  open,      \* workers whose requests sender the caller still holds
  batch,     \* the last batch id given out
  reply,     \* each batch's reply: pending, artifact, error, closed
  result,    \* what prove returned for each batch: none, ok, error, panic
  purpose    \* what the caller spawns for: new, prove, replace

vars == <<pc, calls, worker, spawned, thread, init, request, open, batch, reply, result, purpose>>

Batches == 1..MaxCalls
Workers == 1..(2 * MaxCalls + 1)  \* one in new, and at most two for each call

Init ==
  /\ pc = "new"
  /\ calls = 0
  /\ worker = 0
  /\ spawned = 0
  /\ thread = [w \in Workers |-> "none"]
  /\ init = [w \in Workers |-> "pending"]
  /\ request = [w \in Workers |-> 0]
  /\ open = {}
  /\ batch = 0
  /\ reply = [b \in Batches |-> "pending"]
  /\ result = [b \in Batches |-> "none"]
  /\ purpose = "new"

\* Worker::spawn starts the thread and waits for its set-up message. A thread
\* that cannot be started is one whose build fails.
Spawn(why) ==
  /\ spawned' = spawned + 1
  /\ worker' = spawned + 1
  /\ thread' = [thread EXCEPT ![spawned + 1] = "building"]
  /\ open' = (open \ {worker}) \cup {spawned + 1}
  /\ purpose' = why
  /\ pc' = "init"

New ==
  /\ pc = "new"
  /\ Spawn("new")
  /\ UNCHANGED <<calls, init, request, batch, reply, result>>

\* A call of prove: with a worker it sends, without one (an earlier rebuild
\* failed) it builds one first.
Prove ==
  /\ pc = "idle"
  /\ calls < MaxCalls
  /\ calls' = calls + 1
  /\ \/ worker # 0 /\ pc' = "send" /\ UNCHANGED <<worker, spawned, thread, open, purpose>>
     \/ worker = 0 /\ Spawn("prove")
  /\ UNCHANGED <<init, request, batch, reply, result>>

\* The set-up message arrived: the worker is kept, and the call goes on.
InitOk ==
  /\ pc = "init"
  /\ init[worker] = "ok"
  /\ pc' = IF purpose = "prove" THEN "send" ELSE "idle"
  /\ UNCHANGED <<calls, worker, spawned, thread, init, request, open, batch, reply, result, purpose>>

\* The build failed or panicked: the Worker is dropped, which closes its
\* channel and joins its thread. new() and prove() return the error; a
\* replacement is tried again at the next block.
InitFails ==
  /\ pc = "init"
  /\ init[worker] \in {"err", "closed"}
  /\ thread[worker] = "ended"
  /\ open' = open \ {worker}
  /\ worker' = 0
  /\ pc' = IF purpose = "new" THEN "dead" ELSE "idle"
  /\ UNCHANGED <<calls, spawned, thread, init, request, batch, reply, result, purpose>>

\* The call takes the next batch id and sends its request. Sending fails only
\* when the thread is gone, which counts as a panic.
Send ==
  /\ pc = "send"
  /\ batch' = batch + 1
  /\ request' = [request EXCEPT ![worker] = IF thread[worker] = "ended" THEN @ ELSE batch + 1]
  /\ pc' = IF thread[worker] = "ended" THEN "join" ELSE "wait"
  /\ UNCHANGED <<calls, worker, spawned, thread, init, open, reply, result, purpose>>

Return(r) == result' = [result EXCEPT ![batch] = r]

Receive ==
  /\ pc = "wait"
  /\ \/ reply[batch] = "artifact" /\ Return("ok") /\ pc' = "idle"
     \/ reply[batch] = "error" /\ Return("error") /\ pc' = "idle"
     \/ reply[batch] = "closed" /\ pc' = "join" /\ UNCHANGED result
  /\ UNCHANGED <<calls, worker, spawned, thread, init, request, open, batch, reply, purpose>>

\* Join that drops the handle instead of joining the thread.
Join_M1 ==
  /\ pc = "join"
  /\ Return("panic")
  /\ Spawn("replace")
  /\ UNCHANGED <<calls, init, request, batch, reply>>

\* The panic: the thread is joined, the worker dropped and its replacement
\* spawned; the call returns the panic whether or not the replacement builds.
Join ==
  /\ pc = "join"
  /\ thread[worker] = "ended"
  /\ Return("panic")
  /\ Spawn("replace")
  /\ UNCHANGED <<calls, init, request, batch, reply>>

\* The caller drops the prover, which closes the channel and joins the thread.
Drop ==
  /\ pc = "idle"
  /\ pc' = "dead"
  /\ open' = open \ {worker}
  /\ UNCHANGED <<calls, worker, spawned, thread, init, request, batch, reply, result, purpose>>

-----------------------------------------------------------------------------
\* The thread of worker w builds its prover and says so, or leaves.
Build(w) ==
  /\ thread[w] = "building"
  /\ \/ thread' = [thread EXCEPT ![w] = "waiting"] /\ init' = [init EXCEPT ![w] = "ok"]
     \/ \E failure \in {"err", "closed"} :
          thread' = [thread EXCEPT ![w] = "leaving"] /\ init' = [init EXCEPT ![w] = failure]
  /\ UNCHANGED <<pc, calls, worker, spawned, request, open, batch, reply, result, purpose>>

\* It receives a request, or finds the channel closed.
Take(w) ==
  /\ thread[w] = "waiting"
  /\ \/ request[w] # 0 /\ thread' = [thread EXCEPT ![w] = "proving"]
     \/ request[w] = 0 /\ w \notin open /\ thread' = [thread EXCEPT ![w] = "leaving"]
  /\ UNCHANGED <<pc, calls, worker, spawned, init, request, open, batch, reply, result, purpose>>

\* prove_words returns, and the answer goes to this request's channel.
Answer(w) ==
  /\ thread[w] = "proving"
  /\ \E r \in {"artifact", "error"} : reply' = [reply EXCEPT ![request[w]] = r]
  /\ request' = [request EXCEPT ![w] = 0]
  /\ thread' = [thread EXCEPT ![w] = "waiting"]
  /\ UNCHANGED <<pc, calls, worker, spawned, init, open, batch, result, purpose>>

\* Panic with the reply's sender kept outside the thread.
Panic_M1(w) ==
  /\ thread[w] = "proving"
  /\ request' = [request EXCEPT ![w] = 0]
  /\ thread' = [thread EXCEPT ![w] = "leaving"]
  /\ UNCHANGED <<pc, calls, worker, spawned, init, open, batch, reply, result, purpose>>

\* prove_words panics: unwinding drops the request, and so its reply
\* channel, before the prover itself is dropped and the thread ends.
Panic(w) ==
  /\ thread[w] = "proving"
  /\ reply' = [reply EXCEPT ![request[w]] = "closed"]
  /\ request' = [request EXCEPT ![w] = 0]
  /\ thread' = [thread EXCEPT ![w] = "leaving"]
  /\ UNCHANGED <<pc, calls, worker, spawned, init, open, batch, result, purpose>>

Ended(w) ==
  /\ thread[w] = "leaving"
  /\ thread' = [thread EXCEPT ![w] = "ended"]
  /\ UNCHANGED <<pc, calls, worker, spawned, init, request, open, batch, reply, result, purpose>>

Caller == New \/ Prove \/ InitOk \/ InitFails \/ Send \/ Receive \/ Join \/ Drop
Thread(w) == Build(w) \/ Take(w) \/ Answer(w) \/ Panic(w) \/ Ended(w)

Next == Caller \/ \E w \in Workers : Thread(w)

\* The operating system runs both threads, and a proof or a build ends.
Fairness ==
  /\ WF_vars(Caller)
  /\ \A w \in Workers : WF_vars(Thread(w))

Spec == Init /\ [][Next]_vars /\ Fairness

-----------------------------------------------------------------------------
\* At most one prover exists at a time, the memory of the GPU being its own:
\* a replacement is built only after the thread of the one that panicked,
\* still unwinding when its reply channel closes, has ended.
OneProver ==
  \A v, w \in Workers : {thread[v], thread[w]} \subseteq {"building", "waiting", "proving", "leaving"} => v = w

\* Every call of prove returns, and a dropped prover's thread ends.
CallsReturn ==
  /\ \A b \in Batches : (pc = "wait" /\ batch = b) ~> (result[b] # "none" /\ pc = "idle")
  /\ (pc = "dead") ~> (\A w \in Workers : thread[w] \in {"none", "ended"})
=============================================================================
