-------------------------------- MODULE Fetcher --------------------------------
(***************************************************************************)
(* fetch_block_and_witness (prover/common/src/fetcher.rs) for one block:   *)
(* the cached bundle and the cached RPC responses in the block's           *)
(* directory, the RPC calls with their retries, and the bundle written     *)
(* under a partial name and renamed. The process may be killed between any *)
(* two steps, and a write, a removal or a call to the node may fail. The   *)
(* directory may hold a witness in geth's format put there by hand.        *)
(*                                                                         *)
(* Names and file contents are apart: a name of the directory points to a  *)
(* file, and a process that writes holds the file, not the name. A content *)
(* is what was fetched and by which call, or Torn for a file that is not   *)
(* written to its end.                                                     *)
(***************************************************************************)
EXTENDS Naturals, FiniteSets

CONSTANTS
  Procs,        \* processes that fetch the block into the same directory
  MAX_RETRIES,  \* attempts of one RPC
  MaxCalls,     \* bound: calls of fetch_block_and_witness
  MaxFaults,    \* bound: RPC errors, failed writes and failed removals
  Requests      \* the requests made: [force_rebuild, save, geth]

ConstantsAssumption ==
  /\ MAX_RETRIES \in Nat \ {0}
  /\ MaxCalls \in Nat
  /\ MaxFaults \in Nat
  /\ Requests \subseteq [force_rebuild : BOOLEAN, save : BOOLEAN, geth : BOOLEAN]

VARIABLES
  files,    \* contents, by file number (one file per call and kind)
  names,    \* the directory: block, rlp, witness, bundle, partial
  pc,       \* of each process: idle, get, create, write, convert, write_partial, rename
  kind,     \* the response its get, create or write is about
  req,      \* its request
  id,       \* the number of its call, from which its files are named
  got,      \* what it has read or fetched
  out,      \* the file it writes
  attempts, \* failed attempts of its RPC
  excused,  \* a fault happened to this call (ghost)
  result,   \* of the call before
  calls, faults

vars == <<files, names, pc, kind, req, id, got, out, attempts, excused, result, calls, faults>>

Kinds == {"block", "rlp", "witness"}
Following == [block |-> "rlp", rlp |-> "witness"]

NoFile == <<0, "none">>
Torn == [call |-> 0, geth |-> FALSE]
GethWitness == [call |-> 0, geth |-> TRUE]
GivenFile == <<0, "witness">>
FileIds == {GivenFile} \cup (1..MaxCalls) \X (Kinds \cup {"partial"})

Fault(p) ==
  /\ faults < MaxFaults
  /\ faults' = faults + 1
  /\ excused' = [excused EXCEPT ![p] = TRUE]

NoFault == UNCHANGED <<faults, excused>>

Goto(p, label) == pc' = [pc EXCEPT ![p] = label]

\* On to the next response, or to the conversion after the last one.
Advance(p) ==
  \/ kind[p] # "witness" /\ Goto(p, "get") /\ kind' = [kind EXCEPT ![p] = Following[@]]
  \/ kind[p] = "witness" /\ Goto(p, "convert") /\ UNCHANGED kind

Return(p, r) == Goto(p, "idle") /\ result' = [result EXCEPT ![p] = r]

exists(n) == names[n] # NoFile

-----------------------------------------------------------------------------
Init ==
  /\ files = [f \in FileIds |-> IF f = GivenFile THEN GethWitness ELSE Torn]
  /\ \E w \in {NoFile, GivenFile} :
       names = [n \in Kinds \cup {"bundle", "partial"} |-> IF n = "witness" THEN w ELSE NoFile]
  /\ pc = [p \in Procs |-> "idle"]
  /\ kind = [p \in Procs |-> "block"]
  /\ req \in [Procs -> Requests]
  /\ id = [p \in Procs |-> 0]
  /\ got = [p \in Procs |-> [k \in Kinds |-> Torn]]
  /\ out = [p \in Procs |-> NoFile]
  /\ attempts = [p \in Procs |-> 0]
  /\ excused = [p \in Procs |-> FALSE]
  /\ result = [p \in Procs |-> "none"]
  /\ calls = 0
  /\ faults = 0

\* The names a forced rebuild removes first.
stale_M1 == {"bundle", "block", "rlp"}

stale == {"bundle", "block", "rlp", "witness"}

\* A call begins: a forced one removes every cached file (a removal that
\* fails is only logged), another one returns a bundle that is there.
Begin(p, r) ==
  /\ pc[p] = "idle"
  /\ calls < MaxCalls
  /\ calls' = calls + 1
  /\ id' = [id EXCEPT ![p] = calls + 1]
  /\ req' = [req EXCEPT ![p] = r]
  /\ kind' = [kind EXCEPT ![p] = "block"]
  /\ attempts' = [attempts EXCEPT ![p] = 0]
  /\ got' = [got EXCEPT ![p] = [k \in Kinds |-> Torn]]
  /\ \/ /\ r.force_rebuild
        /\ \/ names' = [n \in DOMAIN names |-> IF n \in stale THEN NoFile ELSE names[n]]
              /\ excused' = [excused EXCEPT ![p] = FALSE]
              /\ UNCHANGED faults
           \/ \E keep \in stale :
                /\ exists(keep)
                /\ names' = [n \in DOMAIN names |-> IF n \in stale \ {keep} THEN NoFile ELSE names[n]]
                /\ Fault(p)
        /\ Goto(p, "get")
        /\ UNCHANGED result
     \/ /\ ~r.force_rebuild
        /\ UNCHANGED <<names, faults>>
        /\ excused' = [excused EXCEPT ![p] = FALSE]
        /\ \/ exists("bundle") /\ Return(p, "ok")
           \/ ~exists("bundle") /\ Goto(p, "get") /\ UNCHANGED result
  /\ UNCHANGED <<files, out>>

\* A call without a block number (or with 0) asks the node for one first,
\* and fails when the node does not answer, or answers 0.
BeginWithoutNumber(p, r) ==
  /\ pc[p] = "idle"
  /\ calls < MaxCalls
  /\ calls' = calls + 1
  /\ id' = [id EXCEPT ![p] = calls + 1]
  /\ req' = [req EXCEPT ![p] = r]
  /\ Fault(p)
  /\ Return(p, "failed")
  /\ UNCHANGED <<files, names, kind, got, out, attempts>>

parses(k, c, r) == c # Torn /\ (k = "witness" => (c.geth => r.geth))

\* The cached response is there: read and parse it.
ReadCached(p) ==
  /\ pc[p] = "get"
  /\ exists(kind[p])
  /\ LET c == files[names[kind[p]]] IN
       \/ /\ parses(kind[p], c, req[p])
          /\ got' = [got EXCEPT ![p][kind[p]] = c]
          /\ Advance(p)
          /\ UNCHANGED result
       \/ ~parses(kind[p], c, req[p]) /\ Return(p, "failed") /\ UNCHANGED <<got, kind>>
  /\ UNCHANGED <<files, names, req, id, out, attempts, calls>>
  /\ NoFault

\* The response is not cached: ask the node, up to MAX_RETRIES times.
Fetch(p) ==
  /\ pc[p] = "get"
  /\ ~exists(kind[p])
  /\ \/ /\ got' = [got EXCEPT ![p][kind[p]] = [call |-> id[p], geth |-> FALSE]]
        /\ attempts' = [attempts EXCEPT ![p] = 0]
        /\ \/ req[p].save /\ Goto(p, "create") /\ UNCHANGED kind
           \/ ~req[p].save /\ Advance(p)
        /\ UNCHANGED result
        /\ NoFault
     \/ /\ Fault(p)
        /\ attempts' = [attempts EXCEPT ![p] = @ + 1]
        /\ \/ attempts[p] + 1 < MAX_RETRIES /\ UNCHANGED <<pc, result>>
           \/ attempts[p] + 1 >= MAX_RETRIES /\ Return(p, "failed")
        /\ UNCHANGED <<got, kind>>
  /\ UNCHANGED <<files, names, req, id, out, calls>>

\* File::create on a name: the file it points to is truncated, a new one is
\* made where there is none.
Create(p, n, k) ==
  LET f == IF exists(n) THEN names[n] ELSE <<id[p], k>> IN
    /\ names' = [names EXCEPT ![n] = f]
    /\ out' = [out EXCEPT ![p] = f]

\* write_json: create the file ...
SaveCreate(p) ==
  /\ pc[p] = "create"
  /\ Create(p, kind[p], kind[p])
  /\ files' = [files EXCEPT ![out'[p]] = Torn]
  /\ Goto(p, "write")
  /\ UNCHANGED <<kind, req, id, got, attempts, result, calls>>
  /\ NoFault

\* ... and write it. The writer's last flush happens when it is dropped, so
\* a write that fails there leaves a torn file and is not noticed.
SaveWrite(p) ==
  /\ pc[p] = "write"
  /\ \/ files' = [files EXCEPT ![out[p]] = got[p][kind[p]]] /\ NoFault
     \/ Fault(p) /\ UNCHANGED files
  /\ Advance(p)
  /\ UNCHANGED <<names, req, id, got, out, attempts, result, calls>>

\* The name the bundle is written under.
partial_path_M1 == "bundle"

partial_path == "partial"

\* The conversion of the responses into a bundle, and fs::write's create.
\* The block JSON only dates the log line: the bundle is made of the block's
\* RLP and the witness.
Convert(p) ==
  /\ pc[p] = "convert"
  /\ \/ /\ Create(p, partial_path, "partial")
        /\ files' = [files EXCEPT ![out'[p]] = Torn]
        /\ Goto(p, "write_partial")
        /\ UNCHANGED result
        /\ NoFault
     \/ Fault(p) /\ Return(p, "failed") /\ UNCHANGED <<names, out, files>>
  /\ UNCHANGED <<kind, req, id, got, attempts, calls>>

\* fs::write reports a failed write, and the call fails with the partial
\* file left behind.
WritePartial(p) ==
  /\ pc[p] = "write_partial"
  /\ \/ /\ files' = [files EXCEPT ![out[p]] = got[p]]
        /\ Goto(p, "rename")
        /\ UNCHANGED result
        /\ NoFault
     \/ Fault(p) /\ Return(p, "failed") /\ UNCHANGED files
  /\ UNCHANGED <<names, kind, req, id, got, out, attempts, calls>>

\* rename moves the name whole; it fails when the partial name is gone.
Rename(p) ==
  /\ pc[p] = "rename"
  /\ \/ /\ exists(partial_path)
        /\ names' = [names EXCEPT ![partial_path] = NoFile, !["bundle"] = names[partial_path]]
        /\ Return(p, "ok")
     \/ ~exists(partial_path) /\ Return(p, "failed") /\ UNCHANGED names
  /\ UNCHANGED <<files, kind, req, id, got, out, attempts, calls>>
  /\ NoFault

\* The process is killed, and another one starts.
Crash(p) ==
  /\ pc[p] # "idle"
  /\ Goto(p, "idle")
  /\ result' = [result EXCEPT ![p] = "killed"]
  /\ UNCHANGED <<files, names, kind, req, id, got, out, attempts, excused, calls, faults>>

Step(p) ==
  \/ \E r \in Requests : Begin(p, r) \/ BeginWithoutNumber(p, r)
  \/ ReadCached(p)
  \/ Fetch(p)
  \/ SaveCreate(p)
  \/ SaveWrite(p)
  \/ Convert(p)
  \/ WritePartial(p)
  \/ Rename(p)
  \/ Crash(p)

Next == \E p \in Procs : Step(p)

Spec == Init /\ [][Next]_vars

-----------------------------------------------------------------------------
\* The bundle file is there only whole, made of responses that parsed: a
\* write cut short by a crash or a full disk, or a torn cached response,
\* never leaves a bundle that a later call would reuse as it is.
BundleWhole ==
  exists("bundle") =>
    LET b == files[names["bundle"]] IN b # Torn /\ b["rlp"] # Torn /\ b["witness"] # Torn

\* A forced call that met no fault of its own time (the node, a write, a
\* removal) returns a bundle made of responses the node gave during that
\* call: what earlier calls left on disk, however they ended, neither gets
\* into the bundle nor fails the call.
ForcedIsFresh ==
  \A p \in Procs :
    (pc[p] = "idle" /\ result[p] \in {"ok", "failed"} /\ req[p].force_rebuild /\ ~excused[p]) =>
       result[p] = "ok" /\ \A k \in Kinds : got[p][k].call = id[p]

=============================================================================
