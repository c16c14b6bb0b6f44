----------------------------- MODULE FetcherProofs -----------------------------
(***************************************************************************)
(* Theorems about Fetcher, for any number of calls, attempts and faults.   *)
(* They are about a directory that one process at a time writes to, as the *)
(* services do: two that fetch the same block share its partial name.      *)
(***************************************************************************)
EXTENDS Fetcher, TLAPS

Responses == [call : 0..MaxCalls, geth : BOOLEAN]
Contents == Responses \cup [Kinds -> Responses]
Names == Kinds \cup {"bundle", "partial"}

TypeOK ==
  /\ files \in [FileIds -> Contents]
  /\ names \in [Names -> FileIds \cup {NoFile}]
  /\ pc \in [Procs -> {"idle", "get", "create", "write", "convert", "write_partial", "rename"}]
  /\ kind \in [Procs -> Kinds]
  /\ req \in [Procs -> Requests]
  /\ id \in [Procs -> 0..MaxCalls]
  /\ got \in [Procs -> [Kinds -> Responses]]
  /\ out \in [Procs -> FileIds \cup {NoFile}]
  /\ excused \in [Procs -> BOOLEAN]
  /\ result \in [Procs -> {"none", "ok", "failed", "killed"}]
  /\ calls \in 0..MaxCalls

\* Cached responses and bundles are never the same file, and the bundle is
\* not the file a partial name points to.
NamesInv ==
  /\ \A k \in Kinds : exists(k) => names[k][2] = k
  /\ \A n \in {"bundle", "partial"} : exists(n) => names[n][2] = "partial" /\ names[n][1] <= calls
  /\ exists("bundle") => names["bundle"] # names["partial"]

\* The files of responses hold responses.
FilesInv == \A f \in FileIds : f[2] \in Kinds => files[f] \in Responses

\* The bundle is three responses, none of them torn.
BundleInv ==
  exists("bundle") =>
    /\ files[names["bundle"]] \in [Kinds -> Responses]
    /\ \A k \in Kinds : files[names["bundle"]][k] # Torn

\* The file a call writes is the one the name points to, and the bundle is
\* of an earlier call as long as this one runs.
CallInv(p) ==
  /\ id[p] = calls
  /\ pc[p] # "idle" => calls > 0 /\ (exists("bundle") => names["bundle"][1] < calls)
  /\ pc[p] = "write" => exists(kind[p]) /\ out[p] = names[kind[p]]
  /\ pc[p] \in {"write_partial", "rename"} => exists("partial") /\ out[p] = names["partial"]
  /\ pc[p] = "rename" => files[out[p]] = got[p]

\* The responses before the current one, in the order they are got.
Before == [block |-> {}, rlp |-> {"block"}, witness |-> {"block", "rlp"}]

\* What a call has got by now.
Has(p) ==
  CASE pc[p] = "get" -> Before[kind[p]]
    [] pc[p] \in {"create", "write"} -> Before[kind[p]] \cup {kind[p]}
    [] pc[p] \in {"convert", "write_partial", "rename"} -> Kinds
    [] pc[p] = "idle" -> {}

\* None of it is torn.
GotInv(p) == \A k \in Has(p) : got[p][k] # Torn

\* A forced call without a fault finds no cached response it has not written
\* itself, and has what the node answered it.
FreshInv(p) ==
  (pc[p] # "idle" /\ req[p].force_rebuild /\ ~excused[p]) =>
    /\ \A k \in Has(p) : got[p][k].call = id[p]
    /\ \A k \in Kinds \ Has(p) : ~exists(k)

IInv(p) ==
  /\ TypeOK /\ NamesInv /\ FilesInv /\ BundleInv
  /\ CallInv(p) /\ GotInv(p) /\ FreshInv(p) /\ ForcedIsFresh

-----------------------------------------------------------------------------
\* A bundle is three responses, a torn file none.
LEMMA BundleNotTorn == \A g \in [Kinds -> Responses] : g # Torn
<1> SUFFICES ASSUME NEW g \in [Kinds -> Responses], g = Torn PROVE FALSE
    BY Zenon
<1>1. DOMAIN g = Kinds /\ DOMAIN Torn = {"call", "geth"}
  BY Zenon DEF Torn
<1> QED
  BY Zenon, <1>1 DEF Kinds

LEMMA TornIsResponse == ConstantsAssumption => Torn \in Responses /\ GethWitness \in Responses
  BY DEF ConstantsAssumption, Torn, GethWitness, Responses

\* What is fetched is not torn: calls are counted from one.
LEMMA FetchedIsNew ==
  ASSUME ConstantsAssumption, NEW n \in 0..MaxCalls, n > 0
  PROVE  [call |-> n, geth |-> FALSE] \in Responses /\ [call |-> n, geth |-> FALSE] # Torn
  BY DEF ConstantsAssumption, Responses, Torn

LEMMA HasSteps ==
  /\ \A k \in Kinds : k # "witness" => Following[k] \in Kinds /\ Before[Following[k]] = Before[k] \cup {k}
  /\ Before["witness"] \cup {"witness"} = Kinds
  /\ Before["block"] = {}
  BY DEF Kinds, Following, Before

\* Ids of files are pairs, NoFile is none of them.
LEMMA Ids ==
  ASSUME ConstantsAssumption
  PROVE  /\ NoFile \notin FileIds
         /\ \A f \in FileIds : f[2] \in Kinds \cup {"partial"} /\ f[1] \in 0..MaxCalls /\ f = <<f[1], f[2]>>
         /\ \A n \in 1..MaxCalls, k \in Kinds \cup {"partial"} : <<n, k>> \in FileIds
  BY DEF ConstantsAssumption, NoFile, FileIds, GivenFile, Kinds

-----------------------------------------------------------------------------
(* The steps. *)

\* Neither the directory nor the files change, and the call goes on.
LEMMA DirectoryKept ==
  ASSUME ConstantsAssumption, TypeOK, NamesInv, FilesInv, BundleInv, UNCHANGED <<files, names>>,
         calls' \in {calls, calls + 1}
  PROVE  NamesInv' /\ FilesInv' /\ BundleInv'
<1>1. \A n \in {"bundle", "partial"} : exists(n) => names[n][1] <= calls /\ names[n][1] \in Nat /\ calls \in Nat
  BY Ids DEF TypeOK, NamesInv, exists, Names
<1>2. NamesInv'
  BY <1>1 DEF NamesInv, exists
<1>3. FilesInv' /\ BundleInv'
  BY Zenon DEF FilesInv, BundleInv, exists
<1> QED
  BY Zenon, <1>2, <1>3

\* A call that is over.
LEMMA ReturnStep ==
  ASSUME ConstantsAssumption, NEW p, Procs = {p}, IInv(p), NEW r \in {"ok", "failed", "killed"},
         Goto(p, "idle"), result' = [result EXCEPT ![p] = r],
         UNCHANGED <<files, names, kind, req, id, got, out, calls>>, excused' \in [Procs -> BOOLEAN],
         r # "killed" => excused'[p] \/ ~req[p].force_rebuild
  PROVE  IInv(p)'
<1>1. TypeOK' /\ pc'[p] = "idle" /\ result'[p] = r
  BY Zenon DEF IInv, TypeOK, Goto
<1>2. NamesInv' /\ FilesInv' /\ BundleInv'
  BY Zenon, DirectoryKept DEF IInv
<1>3. CallInv(p)' /\ GotInv(p)' /\ FreshInv(p)'
  BY Zenon, <1>1 DEF IInv, CallInv, GotInv, FreshInv, Has
<1>4. ForcedIsFresh'
  BY Zenon, <1>1 DEF ForcedIsFresh
<1> QED
  BY Zenon, <1>1, <1>2, <1>3, <1>4 DEF IInv

\* A call begins, and the names it removes are gone.
LEMMA BeginStep ==
  ASSUME ConstantsAssumption, NEW p, Procs = {p}, IInv(p), NEW r \in Requests, Begin(p, r)
  PROVE  IInv(p)'
<1>1. /\ calls' = calls + 1 /\ calls \in Nat /\ calls' \in 0..MaxCalls /\ id'[p] = calls'
      /\ req'[p] = r /\ kind'[p] = "block"
      /\ got'[p] = [k \in Kinds |-> Torn] /\ UNCHANGED <<files, out>>
      /\ pc'[p] \in {"get", "idle"}
      /\ r \in [force_rebuild : BOOLEAN, save : BOOLEAN, geth : BOOLEAN]
  <2>1. calls \in Nat /\ MaxCalls \in Nat /\ p \in Procs
    BY DEF IInv, TypeOK, ConstantsAssumption
  <2>2. calls' = calls + 1 /\ calls' \in 0..MaxCalls /\ id'[p] = calls'
    BY <2>1 DEF Begin, IInv, TypeOK
  <2>3. req'[p] = r /\ kind'[p] = "block" /\ got'[p] = [k \in Kinds |-> Torn] /\ UNCHANGED <<files, out>>
    BY Zenon, <2>1 DEF Begin, IInv, TypeOK
  <2>4. pc'[p] \in {"get", "idle"}
    BY Zenon, <2>1 DEF Begin, Goto, Return, IInv, TypeOK
  <2> QED
    BY Zenon, <2>1, <2>2, <2>3, <2>4 DEF ConstantsAssumption
<1>2. \A n \in Names : names'[n] \in {names[n], NoFile}
  BY Zenon DEF Begin, IInv, TypeOK, Names
<1>3. names' \in [Names -> FileIds \cup {NoFile}]
  <2>1. DOMAIN names' = Names /\ names' = [n \in Names |-> names'[n]]
    BY DEF Begin, IInv, TypeOK
  <2> QED
    BY Zenon, <1>2, <2>1 DEF IInv, TypeOK
<1>4. TypeOK'
  <2>1. [k \in Kinds |-> Torn] \in [Kinds -> Responses]
    BY Zenon, TornIsResponse
  <2>2. got' \in [Procs -> [Kinds -> Responses]] /\ kind' \in [Procs -> Kinds]
    BY Zenon, <2>1 DEF Begin, IInv, TypeOK, Kinds
  <2>3. req' \in [Procs -> Requests] /\ id' \in [Procs -> 0..MaxCalls]
    BY Zenon, <1>1 DEF Begin, IInv, TypeOK
  <2>4. pc' \in [Procs -> {"idle", "get", "create", "write", "convert", "write_partial", "rename"}]
    BY Zenon DEF Begin, Goto, Return, IInv, TypeOK
  <2>5. excused' \in [Procs -> BOOLEAN]
    BY Zenon DEF Begin, Fault, IInv, TypeOK
  <2>6. result' \in [Procs -> {"none", "ok", "failed", "killed"}]
    BY Zenon DEF Begin, Return, IInv, TypeOK
  <2> QED
    BY Zenon, <1>1, <1>3, <2>2, <2>3, <2>4, <2>5, <2>6 DEF IInv, TypeOK
<1>5. \A n \in {"bundle", "partial"} : exists(n) => names[n][1] <= calls /\ names[n][1] \in Nat
  BY Ids DEF IInv, TypeOK, NamesInv, exists, Names
<1>6. NamesInv'
  BY <1>1, <1>2, <1>5 DEF IInv, NamesInv, exists, Names
<1>7. FilesInv' /\ BundleInv'
  BY Zenon, <1>1, <1>2 DEF IInv, FilesInv, BundleInv, exists, Names
<1>8. CallInv(p)'
  BY <1>1, <1>2, <1>5 DEF CallInv, exists, Names
<1>9. Has(p)' = {} /\ GotInv(p)'
  BY <1>1 DEF Has, GotInv, Before
<1>10. FreshInv(p)'
  <2>1. ASSUME r.force_rebuild, ~excused'[p] PROVE \A k \in Kinds : names'[k] = NoFile
    <3>1. names' = [n \in DOMAIN names |-> IF n \in stale THEN NoFile ELSE names[n]]
      BY Zenon, <2>1 DEF Begin, Fault, IInv, TypeOK
    <3> QED
      BY Zenon, <3>1 DEF IInv, TypeOK, stale, Kinds, Names
  <2> QED
    BY Zenon, <1>1, <1>9, <2>1 DEF FreshInv, exists
<1>11. ForcedIsFresh'
  BY <1>1 DEF ForcedIsFresh, Begin, Goto, IInv, TypeOK
<1> QED
  BY Zenon, <1>4, <1>6, <1>7, <1>8, <1>9, <1>10, <1>11 DEF IInv

LEMMA BeginWithoutNumberStep ==
  ASSUME ConstantsAssumption, NEW p, Procs = {p}, IInv(p), NEW r \in Requests, BeginWithoutNumber(p, r)
  PROVE  IInv(p)'
<1>1. TypeOK' /\ pc'[p] = "idle" /\ excused'[p] /\ id'[p] = calls'
  BY DEF BeginWithoutNumber, Fault, Goto, Return, IInv, TypeOK, ConstantsAssumption
<1>2. NamesInv' /\ FilesInv' /\ BundleInv'
  BY Zenon, DirectoryKept DEF IInv, BeginWithoutNumber
<1>3. CallInv(p)' /\ GotInv(p)' /\ FreshInv(p)' /\ ForcedIsFresh'
  BY Zenon, <1>1 DEF CallInv, GotInv, FreshInv, Has, ForcedIsFresh
<1> QED
  BY Zenon, <1>1, <1>2, <1>3 DEF IInv

\* After a response the call has that one too.
LEMMA AdvanceHas ==
  ASSUME NEW p, Procs = {p}, TypeOK, Advance(p)
  PROVE  /\ pc'[p] \in {"get", "convert"}
         /\ Has(p)' = Before[kind[p]] \cup {kind[p]}
         /\ kind' \in [Procs -> Kinds]
         /\ pc' \in [Procs -> {"idle", "get", "create", "write", "convert", "write_partial", "rename"}]
<1>1. CASE kind[p] # "witness"
  <2>1. kind'[p] = Following[kind[p]] /\ kind[p] \in Kinds /\ pc'[p] = "get"
    BY Zenon, <1>1 DEF Advance, Goto, TypeOK
  <2>2. Has(p)' = Before[kind'[p]]
    BY Zenon, <2>1 DEF Has
  <2> QED
    BY <1>1, <2>1, <2>2, HasSteps DEF Advance, Goto, TypeOK
<1>2. CASE kind[p] = "witness"
  <2>1. pc'[p] = "convert" /\ kind' = kind
    BY Zenon, <1>2 DEF Advance, Goto, TypeOK
  <2> QED
    BY Zenon, <1>2, <2>1, HasSteps DEF Has, Advance, Goto, TypeOK
<1> QED
  BY Zenon, <1>1, <1>2

\* A call gets the response c, from a cached file or from the node.
LEMMA GetStep ==
  ASSUME ConstantsAssumption, NEW p, Procs = {p}, IInv(p), pc[p] = "get", NEW c \in Responses, c # Torn,
         got' = [got EXCEPT ![p][kind[p]] = c],
         req[p].force_rebuild /\ ~excused[p] => c.call = id[p],
         Advance(p) \/ (Goto(p, "create") /\ UNCHANGED kind),
         UNCHANGED <<files, names, req, id, out, excused, result, calls>>
  PROVE  IInv(p)'
<1>1. /\ pc'[p] \in {"get", "convert", "create"}
      /\ Has(p)' = Before[kind[p]] \cup {kind[p]}
      /\ kind' \in [Procs -> Kinds]
      /\ pc' \in [Procs -> {"idle", "get", "create", "write", "convert", "write_partial", "rename"}]
  <2>1. CASE Advance(p)
    BY Zenon, <2>1, AdvanceHas DEF IInv
  <2>2. CASE Goto(p, "create") /\ UNCHANGED kind
    <3>1. pc'[p] = "create"
      BY Zenon, <2>2 DEF Goto, IInv, TypeOK
    <3> QED
      BY Zenon, <2>2, <3>1 DEF Goto, IInv, TypeOK, Has
  <2> QED
    BY Zenon, <2>1, <2>2
<1>2. /\ got'[p][kind[p]] = c /\ kind[p] \in Kinds
      /\ \A k \in Kinds : k # kind[p] => got'[p][k] = got[p][k]
      /\ got' \in [Procs -> [Kinds -> Responses]]
  BY Zenon DEF IInv, TypeOK
<1>3. TypeOK'
  BY Zenon, <1>1, <1>2 DEF IInv, TypeOK
<1>4. NamesInv' /\ FilesInv' /\ BundleInv'
  BY Zenon, DirectoryKept DEF IInv
<1>5. CallInv(p)'
  BY Zenon, <1>1 DEF IInv, CallInv, exists
<1>6. Has(p) = Before[kind[p]] /\ Before[kind[p]] \subseteq Kinds
  BY <1>2 DEF Has, Before, Kinds
<1>7. GotInv(p)'
  BY Zenon, <1>1, <1>2, <1>6 DEF IInv, GotInv
<1>8. FreshInv(p)'
  BY <1>1, <1>2, <1>6 DEF IInv, FreshInv, exists
<1>9. ForcedIsFresh'
  BY Zenon, <1>1 DEF ForcedIsFresh
<1> QED
  BY Zenon, <1>3, <1>4, <1>5, <1>7, <1>8, <1>9 DEF IInv

LEMMA ReadCachedStep ==
  ASSUME ConstantsAssumption, NEW p, Procs = {p}, IInv(p), ReadCached(p)
  PROVE  IInv(p)'
<1> DEFINE c == files[names[kind[p]]]
<1>1. kind[p] \in Kinds /\ pc[p] = "get" /\ exists(kind[p])
  BY Zenon DEF ReadCached, IInv, TypeOK
<1>2. names[kind[p]] \in FileIds /\ names[kind[p]][2] = kind[p]
  BY Zenon, <1>1 DEF IInv, TypeOK, Names, exists, NamesInv
<1>3. c \in Responses
  BY Zenon, <1>1, <1>2 DEF IInv, FilesInv
<1>4. ~(req[p].force_rebuild /\ ~excused[p])
  <2>1. kind[p] \notin Has(p)
    BY <1>1 DEF Has, Before, Kinds
  <2> QED
    BY Zenon, <1>1, <2>1 DEF IInv, FreshInv
<1>5. CASE parses(kind[p], c, req[p])
  BY Zenon, <1>1, <1>3, <1>4, <1>5, GetStep DEF ReadCached, parses, NoFault
<1>6. CASE ~parses(kind[p], c, req[p])
  <2>1. Goto(p, "idle") /\ result' = [result EXCEPT ![p] = "failed"] /\ UNCHANGED <<got, kind>>
    BY Zenon, <1>6 DEF ReadCached, Return
  <2> QED
    BY Zenon, <1>4, <2>1, ReturnStep DEF ReadCached, NoFault, IInv, TypeOK
<1> QED
  BY Zenon, <1>5, <1>6

LEMMA FetchStep ==
  ASSUME ConstantsAssumption, NEW p, Procs = {p}, IInv(p), Fetch(p)
  PROVE  IInv(p)'
<1> DEFINE c == [call |-> id[p], geth |-> FALSE]
<1>1. pc[p] = "get" /\ id[p] \in 0..MaxCalls /\ id[p] > 0
  BY Zenon DEF Fetch, IInv, TypeOK, CallInv
<1>2. c \in Responses /\ c # Torn
  BY Zenon, <1>1, FetchedIsNew
<1>3. CASE /\ got' = [got EXCEPT ![p][kind[p]] = c]
           /\ Advance(p) \/ (Goto(p, "create") /\ UNCHANGED kind)
           /\ UNCHANGED result
           /\ NoFault
  <2>1. UNCHANGED <<files, names, req, id, out, excused, result, calls>>
    BY Zenon, <1>3 DEF Fetch, NoFault
  <2> QED
    BY Zenon, <1>1, <1>2, <1>3, <2>1, GetStep
<1>4. CASE /\ Fault(p)
           /\ UNCHANGED <<pc, result>> \/ Return(p, "failed")
           /\ UNCHANGED <<got, kind>>
  <2>1. excused' \in [Procs -> BOOLEAN] /\ excused'[p]
    BY Zenon, <1>4 DEF Fault, IInv, TypeOK
  <2>2. UNCHANGED <<got, kind, files, names, req, id, out, calls>>
    BY Zenon, <1>4 DEF Fetch
  <2>3. CASE Return(p, "failed")
    BY Zenon, <2>1, <2>2, <2>3, ReturnStep DEF Return
  <2>4. CASE UNCHANGED <<pc, result>>
    <3>1. TypeOK'
      BY Zenon, <2>1, <2>2, <2>4 DEF IInv, TypeOK
    <3>2. NamesInv' /\ FilesInv' /\ BundleInv'
      BY Zenon, <2>2, DirectoryKept DEF IInv
    <3>3. CallInv(p)' /\ GotInv(p)' /\ FreshInv(p)' /\ ForcedIsFresh'
      BY Zenon, <2>1, <2>2, <2>4 DEF IInv, CallInv, GotInv, FreshInv, Has, ForcedIsFresh, exists
    <3> QED
      BY Zenon, <3>1, <3>2, <3>3 DEF IInv
  <2> QED
    BY Zenon, <1>4, <2>3, <2>4
<1> QED
  BY Zenon, <1>3, <1>4 DEF Fetch

\* File::create on the name n makes the file f of its kind, or truncates the
\* one the name has. No other name points to it.
Created(p, n, f) ==
  /\ f[2] = n /\ (n = "partial" => f[1] <= calls)
  /\ names' = [names EXCEPT ![n] = f]
  /\ out' = [out EXCEPT ![p] = f]
  /\ exists("bundle") => names["bundle"] # f

LEMMA CreateFacts ==
  ASSUME ConstantsAssumption, NEW p, Procs = {p}, IInv(p), pc[p] # "idle",
         NEW n \in Kinds \cup {"partial"}, Create(p, n, n)
  PROVE  \E f \in FileIds : Created(p, n, f)
<1> DEFINE f == IF exists(n) THEN names[n] ELSE <<id[p], n>>
<1>1. id[p] = calls /\ calls \in 1..MaxCalls /\ n \in Names
  BY DEF IInv, TypeOK, CallInv, Names
<1>2. f \in FileIds /\ f[2] = n /\ (n = "partial" => f[1] <= calls)
  <2>1. CASE exists(n)
    <3>1. f \in FileIds
      BY Zenon, <1>1, <2>1 DEF IInv, TypeOK, exists
    <3>2. f[2] = n
      BY Zenon, <2>1 DEF IInv, NamesInv
    <3> QED
      BY Zenon, <2>1, <3>1, <3>2 DEF IInv, NamesInv
  <2>2. CASE ~exists(n)
    BY <1>1, <2>2, Ids
  <2> QED
    BY Zenon, <2>1, <2>2
<1>3. ASSUME exists("bundle") PROVE names["bundle"] # f
  <2>1. names["bundle"][2] = "partial" /\ names["bundle"] # names["partial"]
    BY Zenon, <1>3 DEF IInv, NamesInv
  <2>2. names["bundle"][1] < calls /\ names["bundle"] \in FileIds
    BY Zenon, <1>3 DEF IInv, CallInv, TypeOK, exists, Names
  <2>3. CASE exists(n)
    BY Zenon, <1>2, <2>1, <2>3 DEF Kinds
  <2>4. CASE ~exists(n)
    BY <1>1, <2>2, <2>4
  <2> QED
    BY Zenon, <2>3, <2>4
<1> QED
  BY Zenon, <1>2, <1>3 DEF Create, Created

\* The file is created for a response (n is its kind) or for the bundle.
LEMMA CreateStep ==
  ASSUME ConstantsAssumption, NEW p, Procs = {p}, IInv(p), NEW n \in Kinds \cup {"partial"}, Create(p, n, n),
         NEW l, Goto(p, l), n = "partial" => pc[p] = "convert" /\ l = "write_partial",
         n # "partial" => pc[p] = "create" /\ l = "write" /\ n = kind[p],
         files' = [files EXCEPT ![out'[p]] = Torn],
         UNCHANGED <<kind, req, id, got, excused, result, calls>>
  PROVE  IInv(p)'
<1>0. pc[p] # "idle" /\ (n = "partial" \/ n = kind[p])
  BY Zenon
<1>1. PICK f \in FileIds : Created(p, n, f)
  BY Zenon, <1>0, CreateFacts
<1> USE DEF Created
<1>2. n \in Names /\ f # NoFile /\ Torn \in Responses /\ Torn \in Contents
  BY Zenon, Ids, TornIsResponse DEF Names, Contents
<1>3. /\ out'[p] = f /\ names'[n] = f /\ files'[f] = Torn /\ pc'[p] = l
      /\ \A m \in Names : m # n => names'[m] = names[m]
      /\ \A g \in FileIds : g # f => files'[g] = files[g]
  BY Zenon, <1>1, <1>2 DEF IInv, TypeOK, Goto
<1>4. TypeOK'
  <2>1. pc' \in [Procs -> {"idle", "get", "create", "write", "convert", "write_partial", "rename"}]
    BY Zenon DEF Goto, IInv, TypeOK
  <2>2. names' \in [Names -> FileIds \cup {NoFile}] /\ out' \in [Procs -> FileIds \cup {NoFile}]
    BY Zenon, <1>1, <1>2 DEF IInv, TypeOK
  <2>3. files' \in [FileIds -> Contents]
    BY Zenon, <1>1, <1>2, <1>3 DEF IInv, TypeOK
  <2> QED
    BY Zenon, <2>1, <2>2, <2>3 DEF IInv, TypeOK
<1>5. "bundle" \in Names /\ "bundle" # n /\ names'["bundle"] = names["bundle"]
  BY Zenon, <1>3 DEF Names, Kinds
<1>6. NamesInv'
  BY <1>1, <1>3, <1>5 DEF IInv, NamesInv, exists, Names, Kinds
<1>7. FilesInv'
  BY Zenon, <1>2, <1>3 DEF IInv, FilesInv
<1>8. BundleInv'
  BY <1>1, <1>3, <1>5 DEF IInv, TypeOK, BundleInv, exists
<1>9. CallInv(p)'
  BY Zenon, <1>0, <1>2, <1>3, <1>5 DEF IInv, CallInv, exists, Kinds
<1>10. Has(p)' = Has(p)
  BY Zenon, <1>0, <1>3 DEF Has, Kinds
<1>11. GotInv(p)'
  BY Zenon, <1>10 DEF IInv, GotInv
<1>12. n # "partial" => n \in Has(p)
  BY Zenon, <1>0 DEF Has
<1>13. FreshInv(p)'
  BY Zenon, <1>0, <1>3, <1>10, <1>12 DEF IInv, FreshInv, exists, Names, Kinds
<1>14. ForcedIsFresh'
  BY Zenon, <1>0, <1>3 DEF ForcedIsFresh
<1> QED
  BY Zenon, <1>4, <1>6, <1>7, <1>8, <1>9, <1>11, <1>13, <1>14 DEF IInv

LEMMA SaveCreateStep ==
  ASSUME ConstantsAssumption, NEW p, Procs = {p}, IInv(p), SaveCreate(p)
  PROVE  IInv(p)'
<1>1. kind[p] \in Kinds /\ kind[p] # "partial"
  BY Zenon DEF IInv, TypeOK, Kinds
<1> QED
  BY Zenon, <1>1, CreateStep DEF SaveCreate, NoFault

\* A response's file is not the bundle's.
LEMMA SaveWriteStep ==
  ASSUME ConstantsAssumption, NEW p, Procs = {p}, IInv(p), SaveWrite(p)
  PROVE  IInv(p)'
<1>1. /\ pc[p] = "write" /\ kind[p] \in Kinds /\ kind[p] \in Names /\ got[p][kind[p]] \in Responses
      /\ out[p] = names[kind[p]] /\ out[p] \in FileIds /\ out[p][2] = kind[p] /\ exists(kind[p])
  <2>1. pc[p] = "write" /\ exists(kind[p]) /\ out[p] = names[kind[p]]
    BY Zenon DEF SaveWrite, IInv, CallInv
  <2>2. kind[p] \in Kinds /\ kind[p] \in Names
    BY Zenon DEF IInv, TypeOK, Names
  <2>3. got[p][kind[p]] \in Responses
    BY Zenon, <2>2 DEF IInv, TypeOK
  <2>4. names[kind[p]] \in FileIds
    BY Zenon, <2>1, <2>2 DEF IInv, TypeOK, exists
  <2>5. names[kind[p]][2] = kind[p]
    BY Zenon, <2>1, <2>2 DEF IInv, NamesInv
  <2> QED
    BY Zenon, <2>1, <2>2, <2>3, <2>4, <2>5
<1>2. /\ pc'[p] \in {"get", "convert"}
      /\ Has(p)' = Before[kind[p]] \cup {kind[p]}
      /\ kind' \in [Procs -> Kinds]
      /\ pc' \in [Procs -> {"idle", "get", "create", "write", "convert", "write_partial", "rename"}]
  BY Zenon, AdvanceHas DEF SaveWrite, IInv
<1>3. /\ files' \in [FileIds -> Contents]
      /\ \A g \in FileIds : g # out[p] => files'[g] = files[g]
      /\ files'[out[p]] \in Responses
      /\ UNCHANGED <<names, req, id, got, out, result, calls>>
      /\ excused' \in [Procs -> BOOLEAN] /\ (excused[p] => excused'[p])
  <2>1. files[out[p]] \in Responses
    BY Zenon, <1>1 DEF IInv, FilesInv
  <2>2. CASE files' = [files EXCEPT ![out[p]] = got[p][kind[p]]] /\ NoFault
    BY Zenon, <1>1, <2>2 DEF SaveWrite, NoFault, IInv, TypeOK, Contents
  <2>3. CASE Fault(p) /\ UNCHANGED files
    BY Zenon, <1>1, <2>1, <2>3 DEF SaveWrite, Fault, IInv, TypeOK
  <2> QED
    BY Zenon, <2>2, <2>3 DEF SaveWrite
<1>4. TypeOK'
  BY Zenon, <1>2, <1>3 DEF IInv, TypeOK
<1>5. NamesInv' /\ FilesInv'
  BY Zenon, <1>1, <1>3 DEF IInv, NamesInv, FilesInv, exists
<1>6. BundleInv'
  <2>1. exists("bundle") => names["bundle"] \in FileIds /\ names["bundle"] # out[p]
    BY <1>1 DEF IInv, NamesInv, TypeOK, exists, Names, Kinds
  <2> QED
    BY Zenon, <1>3, <2>1 DEF IInv, BundleInv, exists
<1>7. CallInv(p)'
  BY Zenon, <1>1, <1>2, <1>3 DEF IInv, CallInv, exists
<1>8. Has(p)' = Has(p)
  BY Zenon, <1>1, <1>2 DEF Has
<1>9. GotInv(p)' /\ FreshInv(p)'
  BY Zenon, <1>1, <1>3, <1>8 DEF IInv, GotInv, FreshInv, exists
<1>10. ForcedIsFresh'
  BY Zenon, <1>2 DEF ForcedIsFresh
<1> QED
  BY Zenon, <1>4, <1>5, <1>6, <1>7, <1>9, <1>10 DEF IInv

LEMMA ConvertStep ==
  ASSUME ConstantsAssumption, NEW p, Procs = {p}, IInv(p), Convert(p)
  PROVE  IInv(p)'
<1>1. CASE Fault(p) /\ Return(p, "failed") /\ UNCHANGED <<names, out, files>>
  BY Zenon, <1>1, ReturnStep DEF Convert, Return, Fault, IInv, TypeOK
<1>2. CASE /\ Create(p, partial_path, "partial")
           /\ files' = [files EXCEPT ![out'[p]] = Torn]
           /\ Goto(p, "write_partial")
           /\ UNCHANGED result
           /\ NoFault
  <2>1. Create(p, "partial", "partial")
    BY Zenon, <1>2 DEF partial_path
  <2> QED
    BY Zenon, <1>2, <2>1, CreateStep DEF Convert, NoFault
<1> QED
  BY Zenon, <1>1, <1>2 DEF Convert

\* The partial file is not the bundle's.
LEMMA WritePartialStep ==
  ASSUME ConstantsAssumption, NEW p, Procs = {p}, IInv(p), WritePartial(p)
  PROVE  IInv(p)'
<1>1. CASE Fault(p) /\ Return(p, "failed") /\ UNCHANGED files
  BY Zenon, <1>1, ReturnStep DEF WritePartial, Return, Fault, IInv, TypeOK
<1>2. CASE /\ files' = [files EXCEPT ![out[p]] = got[p]]
           /\ Goto(p, "rename")
           /\ UNCHANGED result
           /\ NoFault
  <2>1. /\ pc[p] = "write_partial" /\ out[p] = names["partial"] /\ out[p] \in FileIds /\ out[p][2] = "partial"
        /\ exists("partial") /\ got[p] \in [Kinds -> Responses]
    BY Zenon DEF WritePartial, IInv, TypeOK, CallInv, NamesInv, exists, Names
  <2>2. /\ files' \in [FileIds -> Contents] /\ files'[out[p]] = got[p] /\ pc'[p] = "rename"
        /\ \A g \in FileIds : g # out[p] => files'[g] = files[g]
        /\ UNCHANGED <<names, kind, req, id, got, out, excused, result, calls>>
        /\ pc' \in [Procs -> {"idle", "get", "create", "write", "convert", "write_partial", "rename"}]
    BY Zenon, <1>2, <2>1 DEF WritePartial, NoFault, Goto, IInv, TypeOK, Contents
  <2>3. TypeOK'
    BY Zenon, <2>2 DEF IInv, TypeOK
  <2>4. NamesInv' /\ FilesInv'
    BY Zenon, <2>1, <2>2 DEF IInv, NamesInv, FilesInv, exists, Kinds
  <2>5. BundleInv'
    <3>1. exists("bundle") => names["bundle"] \in FileIds /\ names["bundle"] # out[p]
      BY Zenon, <2>1 DEF IInv, NamesInv, TypeOK, exists, Names
    <3> QED
      BY Zenon, <2>2, <3>1 DEF IInv, BundleInv, exists
  <2>6. CallInv(p)'
    BY Zenon, <2>1, <2>2 DEF IInv, CallInv, exists
  <2>7. Has(p)' = Has(p)
    BY Zenon, <2>1, <2>2 DEF Has
  <2>8. GotInv(p)' /\ FreshInv(p)' /\ ForcedIsFresh'
    BY Zenon, <2>1, <2>2, <2>7 DEF IInv, GotInv, FreshInv, exists, ForcedIsFresh
  <2> QED
    BY Zenon, <2>3, <2>4, <2>5, <2>6, <2>8 DEF IInv
<1> QED
  BY Zenon, <1>1, <1>2 DEF WritePartial

\* What is renamed is whole, and the call has its three responses.
LEMMA RenameStep ==
  ASSUME ConstantsAssumption, NEW p, Procs = {p}, IInv(p), Rename(p)
  PROVE  IInv(p)'
<1>1. /\ pc[p] = "rename" /\ exists("partial") /\ out[p] = names["partial"] /\ files[out[p]] = got[p]
      /\ names["partial"] \in FileIds /\ names["partial"][2] = "partial" /\ names["partial"][1] <= calls
      /\ got[p] \in [Kinds -> Responses] /\ Has(p) = Kinds
  BY Zenon DEF Rename, IInv, TypeOK, CallInv, NamesInv, exists, Names, Has
<1>2. /\ names' = [names EXCEPT !["partial"] = NoFile, !["bundle"] = names["partial"]]
      /\ Return(p, "ok")
      /\ UNCHANGED <<files, kind, req, id, got, out, calls, excused>>
  BY Zenon, <1>1 DEF Rename, partial_path, NoFault
<1>3. /\ names'["partial"] = NoFile /\ names'["bundle"] = names["partial"]
      /\ \A k \in Kinds : names'[k] = names[k]
      /\ pc'[p] = "idle" /\ result'[p] = "ok"
  BY Zenon, <1>2 DEF IInv, TypeOK, Names, Kinds, Return, Goto
<1>4. TypeOK'
  BY Zenon, <1>1, <1>2 DEF IInv, TypeOK, Names, Return, Goto
<1>5. NamesInv'
  BY Zenon, <1>1, <1>2, <1>3 DEF IInv, NamesInv, exists
<1>6. FilesInv'
  BY Zenon, <1>2 DEF IInv, FilesInv
<1>7. BundleInv'
  <2>1. files'[names'["bundle"]] = got[p]
    BY Zenon, <1>1, <1>2, <1>3
  <2>2. \A k \in Kinds : got[p][k] # Torn
    BY Zenon, <1>1 DEF IInv, GotInv
  <2> QED
    BY Zenon, <1>1, <2>1, <2>2 DEF BundleInv
<1>8. CallInv(p)' /\ GotInv(p)' /\ FreshInv(p)'
  BY Zenon, <1>2, <1>3 DEF IInv, CallInv, GotInv, FreshInv, Has
<1>9. ForcedIsFresh'
  <2>1. req[p].force_rebuild /\ ~excused[p] => \A k \in Kinds : got[p][k].call = id[p]
    BY Zenon, <1>1 DEF IInv, FreshInv
  <2> QED
    BY Zenon, <1>2, <1>3, <2>1 DEF ForcedIsFresh
<1> QED
  BY Zenon, <1>4, <1>5, <1>6, <1>7, <1>8, <1>9 DEF IInv

LEMMA CrashStep ==
  ASSUME ConstantsAssumption, NEW p, Procs = {p}, IInv(p), Crash(p)
  PROVE  IInv(p)'
  BY Zenon, ReturnStep DEF Crash, IInv, TypeOK

LEMMA Invariance ==
  ASSUME ConstantsAssumption, NEW p, Procs = {p}
  PROVE  Spec => []IInv(p)
<1>1. Init => IInv(p)
  <2> SUFFICES ASSUME Init PROVE IInv(p)
      BY Zenon
  <2>1. PICK w \in {NoFile, GivenFile} :
          names = [n \in Kinds \cup {"bundle", "partial"} |-> IF n = "witness" THEN w ELSE NoFile]
    BY Zenon DEF Init
  <2>2. GivenFile \in FileIds /\ GivenFile[2] = "witness" /\ Torn \in Responses /\ GethWitness \in Responses
    BY Zenon, TornIsResponse DEF GivenFile, FileIds
  <2>3. /\ \A n \in Names : n # "witness" => names[n] = NoFile
        /\ names["witness"] = w /\ names \in [Names -> FileIds \cup {NoFile}]
    BY Zenon, <2>1, <2>2 DEF Names, Kinds
  <2>4. files \in [FileIds -> Contents] /\ \A f \in FileIds : files[f] \in Responses
    BY Zenon, <2>2 DEF Init, Contents
  <2>5. TypeOK
    BY <2>2, <2>3, <2>4 DEF Init, TypeOK, ConstantsAssumption, Kinds
  <2>6. NamesInv /\ FilesInv /\ BundleInv
    BY Zenon, <2>2, <2>3, <2>4 DEF NamesInv, FilesInv, BundleInv, exists, Names, Kinds
  <2>7. CallInv(p) /\ GotInv(p) /\ FreshInv(p) /\ ForcedIsFresh
    BY Zenon DEF Init, CallInv, GotInv, FreshInv, Has, ForcedIsFresh
  <2> QED
    BY Zenon, <2>5, <2>6, <2>7 DEF IInv
<1>2. IInv(p) /\ [Next]_vars => IInv(p)'
  <2>1. ASSUME IInv(p), UNCHANGED vars PROVE IInv(p)'
    BY <2>1
    DEF vars, IInv, TypeOK, NamesInv, FilesInv, BundleInv, CallInv, GotInv, FreshInv, Has, ForcedIsFresh, exists
  <2>2. ASSUME IInv(p), Next PROVE IInv(p)'
    <3>1. Step(p)
      BY Zenon, <2>2 DEF Next
    <3> QED
      BY Zenon, <2>2, <3>1, BeginStep, BeginWithoutNumberStep, ReadCachedStep, FetchStep, SaveCreateStep, SaveWriteStep,
         ConvertStep, WritePartialStep, RenameStep, CrashStep DEF Step
  <2> QED
    BY Zenon, <2>1, <2>2
<1> QED
  BY <1>1, <1>2, PTL DEF Spec

\* The bundle file is only ever there whole, for any number of calls, crashes
\* and failed writes of the one process that works in the directory: a call
\* writes under the partial name and renames what it has written to its end,
\* and what it puts together is parsed before.
THEOREM BundleIsWhole ==
  ASSUME ConstantsAssumption, NEW p, Procs = {p}
  PROVE  Spec => []BundleWhole
<1>1. IInv(p) => BundleWhole
  BY Zenon, BundleNotTorn DEF IInv, BundleInv, BundleWhole, Kinds
<1> QED
  BY <1>1, Invariance, PTL

\* A forced fetch that met no fault of its own succeeds, with responses the
\* node gave during that call, whatever earlier calls left behind.
THEOREM ForcedFetchIsFresh ==
  ASSUME ConstantsAssumption, NEW p, Procs = {p}
  PROVE  Spec => []ForcedIsFresh
<1>1. IInv(p) => ForcedIsFresh
  BY Zenon DEF IInv
<1> QED
  BY <1>1, Invariance, PTL
=============================================================================
