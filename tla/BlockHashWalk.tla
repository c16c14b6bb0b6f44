---------------------------- MODULE BlockHashWalk ----------------------------
(***************************************************************************)
(* BLOCKHASH: get_block_hash and insert_header of DirectState and of       *)
(* HashState (core/state_zz). Both keep the walk along the parent hashes   *)
(* of the header last asked for. DirectState extends it on demand;         *)
(* HashState walks it once, as far as BLOCKHASH reaches. The two are asked *)
(* the same questions here, and each answer is compared with the walk made *)
(* from the headers held at that moment.                                   *)
(*                                                                         *)
(* A hash is the name of its header: keccak is taken to be injective.      *)
(***************************************************************************)
EXTENDS Integers, Sequences

CONSTANTS
  Headers,   \* the headers of a small block tree, as [name, number, parent]
  Asked,     \* those of them BLOCKHASH is asked from
  Depth,     \* kBlockHashDepth
  None       \* the zero hash

ConstantsAssumption == Depth \in Nat \ {0}

VARIABLES
  held,      \* headers_, the same in both
  strict,    \* require_block_hash_headers_ of DirectState
  direct,    \* ancestors_, ancestors_number_, ancestors_end_ of DirectState
  hashed,    \* ancestors_, ancestors_number_, ancestors_anchor_ of HashState
  missing,   \* ancestor_missing_ of DirectState and of HashState
  answer     \* the last question and the answers to it

vars == <<held, strict, direct, hashed, missing, answer>>

NoAnswer == [asked |-> None]
HeldAs(hash) == {h \in held : h.name = hash}
Holds(hash) == HeldAs(hash) # {}
ParentOf(hash) == (CHOOSE h \in HeldAs(hash) : TRUE).parent

Init ==
  /\ held = {}
  /\ strict \in BOOLEAN
  /\ direct = [ancestors |-> <<>>, number |-> 0, end |-> FALSE]
  /\ hashed = [ancestors |-> <<>>, number |-> 0, anchor |-> None]
  /\ missing = [direct |-> FALSE, hashed |-> FALSE]
  /\ answer = NoAnswer

\* insert_header of both drops the ancestors found so far, and nothing else.
insert_header(h) ==
  /\ held' = held \cup {h}
  /\ direct' = [direct EXCEPT !.ancestors = <<>>]
  /\ hashed' = [hashed EXCEPT !.ancestors = <<>>]
  /\ answer' = NoAnswer
  /\ UNCHANGED <<strict, missing>>

-----------------------------------------------------------------------------
\* DirectState::get_block_hash.

\* The walk is kept for another header of the same number.
kept_M1(header) == direct.ancestors # <<>> /\ direct.number = header.number

\* The walk is kept when it began at this header.
kept(header) ==
  /\ direct.ancestors # <<>>
  /\ direct.number = header.number
  /\ direct.ancestors[1] = header.parent

\* The ancestors, extended by parent hashes until they are more than depth or
\* the last has no header held.
RECURSIVE Extend(_, _, _)
Extend(ancestors, end, depth) ==
  LET last == ancestors[Len(ancestors)] IN
  IF Len(ancestors) > depth THEN [ancestors |-> ancestors, end |-> end]
  ELSE IF end \/ ~Holds(last) THEN [ancestors |-> ancestors, end |-> TRUE]
  ELSE Extend(Append(ancestors, ParentOf(last)), end, depth)

DirectAsk(header, n) ==
  LET start == IF kept(header) THEN direct
               ELSE [ancestors |-> <<header.parent>>, number |-> header.number, end |-> FALSE]
      depth == header.number - 1 - n
      walk == Extend(start.ancestors, start.end, depth)
      short == Len(walk.ancestors) <= depth
      absent == short \/ (strict /\ ~Holds(walk.ancestors[depth + 1]))
  IN [memo |-> [ancestors |-> walk.ancestors, number |-> header.number, end |-> walk.end],
      missing |-> absent,
      hash |-> IF absent THEN None ELSE walk.ancestors[depth + 1]]

-----------------------------------------------------------------------------
\* HashState::get_block_hash.

\* The run of held headers from hash on, cut at kBlockHashDepth.
RECURSIVE Run(_, _)
Run(hash, room) ==
  IF room = 0 \/ ~Holds(hash) THEN <<>> ELSE <<hash>> \o Run(ParentOf(hash), room - 1)

\* The walk is the one of this header by its number alone.
current_M1(header) == hashed.number = header.number

current(header) == hashed.number = header.number /\ hashed.anchor = header.parent

HashAsk(header, n) ==
  LET memo == IF current(header) THEN hashed
              ELSE [ancestors |-> Run(header.parent, Depth), number |-> header.number,
                    anchor |-> header.parent]
      depth == header.number - 1 - n
      absent == depth >= Len(memo.ancestors)
  IN [memo |-> memo, missing |-> absent,
      hash |-> IF absent THEN None ELSE memo.ancestors[depth + 1]]

\* A BLOCKHASH the EVM passes on, for a block it reaches.
get_block_hash(header, n) ==
  LET d == DirectAsk(header, n)
      h == HashAsk(header, n)
  IN /\ direct' = d.memo
     /\ hashed' = h.memo
     /\ missing' = [direct |-> missing.direct \/ d.missing, hashed |-> missing.hashed \/ h.missing]
     /\ answer' = [asked |-> header, n |-> n, direct |-> d.hash, hashed |-> h.hash]
     /\ UNCHANGED <<held, strict>>

Next ==
  \/ \E h \in Headers \ held : insert_header(h)
  \/ \E h \in Asked : \E n \in 0..(h.number - 1) :
       h.number - n <= Depth /\ get_block_hash(h, n)

Spec == Init /\ [][Next]_vars

-----------------------------------------------------------------------------
\* The walk the memos replace: from the header down to its ancestor of
\* number n, through the headers held now.
RECURSIVE Ancestor(_, _)
Ancestor(hash, steps) ==
  IF steps = 0 THEN hash
  ELSE IF ~Holds(hash) THEN None
  ELSE Ancestor(ParentOf(hash), steps - 1)

Walked(header, n) == Ancestor(header.parent, header.number - 1 - n)

Answered == answer # NoAnswer

\* What DirectState answers is what the walk from scratch would, whatever was
\* asked and inserted before; when the witness must hold the header of block
\* n itself, a walk that ends at a hash without one answers nothing.
DirectAnswersAsWalk ==
  Answered =>
    LET w == Walked(answer.asked, answer.n)
    IN answer.direct = IF strict /\ ~Holds(w) THEN None ELSE w

\* A hash HashState gives is the one the walk reaches, never one kept from
\* another header.
HashAnswersBound ==
  Answered /\ answer.hashed # None =>
    /\ answer.hashed = Walked(answer.asked, answer.n)
    /\ Holds(answer.hashed)

=============================================================================
