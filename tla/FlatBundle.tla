------------------------------- MODULE FlatBundle -------------------------------
(***************************************************************************)
(* The envelope of flat bundles, from the encoders to its two readers. A   *)
(* test fixture is split into bundles (build_subtest), a request is one    *)
(* bundle (mfbd.rs); build_flat_bundle lays out each, wrap_mfbd the        *)
(* envelope. The guest reads it with run_mfbd and load_flat_bundle; the    *)
(* host reads it again to learn what the guest has to commit               *)
(* (expected_for_mfbd). The two agree on which bytes are blocks and flags  *)
(* only by computing the same offsets.                                     *)
(*                                                                         *)
(* The alignment is a constant, 8 in the code, and a 64-bit word takes     *)
(* that many bytes. A byte is what is written there: the start of a        *)
(* header, a count, a block or a record, a flag, or anything else. The     *)
(* contents of the other sections are left out.                            *)
(***************************************************************************)
EXTENDS Integers, FiniteSets, Sequences, SequencesExt

CONSTANTS
  Align,
  HeaderSize,      \* of the envelope and of a bundle, aligned
  RecordSize,      \* of an engine record without its hashes, aligned
  HashSize,
  BlockSizes, GenesisSizes,
  MaxBlocks, MaxHashes

ConstantsAssumption ==
  /\ Align \in Nat \ {0}
  /\ HeaderSize % Align = 0 /\ RecordSize % Align = 0 /\ HashSize % Align = 0
  /\ BlockSizes \subseteq Nat \ {0} /\ GenesisSizes \subseteq Nat \ {0}

VARIABLES
  pc,          \* encode, read, done
  blocks,      \* the source's blocks, with what is expected of each
  bundles,     \* what the encoder makes of them
  envelope,
  guest, host  \* what each reader read

vars == <<pc, blocks, bundles, envelope, guest, host>>

align(v) == ((v + Align - 1) \div Align) * Align
total(sizes) == FoldLeft(+, 0, sizes)

kExpectInvalid == 1
kEngineRecord == 2
has(flag, f) == (flag \div f) % 2 = 1

Zero == [kind |-> "zero"]
NoRecord == [hashes |-> -1]

-----------------------------------------------------------------------------
\* The encoders.

\* build_subtest: a block to be rejected ends its bundle, and the ones after
\* it go on from the blocks before it.
emit(chain) ==
  [blocks |-> chain,
   flags |-> IF \E i \in DOMAIN chain : chain[i].invalid
             THEN [i \in DOMAIN chain |-> IF chain[i].invalid THEN kExpectInvalid ELSE 0] ELSE <<>>,
   engine |-> <<>>]

valid_before(i) == SelectSeq(SubSeq(blocks, 1, i - 1), LAMBDA b : ~b.invalid)

ends_bundle_M1(i) == i = Len(blocks)

ends_bundle(i) == blocks[i].invalid \/ i = Len(blocks)

build_subtest ==
  LET ends == SelectSeq([i \in 1..Len(blocks) |-> i], ends_bundle) IN
    [n \in 1..Len(ends) |-> emit(Append(valid_before(ends[n]), blocks[ends[n]]))]

\* mfbd.rs: one block, with the record of its request or without.
encode_request(record) ==
  LET invalid == IF blocks[1].invalid THEN kExpectInvalid ELSE 0 IN
    <<[blocks |-> blocks,
       flags |-> IF record # NoRecord THEN <<invalid + kEngineRecord>>
                 ELSE IF blocks[1].invalid THEN <<invalid>> ELSE <<>>,
       engine |-> IF record # NoRecord THEN <<record>> ELSE <<>>]>>

record_size(r) == RecordSize + HashSize * r.hashes

flags_end(b) == Align + total([i \in DOMAIN b.blocks |-> align(b.blocks[i].size)]) + Len(b.flags)

blocks_section_size(b) ==
  IF b.engine = <<>> THEN flags_end(b)
  ELSE align(flags_end(b)) + total([i \in DOMAIN b.engine |-> record_size(b.engine[i])])

\* genesis, blocks, ancestors, direct_state, node_store, network
sections(b, genesis) ==
  LET size == <<genesis, blocks_section_size(b), 0, 1, 0, 1>>
      off[i \in 1..6] == IF i = 1 THEN HeaderSize ELSE align(off[i - 1] + size[i - 1]) IN
    [i \in 1..6 |-> [off |-> off[i], size |-> size[i]]]

\* Where block i, flag i and record i start.
block_at(b, off, i) == off + Align + total([j \in 1..(i - 1) |-> align(b.blocks[j].size)])
flag_at(b, off, i) == block_at(b, off, Len(b.blocks) + 1) + i - 1
record_at(b, off, i) == off + align(flags_end(b)) + total([j \in 1..(i - 1) |-> record_size(b.engine[j])])

\* The bytes of a bundle: its size, and what starts where.
bytes(b, s, off) ==
  [size |-> align(s[6].off + s[6].size),
   starts |->
     {<<0, [kind |-> "header", sections |-> s]>>, <<off, [kind |-> "count", n |-> Len(b.blocks)]>>}
     \cup {<<block_at(b, off, i), [kind |-> "block", block |-> b.blocks[i]]>> : i \in DOMAIN b.blocks}
     \cup {<<flag_at(b, off, i), [kind |-> "flag", flag |-> b.flags[i]]>> : i \in DOMAIN b.flags}
     \cup {<<record_at(b, off, i), [kind |-> "record", record |-> b.engine[i]]>> : i \in DOMAIN b.engine}]

build_flat_bundle(b, genesis) ==
  LET s == sections(b, genesis) IN bytes(b, s, s[2].off)

add_bundle(env, bundle) ==
  [n_bundles |-> env.n_bundles + 1,
   size |-> env.size + align(bundle.size),
   starts |-> env.starts \cup {<<env.size + x[1], x[2]>> : x \in bundle.starts}]

wrap_mfbd(built) == FoldLeft(add_bundle, [n_bundles |-> 0, size |-> HeaderSize, starts |-> {}], built)

-----------------------------------------------------------------------------
\* The readers. Positions are those of the envelope, base the bundle's.

cell(p) ==
  IF \E x \in envelope.starts : x[1] = p
  THEN (CHOOSE x \in envelope.starts : x[1] = p)[2] ELSE Zero

bounded(s, base) == \A i \in 1..6 : base + s[i].off + s[i].size <= envelope.size

disjoint(s) ==
  \A i, j \in 1..6 : i < j /\ s[i].size # 0 /\ s[j].size # 0 =>
    s[i].off >= s[j].off + s[j].size \/ s[j].off >= s[i].off + s[i].size

bundle_size(s) ==
  LET ends == {s[i].off + s[i].size : i \in 1..6} \cup {HeaderSize} IN
    CHOOSE e \in ends : \A f \in ends : e >= f

\* One block after the other, each at an aligned cursor, each a list that
\* ends inside the section.
next_block(w, c, end) ==
  IF w.ok /\ w.cursor < end /\ c.kind = "block" /\ w.cursor + c.block.size <= end
  THEN [ok |-> TRUE, cursor |-> align(w.cursor + c.block.size), blocks |-> Append(w.blocks, c.block)]
  ELSE [w EXCEPT !.ok = FALSE]

walk(first, end, n) ==
  FoldLeft(LAMBDA w, i : next_block(w, cell(w.cursor), end),
           [ok |-> TRUE, cursor |-> first, blocks |-> <<>>], [i \in 1..n |-> i])

flag_byte(c) == IF c.kind = "flag" THEN c.flag ELSE 0

\* The flags are there if the section has room for them.
flags_of(w, end, n) ==
  IF n > 0 /\ w.cursor + n <= end THEN [i \in 1..n |-> flag_byte(cell(w.cursor + i - 1))] ELSE <<>>

\* The records of the flagged blocks, in order, after the flags.
next_record(w, c, end) ==
  IF w.ok /\ w.pos + RecordSize <= end /\ c.kind = "record" /\ w.pos + record_size(c.record) <= end
  THEN [ok |-> TRUE, pos |-> w.pos + record_size(c.record), records |-> Append(w.records, c.record)]
  ELSE [w EXCEPT !.ok = FALSE]

records_of(flags, first, end) ==
  FoldLeft(LAMBDA w, flag : IF has(flag, kEngineRecord) THEN next_record(w, cell(w.pos), end) ELSE w,
           [ok |-> TRUE, pos |-> first, records |-> <<>>], flags)

Failed == [ok |-> FALSE, cursor |-> 0, bundles |-> <<>>]

read_bundle(read, s, bundle) ==
  [ok |-> TRUE, cursor |-> align(read.cursor + bundle_size(s)), bundles |-> Append(read.bundles, bundle)]

\* load_flat_bundle of the tail from the cursor, added to what was read.
load_blocks(read, s, w, flags, end) ==
  LET r == records_of(flags, align(w.cursor + Len(flags)), end) IN
    IF w.ok /\ r.ok
    THEN read_bundle(read, s, [blocks |-> w.blocks, flags |-> flags, engine |-> r.records]) ELSE Failed

load_section(read, s, w, end, n) ==
  load_blocks(read, s, w, flags_of(w, end, n), end)

load_flat_bundle(read, c) ==
  IF read.ok /\ c.kind = "header" /\ bounded(c.sections, read.cursor) /\ disjoint(c.sections)
     /\ c.sections[2].size >= Align
  THEN LET first == read.cursor + c.sections[2].off
           end == first + c.sections[2].size
       IN  load_section(read, c.sections, walk(first + Align, end, cell(first).n), end, cell(first).n)
  ELSE Failed

\* The host's add_bundle_blocks: no records, and no check for overlaps.
host_flags_M1(w, end, n) ==
  IF n > 0 /\ w.cursor + n < end THEN [i \in 1..n |-> flag_byte(cell(w.cursor + i - 1))] ELSE <<>>

host_flags(w, end, n) ==
  IF n > 0 /\ w.cursor + n <= end THEN [i \in 1..n |-> flag_byte(cell(w.cursor + i - 1))] ELSE <<>>

add_blocks(read, s, w, end, n) ==
  IF w.ok THEN read_bundle(read, s, [blocks |-> w.blocks, flags |-> host_flags(w, end, n)]) ELSE Failed

add_bundle_blocks(read, c) ==
  IF read.ok /\ c.kind = "header" /\ bounded(c.sections, read.cursor) /\ c.sections[2].size >= Align
  THEN LET first == read.cursor + c.sections[2].off
           end == first + c.sections[2].size
       IN  add_blocks(read, c.sections, walk(first + Align, end, cell(first).n), end, cell(first).n)
  ELSE Failed

Start == [ok |-> TRUE, cursor |-> HeaderSize, bundles |-> <<>>]

run_mfbd ==
  FoldLeft(LAMBDA read, i : load_flat_bundle(read, cell(read.cursor)), Start, [i \in 1..envelope.n_bundles |-> i])

expected_for_mfbd ==
  FoldLeft(LAMBDA read, i : add_bundle_blocks(read, cell(read.cursor)), Start, [i \in 1..envelope.n_bundles |-> i])

-----------------------------------------------------------------------------
Unread == [ok |-> FALSE, cursor |-> -1, bundles |-> <<>>]

Init ==
  /\ pc = "encode"
  /\ \E n \in 1..MaxBlocks : blocks \in [1..n -> [size : BlockSizes, invalid : BOOLEAN]]
  /\ bundles = <<>> /\ envelope = [n_bundles |-> 0, size |-> 0, starts |-> {}]
  /\ guest = Unread /\ host = Unread

Wrap(bs) ==
  /\ bundles' = bs
  /\ \E g \in GenesisSizes : envelope' = wrap_mfbd([n \in DOMAIN bs |-> build_flat_bundle(bs[n], g)])
  /\ pc' = "read"
  /\ UNCHANGED <<blocks, guest, host>>

Convert == pc = "encode" /\ Wrap(build_subtest)

Encode == pc = "encode" /\ Len(blocks) = 1 /\ \E h \in -1..MaxHashes : Wrap(encode_request([hashes |-> h]))

Read ==
  /\ pc = "read"
  /\ pc' = "done"
  /\ guest' = run_mfbd
  /\ host' = expected_for_mfbd
  /\ UNCHANGED <<blocks, bundles, envelope>>

Next == Convert \/ Encode \/ Read

Spec == Init /\ [][Next]_vars

-----------------------------------------------------------------------------
\* What the encoders write, both readers read back: the guest every bundle
\* with its blocks, flags and records, and the host, which looks for the
\* flags by itself, the same blocks with the same flags. And since the guest
\* never undoes a rejected block, each block of a fixture is run, in some
\* bundle, right after the valid ones before it and no rejected one.
ReadAsWritten ==
  pc = "done" =>
    /\ guest.ok /\ guest.bundles = bundles
    /\ host.ok
    /\ host.bundles = [n \in DOMAIN bundles |-> [blocks |-> bundles[n].blocks, flags |-> bundles[n].flags]]
    /\ \A i \in DOMAIN blocks :
         \E n \in DOMAIN bundles : IsPrefix(Append(valid_before(i), blocks[i]), guest.bundles[n].blocks)
    /\ \A n \in DOMAIN bundles : \A i \in DOMAIN bundles[n].blocks :
         LET b == guest.bundles[n] IN
           /\ (b.flags # <<>> /\ has(b.flags[i], kExpectInvalid)) <=> b.blocks[i].invalid
           /\ b.blocks[i].invalid => i = Len(b.blocks)
=============================================================================
