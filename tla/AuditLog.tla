------------------------------ MODULE AuditLog ------------------------------
(***************************************************************************)
(* The hash-chained audit log (crates/remediation/src/audit.rs), its       *)
(* anchors in the system log (anchors.rs, linux/anchor.rs, common.rs) and  *)
(* the comparison the service makes (crates/service/src/audit.rs).         *)
(*                                                                         *)
(* A line's SHA-256 is the chain it ends: the hash of the line before it,  *)
(* then its own sequence number and entry.  Two lines have one hash only   *)
(* if they and everything before them are equal.  An anchor's text is its  *)
(* three fields; a message that parse_anchor refuses is not an anchor.     *)
(***************************************************************************)
EXTENDS Naturals, Sequences, FiniteSets

GENESIS == <<>>

LineHash(line) == Append(line.prev, <<line.seq, line.entry>>)

\* The position after the last line: its number, its hash, the first hash.
Genesis == [seq |-> 0, hash |-> GENESIS, first |-> GENESIS]

\* encode: `seq` and `prev` come from the head; the first line of a chain is
\* its identity.
Line(head, entry) == [seq |-> head.seq + 1, prev |-> head.hash, entry |-> entry,
                      whole |-> TRUE]
NewHead(head, line) ==
    [seq |-> line.seq, hash |-> LineHash(line),
     first |-> IF head.first = GENESIS THEN LineHash(line) ELSE head.first]

\* A line of which only the beginning was written.
PartOf(line) == [seq |-> line.seq, prev |-> line.prev, entry |-> line.entry, whole |-> FALSE]

\* walk_chain: every line is complete, numbered in order and carries the hash
\* of the line before it.
Verifies(lines) ==
    \A n \in DOMAIN lines :
        /\ lines[n].whole
        /\ lines[n].seq = n
        /\ lines[n].prev = IF n = 1 THEN GENESIS ELSE LineHash(lines[n - 1])

HeadOf(lines) ==
    IF lines = <<>> THEN Genesis
    ELSE [seq |-> Len(lines), hash |-> LineHash(lines[Len(lines)]),
          first |-> LineHash(lines[1])]

\* audit_chain: the number and hash of every line.
Chain(lines) == [n \in DOMAIN lines |-> LineHash(lines[n])]

\* anchor_text: the fields that are written; the action and the outcome are
\* not read back.  parse_anchor: what an anchor says once it is read.
AnchorText(head) == <<head.seq, head.hash, head.first>>
Anchor(text) == [seq |-> text[1], hash |-> text[2], chain |-> text[3]]

\* Mutant: anchors beyond the local head are not counted.
CompareLocal(chain, anchors) ==
    LET mine  == {a \in anchors : chain # <<>> /\ a.chain = chain[1]}
        local == {a \in mine : a.seq \in DOMAIN chain}
    IN  [mismatched |-> {a.seq : a \in {b \in local : b.hash # chain[b.seq]}},
         missing    |-> {},
         matched    |-> {a.seq : a \in {b \in local : b.hash = chain[b.seq]}},
         other      |-> anchors \ mine]

\* compare_anchors, for anchors as a set (a repeated one counts once).  An empty
\* chain has no identity: every anchor is another chain's.
Compare(chain, anchors) ==
    LET mine  == {a \in anchors : chain # <<>> /\ a.chain = chain[1]}
        local == {a \in mine : a.seq \in DOMAIN chain}
    IN  [mismatched |-> {a.seq : a \in {b \in local : b.hash # chain[b.seq]}},
         missing    |-> {a.seq : a \in {b \in mine : b.seq > Len(chain)}},
         matched    |-> {a.seq : a \in {b \in local : b.hash = chain[b.seq]}},
         other      |-> anchors \ mine]

Consistent(comparison) == comparison.mismatched = {} /\ comparison.missing = {}
============================================================================
