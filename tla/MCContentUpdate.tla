-------------------------- MODULE MCContentUpdate --------------------------
(* Small instances of ContentUpdate.  The releases, timestamps and keyrings its
   source serves are made with the publisher's commands (Publisher). *)
EXTENDS ContentUpdate, Publisher

---------------------------------------------------------------------------
(* What the publisher works with *)

\* Releases differ in their rules.
MCSha256(fields) ==
  LET digests == fields[6]
  IN  IF <<"rules.yar">> \in DOMAIN digests THEN digests[<<"rules.yar">>] ELSE "no rules"

\* A YARA file of n rules and a notice, a hash database, and what else is found
\* in a directory that was published before.
File(path, ext, size, digest) ==
  [path |-> path, utf8 |-> TRUE, type |-> "file", notice |-> FALSE, ext |-> ext, size |-> size,
   text |-> TRUE, digest |-> digest, db |-> None, source |-> None]
Rules(digest, n) ==
  [File(<<"rules.yar">>, "yar", n, digest) EXCEPT
     !.source = [size |-> n, namespace_ok |-> TRUE, compiles |-> TRUE,
                 rules |-> [i \in 1..n |-> [id |-> <<digest, i>>, meta |-> <<>>]]]]
OtherRules(n) == [Rules("other", n) EXCEPT !.path = <<"sub", "other.yar">>]
Notice == [File(<<"LICENSE">>, "none", 1, "licence") EXCEPT !.notice = TRUE]
NotADatabase ==
  [size |-> 1, format |-> "content-timestamp", format_version |-> 1, wellformed |-> TRUE,
   meta_ok |-> TRUE, signatures |-> <<>>]
OldTimestamp == [File(<<"timestamp.json">>, "json", 1, "ts") EXCEPT !.db = NotADatabase]
Signature1 == File(<<"manifest.json.minisig">>, "minisig", 1, "s1")
Signature2 == File(<<"manifest.json.minisig.2">>, "2", 1, "s2")
OldManifest == File(<<"manifest.json">>, "json", 1, "old")
Symlink == [File(<<"link.yar">>, "yar", 1, "x") EXCEPT !.type = "link"]

Request(name, seq, lifetime, revoke) ==
  [name |-> name, sequence |-> seq, expires_in |-> lifetime, revoke |-> revoke, force |-> FALSE,
   flat |-> FALSE]

\* The manifest of one rule file, as the ASSUME ReleasesAreWritten says.
Release(name, seq, lifetime, revoke, digest) ==
  [id |-> digest, name |-> name, sequence |-> seq, issued |-> 0, expires |-> lifetime,
   revokes |-> revoke, files |-> (<<"rules.yar">> :> digest), usable |-> TRUE, wellformed |-> TRUE]

---------------------------------------------------------------------------
(* What the source serves *)

\* Releases of bundle "a": 1; 2, which revokes c1; another 2 and a 3 signed by
\* c1 alone; a damaged copy of 2.
A1 == Release("a", 1, 1, {}, "a1")
A2 == Release("a", 2, 3, {"c1"}, "a2")
MCDir ==
  { Sign(A1, {"c1"}), Sign(A2, {"c1", "c2"}),
    Sign(Release("a", 2, 3, {}, "a2x"), {"c2"}),
    Sign(Release("a", 3, 3, {}, "a3"), {"c1"}),
    [Sign(A2, {"c2"}) EXCEPT !.content = [p \in DOMAIN @ |-> "bad"]] }

Stamped(v, m, by) ==
  LET ts == WriteTimestamp(m, v, 3, 0).ts IN [ts |-> ts, sig |-> [by |-> by, over |-> ts]]

MCStamp ==
  { Stamped(1, A1, "t1"), Stamped(2, A2, "t1"),
    Stamped(2, Release("a", 3, 3, {}, "a3"), "t1"),
    Stamped(3, Release("a", 2, 3, {}, "a2x"), "c1") }

KeyFile(id) == [id |-> id, parses |-> TRUE]
Project ==
  [wellformed |-> TRUE, threshold |-> 1, floor |-> [n \in Name |-> 0],
   entries |-> KeyEntries(<<KeyFile("c1"), KeyFile("c2")>>, "content").entries
               \o KeyEntries(<<KeyFile("t1")>>, "timestamp").entries]
MCArgs == {[no_builtin |-> FALSE, builtin |-> Project, trusted |-> <<>>, keyrings |-> <<>>,
            expired |-> FALSE]}

NoExtends == {}

\* Two bundles, one release each, where the directories of "a-b" begin as those
\* of "a" do.
PairOne == Release("a", 1, 3, {}, "a1")
PairTwo == Release("a-b", 1, 3, {}, "b1")
PairThree == Release("a-b", 2, 3, {}, "b2")
PairDir == {Sign(PairOne, {"c1"}), Sign(PairTwo, {"c1"}), Sign(PairThree, {"c1"})}
PairStamp == {Stamped(1, PairOne, "t1"), Stamped(1, PairTwo, "t1"), Stamped(2, PairThree, "t1")}
PairExtends == {<<"a", "a-b">>}
SortedA == <<"a">>
SortedPair == <<"a", "a-b">>

---------------------------------------------------------------------------
(* What the publisher's commands promise, over all small inputs *)

WorkDirs == SUBSET {Rules("r", 1), OtherRules(MaxRules), Notice, OldTimestamp, Signature1,
                    Signature2, OldManifest, Symlink}
Requests == [name: Name \cup {"*"}, sequence: 0..1, expires_in: 0..1, revoke: {{}, {"c2"}, {"x"}},
             force: BOOLEAN, flat: BOOLEAN]

\* The releases of the instances are what write_manifest writes.
ASSUME ReleasesAreWritten ==
  \A name \in Name, seq \in 1..3, lifetime \in {1, 3}, revoke \in {{}, {"c1"}},
     digest \in {"a1", "a2"} :
    WriteManifest({Rules(digest, 1)}, Request(name, seq, lifetime, revoke), 0)
      = [result |-> "ok", manifest |-> Release(name, seq, lifetime, revoke, digest)]

\* A manifest that write_manifest wrote, once signed and not changed since, loads
\* at every client that trusts the key, until it expires; its rules also compile
\* there unless they only exceed the limit together.
ASSUME PublishedLoads ==
  \A dir \in WorkDirs, req \in Requests :
    LET written == WriteManifest(dir, req, 0)
    IN  written.result = "ok" =>
          /\ LoadBundle(AddKeyring(NoKeys, Project), Sign(written.manifest, {"c1"}), 1, FALSE) = "ok"
          /\ {Rules("r", 1), OtherRules(MaxRules)} \subseteq dir \/ written.manifest.usable

\* A directory that holds its first signature can be published again with --force,
\* one with a timestamp or a second signature cannot.
ASSUME PublishedAgain ==
  LET again(dir) ==
        WriteManifest({Rules("r", 1), OldManifest} \cup dir,
                      [Request("a", 1, 1, {}) EXCEPT !.force = TRUE], 0).result
  IN  /\ again({Signature1}) = "ok"
      /\ again({OldTimestamp}) = "bad_content" /\ again({Signature2}) = "bad_content"

\* A group never makes an ID that is empty, too long or framed by punctuation.
ASSUME IdPartsAreClean ==
  \A text \in UNION {[1..n -> {"a", ".", "-", "/"}] : n \in 0..4} :
    LET id == IdPart(text)
    IN  /\ Len(id) <= IdLength
        /\ id # <<>> => {id[1], Last(id)} \subseteq Alnum
        /\ \A i \in DOMAIN id : id[i] \in Alnum \cup {".", "-"}

Line(kind, digest) == [kind |-> kind, digest |-> digest]
Lists == [1..2 -> {Line("digest", <<"a", "b">>), Line("digest", <<"a", "c">>),
                   Line("digest", <<"b", "c">>), Line("comment", <<>>), Line("other", <<>>)}]
HashList(lines, dir) == [readable |-> TRUE, size |-> Len(lines), directory |-> dir, lines |-> lines]
CleanFile(sha256, readable) == [sha256 |-> sha256, readable |-> readable, matches |-> {}]
Corpora == UNION {[1..n -> {CleanFile(h, r) : h \in {<<"a", "b">>, <<"b", "c">>}, r \in BOOLEAN}] :
                    n \in 0..2}
MCMeta == [id_prefix |-> "p", detection_name |-> "n", category |-> "malware", severity |-> "high",
           id_ok |-> TRUE, text_ok |-> TRUE]

\* What import-hashes writes loads, and holds no hash of a clean file that was
\* read, as long as the corpus has no more matches than a scan records.
ASSUME ImportIsClean ==
  \A one, two \in Lists, corpus \in Corpora, by \in BOOLEAN :
    LET made == ImportHashes(<<HashList(one, <<"a">>), HashList(two, <<"a", "-">>)>>, FALSE, FALSE,
                             by, corpus, MCMeta)
    IN  made.result = "ok" =>
          /\ ValidDatabase(made.db)
          /\ \/ Len(corpus) > MaxRecorded
             \/ \A i \in DOMAIN corpus : corpus[i].readable => Lookup(made.db, corpus[i].sha256) = <<>>

\* import-yara keeps the vetted files, one of a name, without those that have a
\* rule matching a clean file, again up to the number of findings recorded.
ASSUME ImportedRulesAreClean ==
  \A matched \in SUBSET {<<"r", 1>>, <<"other", 1>>} :
    LET clean == [CleanFile(<<"d">>, TRUE) EXCEPT !.matches = matched]
        made  == ImportYara(<<Rules("r", 1), OtherRules(1), Rules("again", 1)>>, {}, <<clean>>)
    IN  Cardinality(matched) <= MaxRecorded =>
          made.kept = {e \in {Rules("r", 1), OtherRules(1)} : <<e.digest, 1>> \notin matched}
=============================================================================
