----------------------------- MODULE Publisher -----------------------------
(***************************************************************************)
(* The publisher's side of detection content: `abyssal-warden content      *)
(* manifest`, `timestamp`, `key-entry`, `import-hashes` and `import-yara`  *)
(* (cli/content_cmd.rs, cli/content_import.rs), as operators from a        *)
(* directory and the command's arguments to what is written.  The tool     *)
(* does not sign: Sign is the external signing tool.  The bundles and      *)
(* timestamps that ContentUpdate's source serves are made with these.      *)
(*                                                                         *)
(* A directory is a set of entries: [path, utf8, type, notice, ext, size,  *)
(* text, digest, db, source], where a path is a sequence of names, utf8    *)
(* and text say that the name and the content are UTF-8, and db and source *)
(* are what the content is as a hash database and as a YARA source.        *)
(***************************************************************************)
EXTENDS ContentTrust, Detectors

CONSTANTS
  Sha256(_),       \* the digest of a manifest's fields; external
  Hidden,          \* names that begin with a dot or end in ".minisig"
  Unsafe,          \* names with a backslash, a colon, control or bidi characters
  Flat,            \* names of [A-Za-z0-9._-]
  Alnum,           \* letters and digits
  IdLength,        \* characters of a group kept in an ID (48)
  IdDigits,        \* digits of a hash kept in an ID (16)
  MaxPath, MaxFiles, MaxContentBytes, MaxNoticeBytes, MaxRevocations,
  MaxListBytes,    \* MAX_HASH_LIST_BYTES
  MaxRuleFiles,    \* rule files read below a directory
  MaxRecorded      \* findings a scan of the clean corpus records

NoFiles == [p \in {} |-> p]

\* write_new: a temporary file moved into place; an existing file needs --force.
WriteNew(exists, force) == ~exists \/ force

---------------------------------------------------------------------------
(* Manifests and timestamps *)

ValidRelativePath(path) ==
  /\ path # <<>> /\ Len(path) <= MaxPath
  /\ \A i \in DOMAIN path : path[i] \notin {"", ".", ".."} \cup Unsafe

\* collect: what lies below a hidden name is not looked at; anything that is
\* neither a directory nor a regular file ends the command.
Collect(dir) ==
  LET seen  == {e \in dir : \A i \in DOMAIN e.path : e.path[i] \notin Hidden}
      files == {e \in seen : e.type = "file" /\ e.path # <<"manifest.json">>}
  IN  [ok |-> /\ \A e \in seen : e.utf8 /\ e.type \in {"dir", "file"}
              /\ \A e \in files : ValidRelativePath(e.path)
              /\ Cardinality(files) <= MaxFiles,
       files |-> files]

\* content_kind: by name, once the content is what the name says.
ContentKind(e) ==
  CASE e.notice                 -> IF e.size <= MaxNoticeBytes /\ e.text THEN "notice" ELSE "error"
    [] ~e.notice /\ e.ext = "json"
                                -> IF ValidDatabase(e.db) THEN "hash_database" ELSE "error"
    [] ~e.notice /\ e.ext \in {"yar", "yara"}
                                -> IF e.text /\ Compiles(<<e.source>>) THEN "yara_rules" ELSE "error"
    [] OTHER                    -> "error"

\* What a client's validate_bundle says of the files: all rule files compile together.
Usable(files) ==
  LET rules == {e \in files : ContentKind(e) = "yara_rules"}
  IN  /\ \A e \in files : ContentKind(e) # "error"
      /\ rules # {} => Compiles(SetToSeq({e.source : e \in rules}))

Manifest(files, req, now) ==
  LET digests == [p \in {e.path : e \in files} |-> (CHOOSE e \in files : e.path = p).digest]
      expires == now + req.expires_in
  IN  [id |-> Sha256(<<req.name, req.sequence, now, expires, req.revoke, digests>>),
       name |-> req.name, sequence |-> req.sequence, issued |-> now, expires |-> expires,
       revokes |-> req.revoke, files |-> digests, usable |-> Usable(files),
       wellformed |-> req.name \in Name /\ req.revoke \subseteq Key
                      /\ Cardinality(req.revoke) <= MaxRevocations]

\* write_manifest: "ok" and the manifest, or why nothing is written.
WriteManifest(dir, req, now) ==
  LET found == Collect(dir)
      m     == Manifest(found.files, req, now)
      no(w) == [result |-> w, manifest |-> m]
  IN  IF ~req.force /\ \E e \in dir : e.path = <<"manifest.json">> THEN no("exists")
      ELSE IF ~found.ok THEN no("bad_entry")
      ELSE IF req.flat /\ \E e \in found.files : Len(e.path) > 1 \/ e.path[1] \notin Flat
           THEN no("not_flat")
      ELSE IF \E e \in found.files : e.size > MaxContentBytes THEN no("too_large")
      ELSE IF \E e \in found.files : ContentKind(e) = "error" THEN no("bad_content")
      ELSE IF ~ValidManifest(m) THEN no("invalid_manifest")
      ELSE [result |-> "ok", manifest |-> m]

\* write_timestamp: of the manifest in the directory, which need not be signed.
WriteTimestamp(m, version, expires_in, now) ==
  LET ts == [wellformed |-> m.wellformed, version |-> version, bundle |-> m.name,
             sequence |-> m.sequence, manifest |-> m.id, issued |-> now,
             expires |-> now + expires_in]
  IN  [result |-> IF ValidManifest(m) /\ ValidTimestamp(ts, now) THEN "ok" ELSE "invalid",
       ts |-> ts]

\* The signing tool: each key signs the manifest; the content is as it was listed.
Sign(m, keys) ==
  [manifest |-> m, sigs |-> SetToSeq({[by |-> k, over |-> m.id] : k \in keys}),
   content |-> m.files]

\* key_entries: one keyring entry per readable key file, each with the one role.
KeyEntries(files, role) ==
  [ok |-> \A i \in DOMAIN files : files[i].parses,
   entries |-> [i \in DOMAIN files |->
     [id |-> files[i].id, roles |-> {role}, not_before |-> 0, not_after |-> Forever,
      revoked |-> FALSE]]]

---------------------------------------------------------------------------
(* Hash lists *)

\* A line is blank, a comment, a SHA-256 (with or without a file name), or else.
ParseHashList(lines) ==
  [hashes |-> {lines[i].digest : i \in {j \in DOMAIN lines : lines[j].kind = "digest"}},
   rejected |-> Cardinality({j \in DOMAIN lines : lines[j].kind = "other"})]

IdPart(text) ==
  LET mapped == [i \in 1..Smaller(Len(text), IdLength) |->
                   IF text[i] \in Alnum \cup {"."} THEN text[i] ELSE "-"]
      kept   == {i \in DOMAIN mapped : mapped[i] \notin {"-", "."}}
  IN  IF kept = {} THEN <<>> ELSE SubSeq(mapped, Min(kept), Max(kept))

IdAndName(hash, group, meta) ==
  LET part == IF IdPart(group) = <<>> THEN <<>> ELSE <<IdPart(group)>>
  IN  [id   |-> <<meta.id_prefix>> \o part \o <<SubSeq(hash, 1, IdDigits)>>,
       name |-> <<meta.detection_name>> \o part]

\* hash_database: hashes maps each hash to its group; size is counted in signatures.
HashDatabase(hashes, meta) ==
  LET sig(h) == [id |-> IdAndName(h, hashes[h], meta).id, name |-> IdAndName(h, hashes[h], meta).name,
                 sha256 |-> h, category |-> meta.category, severity |-> meta.severity,
                 rule_version |-> 1, id_ok |-> meta.id_ok, text_ok |-> meta.text_ok]
  IN  [size |-> Cardinality(DOMAIN hashes), format |-> "hash-signatures", format_version |-> 1,
       wellformed |-> meta.category \in Category /\ meta.severity \in Severity,
       meta_ok |-> meta.text_ok, signatures |-> SetToSeq({sig(h) : h \in DOMAIN hashes})]

\* clean_matches: what a scan of the corpus records.  A file that cannot be read
\* is only counted, and findings beyond the limit are not in the report.
CleanMatches(Matches(_), corpus) ==
  LET scanned == SelectSeq(corpus, LAMBDA f : f.readable)
      found   == FlattenSeq([i \in DOMAIN scanned |-> SetToSeq(Matches(scanned[i]))])
  IN  [ok |-> scanned # <<>>, matches |-> ToSet(SubSeq(found, 1, Smaller(Len(found), MaxRecorded)))]

DropCleanHashes(hashes, meta, corpus) ==
  LET db    == HashDatabase(hashes, meta)
      found == CleanMatches(LAMBDA f : {s.id : s \in ToSet(Lookup(db, f.sha256))}, corpus)
  IN  [ok |-> ValidDatabase(db) /\ found.ok,
       hashes |-> [h \in {x \in DOMAIN hashes :
                            IdAndName(x, hashes[x], meta).id \notin found.matches} |-> hashes[h]]]

\* import_hashes: the first list that names a hash gives it its group.
ImportHashes(lists, exists, force, byDirectory, corpus, meta) ==
  LET group(l)  == IF byDirectory THEN l.directory ELSE <<>>
      add(all, l) ==
        LET new == ParseHashList(l.lines).hashes \ DOMAIN all
        IN  [h \in DOMAIN all \cup new |-> IF h \in new THEN group(l) ELSE all[h]]
      all  == FoldLeft(add, NoFiles, lists)
      kept == IF corpus = <<>> THEN [ok |-> TRUE, hashes |-> all]
                               ELSE DropCleanHashes(all, meta, corpus)
      db   == HashDatabase(kept.hashes, meta)
      no(w) == [result |-> w, db |-> db]
  IN  IF \E i \in DOMAIN lists : ~lists[i].readable \/ lists[i].size > MaxListBytes
      THEN no("bad_list")
      ELSE IF byDirectory /\ \E i \in DOMAIN lists : IdPart(lists[i].directory) = <<>>
      THEN no("bad_group")
      ELSE IF DOMAIN all = {} THEN no("empty")
      ELSE IF ~kept.ok THEN no("bad_corpus")
      ELSE IF DOMAIN kept.hashes = {} THEN no("all_clean")
      ELSE IF ~ValidDatabase(db) THEN no("would_not_load")
      ELSE IF ~WriteNew(exists, force) THEN no("exists")
      ELSE [result |-> "ok", db |-> db]

---------------------------------------------------------------------------
(* YARA files *)

VetYara(source) == Compiles(<<source>>) /\ RulesOf(<<source>>) # <<>>

\* yara_files: regular files below a directory, links not followed.
YaraFiles(dir) ==
  LET files == {e \in dir : e.type = "file" /\ e.ext \in {"yar", "yara"}}
  IN  [ok |-> Cardinality(files) <= MaxRuleFiles, files |-> files]

\* clean_rule_matches: the candidates with a rule that matches the clean corpus.
CleanRuleMatches(files, corpus) ==
  LET hits(f) == {i \in DOMAIN files :
                    \E r \in ToSet(files[i].source.rules) : r.id \in f.matches}
      found   == CleanMatches(hits, corpus)
  IN  [ok |-> Compiles([i \in DOMAIN files |-> files[i].source]) /\ found.ok, bad |-> found.matches]

\* import_yara: each file on its own, in order; a name that was tried is taken.
ImportYara(files, excluded, corpus) ==
  LET vet(acc, e) ==
        LET name == Last(e.path)
        IN  IF ~e.utf8 \/ name \in excluded \/ ~ValidRelativePath(<<name>>) \/ name \in acc.names
            THEN acc
            ELSE [names |-> acc.names \cup {name},
                  kept  |-> IF e.size <= MaxContentBytes /\ e.text /\ VetYara(e.source)
                            THEN Append(acc.kept, e) ELSE acc.kept]
      vetted == FoldLeft(vet, [names |-> {}, kept |-> <<>>], files).kept
      clean  == IF corpus = <<>> \/ vetted = <<>> THEN [ok |-> TRUE, bad |-> {}]
                ELSE CleanRuleMatches(vetted, corpus)
      kept   == {vetted[i] : i \in DOMAIN vetted \ clean.bad}
  IN  IF ~clean.ok THEN [result |-> "bad_corpus", kept |-> {}]
      ELSE IF kept = {} THEN [result |-> "none_accepted", kept |-> {}]
      ELSE [result |-> "ok", kept |-> kept]
=============================================================================
