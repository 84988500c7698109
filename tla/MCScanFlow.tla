----------------------------- MODULE MCScanFlow -----------------------------
(* Small instances of ScanFlow: files, archives, detectors and limits. *)
EXTENDS ScanFlow

Plain(hash, size) ==
  [sha256 |-> hash, size |-> size, magic |-> "none", zip |-> FALSE, entries |-> <<>>,
   opens |-> "ok", type |-> "file", read_fails |-> FALSE, breaks |-> FALSE,
   matches |-> {}, format |-> "other", text |-> FALSE, shebang |-> FALSE,
   script_ext |-> FALSE, document_ext |-> FALSE, double_ext |-> FALSE, bidi |-> FALSE,
   in_temp |-> FALSE, structure |-> None]

Archive(hash, size, magic, entries) ==
  [Plain(hash, size) EXCEPT !.magic = magic, !.zip = TRUE, !.entries = entries]

File(o) == [meta |-> "file", body |-> "ok", object |-> o]
Odd(meta, body) == [meta |-> meta, body |-> body, object |-> Plain("m0", 1)]

P(name, link) == [name |-> name, link |-> link]

Section(exec, write, entry) ==
  [exec |-> exec, code |-> FALSE, write |-> write, entry |-> entry, packer |-> write]
Pe == [parses |-> TRUE, sections |-> <<Section(TRUE, FALSE, TRUE), Section(TRUE, TRUE, FALSE)>>,
       entry |-> 1, efi |-> FALSE, high_entropy |-> TRUE, imports |-> 0, inject |-> FALSE,
       hollow |-> TRUE, embedded |-> FALSE]
Elf == [parses |-> TRUE, executable |-> TRUE, entry |-> 1, upx |-> TRUE, no_table |-> TRUE,
        bad_rpath |-> TRUE, odd_interpreter |-> FALSE,
        segments |-> <<[type |-> "load", exec |-> TRUE, write |-> TRUE, entry |-> FALSE],
                       [type |-> "stack", exec |-> TRUE, write |-> TRUE, entry |-> FALSE]>>]
Script == [lines |-> {[comment |-> FALSE, patterns |-> {"ReverseShell", "LolBin"}],
                      [comment |-> TRUE, patterns |-> {"DownloadExec"}]},
           shell |-> TRUE, base64_run |-> 1]

Sig(id, hash, category) ==
  [id |-> id, sha256 |-> hash, category |-> category, severity |-> "high", id_ok |-> TRUE,
   text_ok |-> TRUE, rule_version |-> 1]
Database(sigs) ==
  [type |-> "hash", database |->
     [size |-> 1, format |-> "hash-signatures", format_version |-> 1, wellformed |-> TRUE,
      meta_ok |-> TRUE, signatures |-> sigs]]
Yara == [type |-> "yara", sources |->
  <<[namespace_ok |-> TRUE, compiles |-> TRUE, size |-> 1, rules |->
      <<[id |-> "r", meta |-> <<[key |-> "aw_kind", value |-> "known_indicator"],
                                [key |-> "aw_category", value |-> "malware"],
                                [key |-> "aw_confidence", value |-> "high"]>>]>>]>>]
Heuristics == [type |-> "heuristics"]

Limits ==
  [roots |-> {"r"}, archives |-> TRUE, workers |-> 2, file_timeout |-> 1,
   scan_timeout |-> 1, max_file_size |-> 3, max_content_size |-> 2, max_depth |-> 2,
   max_entries |-> 3, max_total_bytes |-> 5, max_member_content |-> 2,
   max_recorded_findings |-> 2, max_recorded_entries |-> 2]

-----------------------------------------------------------------------
(* File n1 has the paths A, H (a hard link) and L (a symbolic link), n2 has Z. *)
A == P("a", FALSE)
H == P("h", FALSE)
L == P("l", TRUE)
Z == P("z", FALSE)
MCNode == {"n1", "n2"}
MCPath == {A, H, L, Z}
MCNodeOf == (A :> "n1") @@ (H :> "n1") @@ (L :> "n1") @@ (Z :> "n2")

Disk(paths, n1, n2) ==
  [paths |-> paths, object |-> ("n1" :> n1) @@ ("n2" :> n2), follow |-> FALSE]
Following(disk) == [disk EXCEPT !.follow = TRUE]

Bad == [Plain("bad", 1) EXCEPT !.matches = {"r"}, !.breaks = TRUE]
Inner == Archive("i", 1, "zip", <<File(Plain("bad", 1))>>)
Deep == Archive("z", 2, "zip",
  <<File(Archive("z2", 1, "zip", <<File(Inner), Odd("file", "corrupt")>>)),
    Odd("encrypted", "ok"), Odd("dir", "ok")>>)
Wide == Archive("z", 2, "mz",
  <<Odd("unreadable", "ok"), Odd("symlink", "ok"), Odd("file", "unsupported"),
    Odd("file", "unreadable")>>)
Bomb == Archive("z", 1, "zip", <<File(Plain("y", 2)), File(Plain("x", 4)), File(Inner)>>)
Spent == Archive("z", 1, "zip", <<File(Plain("x", 3)), File(Plain("y", 2)), File(Plain("bad", 1))>>)
Panics == Archive("z", 1, "zip", <<File(Plain("x", 4)), Odd("file", "panic")>>)
Whole == Archive("z", 1, "zip", <<File(Inner), File(Plain("x", 3))>>)
Mixed == Archive("z", 1, "zip", <<File(Plain("ok", 1)), File(Plain("ok", 1))>>)
Damaged == [Plain("z", 2) EXCEPT !.magic = "zip"]
Structured(format, s) == [Plain("e", 1) EXCEPT !.format = format, !.structure = s,
                            !.document_ext = TRUE, !.bidi = TRUE, !.in_temp = TRUE]
Shell == [Plain("e", 1) EXCEPT !.text = TRUE, !.shebang = TRUE, !.structure = Script]

\* One file under several names: readable, failing to read, at the size limit.
LinkedScene ==
  { Disk({A, L, H}, Plain("bad", 1), Bad), Disk({A, L}, Plain("e", 3), Bad),
    Disk({A, L}, [Plain("e", 1) EXCEPT !.read_fails = TRUE], Bad) }

MCScene ==
  { Disk({A, L, Z}, Bad, Deep), Disk({A, H}, Bad, Deep), Disk({A, Z}, Plain("ok", 2), Wide),
    Disk({A, Z}, Plain("pup", 3), Bomb), Disk({Z}, Bad, Panics), Disk({Z}, Bad, Whole),
    Disk({A, Z}, [Bad EXCEPT !.type = "fifo"], Damaged),
    Disk({A, Z}, [Bad EXCEPT !.opens = "locked"], Structured("pe", Pe)),
    Disk({A, Z}, [Bad EXCEPT !.read_fails = TRUE], Structured("elf", Elf)),
    Disk({A, Z}, Plain("big", 4), Shell), Disk({Z}, Bad, Spent),
    Disk({A, Z}, Plain("bad", 1), Mixed) }
  \cup {Following(d) : d \in LinkedScene}

MCDetector ==
  <<Database(<<Sig("s1", "bad", "malware"), Sig("s2", "pup", "unknown"),
               Sig("s3", "ok", "malware")>>), Yara, Heuristics>>

FollowScene == {Following(d) : d \in LinkedScene}

\* Two databases of hash signatures that list the same file; an archive in an
\* archive that is too large to be kept.
TwoDetector == <<Database(<<Sig("s1", "bad", "malware")>>), Database(<<Sig("t1", "bad", "malware")>>)>>
KnownScene ==
  {Disk({A, Z}, Plain("bad", 1), Plain("z", 1)),
   Disk({Z}, Bad, Archive("z", 1, "zip", <<File([Inner EXCEPT !.size = 3])>>))}
=============================================================================
