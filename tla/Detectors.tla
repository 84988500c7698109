----------------------------- MODULE Detectors -----------------------------
(***************************************************************************)
(* The detectors a scan may run and what their findings lead to, as        *)
(* operators from inputs to results: exact-hash signatures                 *)
(* (engine/signatures.rs), YARA rules (yara/lib.rs), heuristics            *)
(* (heuristics/), the policy of automatic remediation                      *)
(* (remediation/policy.rs) and the limits of a scan (core/config.rs).      *)
(* ScanFlow calls them.                                                    *)
(*                                                                         *)
(* Text (names, descriptions, evidence) is left out; a text field that is  *)
(* checked is the Boolean "it is acceptable".  The file formats' parsers   *)
(* and the YARA-X engine are external: an object carries what they read.   *)
(***************************************************************************)
EXTENDS Integers, FiniteSets, Sequences, SequencesExt

CONSTANTS
  MaxDatabaseBytes, MaxSignatureCount,  \* MAX_DATABASE_BYTES, MAX_SIGNATURES
  MaxSourceBytes, MaxRules,             \* MAX_SOURCE_BYTES, MAX_RULES
  FewImports, BlobRun                   \* FEW_IMPORTS, BLOB_RUN

Kind       == {"known_indicator", "suspicious", "heuristic", "informational"}
Severity   == {"info", "low", "medium", "high", "critical"}
Confidence == {"low", "medium", "high", "confirmed"}
Category   == {"malware", "potentially_unwanted", "test_indicator", "unknown"}
Action     == {"none", "review", "quarantine"}
Status     == {"not_attempted", "quarantined", "not_eligible", "failed", "allowed"}

Finding(detector, rule, kind, severity, confidence, category, action, target) ==
  [detector |-> detector, rule |-> rule, kind |-> kind, severity |-> severity,
   confidence |-> confidence, category |-> category, action |-> action,
   target |-> target, status |-> "not_attempted"]

\* A file is identified by its path and hash, a member by its chain of names as well.
Target(obs) ==
  [type |-> IF obs.chain = <<>> THEN "file" ELSE "archive_member",
   path |-> obs.path, member |-> obs.chain, sha256 |-> obs.sha256]

---------------------------------------------------------------------------
(* Exact-hash signatures *)

SignatureOk(sig) == sig.id_ok /\ sig.text_ok /\ sig.rule_version # 0

ValidSignatures(sigs) ==
  /\ Len(sigs) <= MaxSignatureCount
  /\ \A i \in DOMAIN sigs : SignatureOk(sigs[i])
  /\ \A i, j \in DOMAIN sigs :
       i # j => sigs[i].id # sigs[j].id /\ sigs[i].sha256 # sigs[j].sha256

\* HashSignatureDatabase::from_slice: the header is judged before the rest.
ValidDatabase(db) ==
  /\ db.size <= MaxDatabaseBytes
  /\ db.format = "hash-signatures" /\ db.format_version = 1
  /\ db.wellformed /\ db.meta_ok
  /\ ValidSignatures(db.signatures)

Lookup(db, sha256) == SelectSeq(db.signatures, LAMBDA s : s.sha256 = sha256)

HashAction(category) ==
  CASE category = "malware"        -> "quarantine"
    [] category = "test_indicator" -> "none"
    [] OTHER                       -> "review"

HashFindings(db, obs) ==
  {Finding("hash", s.id, "known_indicator", s.severity, "confirmed", s.category,
           HashAction(s.category), Target(obs)) : s \in ToSet(Lookup(db, obs.sha256))}

---------------------------------------------------------------------------
(* YARA rules *)

MetaKeys == {"aw_kind", "aw_confidence", "aw_severity", "aw_category", "aw_name",
             "aw_rule_version"}

MetaOk(m) ==
  CASE m.key = "aw_kind"         -> m.value \in Kind
    [] m.key = "aw_confidence"   -> m.value \in Confidence \ {"confirmed"}
    [] m.key = "aw_severity"     -> m.value \in Severity
    [] m.key = "aw_category"     -> m.value \in Category
    [] m.key = "aw_name"         -> m.value = "printable"
    [] m.key = "aw_rule_version" -> m.value \in Nat \ {0}
    [] m.key = "aw_other"        -> FALSE
    [] OTHER                     -> TRUE

DefaultMeta ==
  [kind |-> "suspicious", confidence |-> "medium", severity |-> "medium",
   category |-> "unknown", name |-> "identifier", rule_version |-> 0]

\* parse_meta: the last entry of a key counts.
ParseMeta(meta) ==
  LET put(m, e) ==
        CASE e.key = "aw_kind"         -> [m EXCEPT !.kind = e.value]
          [] e.key = "aw_confidence"   -> [m EXCEPT !.confidence = e.value]
          [] e.key = "aw_severity"     -> [m EXCEPT !.severity = e.value]
          [] e.key = "aw_category"     -> [m EXCEPT !.category = e.value]
          [] e.key = "aw_name"         -> [m EXCEPT !.name = e.value]
          [] e.key = "aw_rule_version" -> [m EXCEPT !.rule_version = e.value]
          [] OTHER                     -> m
  IN  FoldLeft(put, DefaultMeta, meta)

RecommendedAction(m) ==
  CASE m.category = "test_indicator" \/ m.kind = "informational" -> "none"
    [] m.kind = "known_indicator" /\ m.category = "malware"
         /\ m.confidence \in {"high", "confirmed"}               -> "quarantine"
    [] OTHER                                                     -> "review"

SourceSize(sources) == FoldLeft(LAMBDA n, s : n + s.size, 0, sources)
RulesOf(sources) == FlattenSeq([i \in DOMAIN sources |-> sources[i].rules])

\* YaraDetector::compile.
Compiles(sources) ==
  /\ sources # <<>>
  /\ SourceSize(sources) <= MaxSourceBytes
  /\ \A i \in DOMAIN sources : sources[i].namespace_ok /\ sources[i].compiles
  /\ Len(RulesOf(sources)) <= MaxRules
  /\ \A r \in ToSet(RulesOf(sources)) : \A m \in ToSet(r.meta) : MetaOk(m)

YaraFindings(sources, obs) ==
  {LET m == ParseMeta(r.meta)
   IN  Finding("yara", r.id, m.kind, m.severity, m.confidence, m.category,
               RecommendedAction(m), Target(obs)) :
     r \in {x \in ToSet(RulesOf(sources)) : x.id \in obs.object.matches}}

---------------------------------------------------------------------------
(* Heuristics *)

Rule(kind, severity, confidence) ==
  [kind |-> kind, severity |-> severity, confidence |-> confidence]

NameRules ==
  [DISGUISED_EXECUTABLE |-> Rule("suspicious", "high", "medium"),
   DOUBLE_EXTENSION     |-> Rule("suspicious", "medium", "medium"),
   BIDI_NAME            |-> Rule("suspicious", "high", "medium"),
   TEMP_EXECUTABLE      |-> Rule("heuristic", "low", "low"),
   MULTIPLE             |-> Rule("suspicious", "medium", "medium")]

PeRules ==
  [PE_RWX_SECTION         |-> Rule("heuristic", "medium", "low"),
   PE_ENTRY_OUTSIDE_CODE  |-> Rule("heuristic", "medium", "low"),
   PE_KNOWN_PACKER        |-> Rule("heuristic", "low", "medium"),
   PE_HIGH_ENTROPY        |-> Rule("heuristic", "low", "low"),
   PE_INJECTION_IMPORTS   |-> Rule("heuristic", "medium", "low"),
   PE_EMBEDDED_EXECUTABLE |-> Rule("heuristic", "medium", "low"),
   PE_MALFORMED           |-> Rule("heuristic", "low", "low")]

ElfRules ==
  [ELF_RWX_SEGMENT        |-> Rule("heuristic", "medium", "low"),
   ELF_EXEC_STACK         |-> Rule("heuristic", "low", "low"),
   ELF_UPX                |-> Rule("heuristic", "medium", "medium"),
   ELF_NO_SECTIONS        |-> Rule("heuristic", "low", "low"),
   ELF_UNSAFE_RPATH       |-> Rule("suspicious", "medium", "medium"),
   ELF_ENTRY_OUTSIDE_CODE |-> Rule("heuristic", "medium", "low"),
   ELF_ODD_INTERPRETER    |-> Rule("suspicious", "medium", "medium")]

ScriptRules ==
  [SCRIPT_DOWNLOAD_EXEC    |-> Rule("heuristic", "medium", "low"),
   SCRIPT_REVERSE_SHELL    |-> Rule("suspicious", "high", "medium"),
   SCRIPT_ENCODED_EXEC     |-> Rule("suspicious", "medium", "low"),
   SCRIPT_LOLBIN           |-> Rule("suspicious", "medium", "low"),
   SCRIPT_LOADER_INJECTION |-> Rule("heuristic", "low", "low"),
   SCRIPT_ENCODED_BLOB     |-> Rule("heuristic", "low", "low")]

HeuristicRule(id) ==
  CASE id \in DOMAIN NameRules -> NameRules[id]
    [] id \in DOMAIN PeRules   -> PeRules[id]
    [] id \in DOMAIN ElfRules  -> ElfRules[id]
    [] OTHER                   -> ScriptRules[id]

\* The rules chosen by those of a set of facts that hold.
Named(facts) == {f[2] : f \in {x \in facts : x[1]}}

\* pe::analyze and pe_rules.  A section has the flags exec, code, write and
\* entry (it holds the entry point; the last one that does counts); hollow and
\* inject say which import sets are complete; embedded that the overlay holds a
\* PE outside the signature.
LooksPacked(pe) == ~pe.efi /\ pe.high_entropy /\ pe.imports <= FewImports

PeFacts(pe) ==
  IF ~pe.parses THEN {"PE_MALFORMED"}
  ELSE LET all     == ToSet(pe.sections)
           holders == SelectSeq(pe.sections, LAMBDA s : s.entry)
           inside  == holders # <<>> /\ (Last(holders).exec \/ Last(holders).code)
       IN  Named({<<\E s \in all : s.exec /\ s.write, "PE_RWX_SECTION">>,
                  <<pe.entry # 0 /\ ~inside, "PE_ENTRY_OUTSIDE_CODE">>,
                  <<\E s \in all : s.packer, "PE_KNOWN_PACKER">>,
                  <<LooksPacked(pe), "PE_HIGH_ENTROPY">>,
                  <<pe.inject \/ pe.hollow, "PE_INJECTION_IMPORTS">>,
                  <<pe.embedded, "PE_EMBEDDED_EXECUTABLE">>})

\* elf::analyze and elf_rules: what the parser refuses gives no facts.
ElfFacts(elf) ==
  IF ~elf.parses THEN {}
  ELSE LET loads  == {s \in ToSet(elf.segments) : s.type = "load"}
           stacks == SelectSeq(elf.segments, LAMBDA s : s.type = "stack")
           inside == \E s \in loads : s.exec /\ s.entry
       IN  Named({<<\E s \in loads : s.write /\ s.exec, "ELF_RWX_SEGMENT">>,
                  <<stacks # <<>> /\ Last(stacks).exec, "ELF_EXEC_STACK">>,
                  <<elf.executable /\ elf.upx, "ELF_UPX">>,
                  <<elf.executable /\ elf.no_table /\ loads # {}, "ELF_NO_SECTIONS">>,
                  <<elf.executable /\ elf.entry # 0 /\ loads # {} /\ ~inside,
                    "ELF_ENTRY_OUTSIDE_CODE">>,
                  <<elf.bad_rpath, "ELF_UNSAFE_RPATH">>,
                  <<elf.odd_interpreter, "ELF_ODD_INTERPRETER">>})

\* script::analyze and script_rules: patterns count outside comments only.
PatternRule ==
  [DownloadExec |-> "SCRIPT_DOWNLOAD_EXEC", ReverseShell |-> "SCRIPT_REVERSE_SHELL",
   EncodedExec |-> "SCRIPT_ENCODED_EXEC", LolBin |-> "SCRIPT_LOLBIN",
   LoaderInjection |-> "SCRIPT_LOADER_INJECTION"]

ScriptFacts(script) ==
  {PatternRule[p] : p \in UNION {l.patterns : l \in {x \in script.lines : ~x.comment}}}
    \cup Named({<<script.shell /\ script.base64_run >= BlobRun, "SCRIPT_ENCODED_BLOB">>})

IsScript(object) == object.text /\ (object.shebang \/ object.script_ext)

NameFacts(obs) ==
  LET executable == obs.object.format \in {"pe", "elf", "macho"}
  IN  Named({<<executable /\ obs.object.document_ext, "DISGUISED_EXECUTABLE">>,
             <<obs.object.double_ext, "DOUBLE_EXTENSION">>,
             <<obs.object.bidi, "BIDI_NAME">>,
             <<executable /\ obs.chain = <<>> /\ obs.object.in_temp, "TEMP_EXECUTABLE">>})

\* analyze: three distinct rules add one more.
Facts(obs) ==
  LET o == obs.object
      found == NameFacts(obs) \cup
        (CASE o.format = "pe"  -> PeFacts(o.structure)
           [] o.format = "elf" -> ElfFacts(o.structure)
           [] OTHER            -> IF IsScript(o) THEN ScriptFacts(o.structure) ELSE {})
  IN  found \cup Named({<<Cardinality(found) >= 3, "MULTIPLE">>})

HeuristicFindings(obs) ==
  {LET r == HeuristicRule(id)
   IN  Finding("heuristics", id, r.kind, r.severity, r.confidence, "unknown", "review",
               Target(obs)) : id \in Facts(obs)}

---------------------------------------------------------------------------
(* A detector: what it needs, what loading it refuses, what it finds *)

NeedsContent(d) == d.type \in {"yara", "heuristics"}

Loads(d) ==
  CASE d.type = "hash" -> ValidDatabase(d.database)
    [] d.type = "yara" -> Compiles(d.sources)
    [] OTHER           -> TRUE

Findings(d, obs) ==
  CASE d.type = "hash" -> HashFindings(d.database, obs)
    [] d.type = "yara" -> YaraFindings(d.sources, obs)
    [] OTHER           -> HeuristicFindings(obs)

---------------------------------------------------------------------------
(* Automatic remediation *)

\* auto_quarantine_target.  Which paths lie below a system directory is given.
Eligible(f, protected) ==
  /\ f.kind = "known_indicator" /\ f.confidence = "confirmed"
  /\ f.category = "malware"
  /\ f.action = "quarantine"
  /\ f.target.type = "file"
  /\ f.target.path \notin protected

---------------------------------------------------------------------------
(* ScanConfig::validate *)

MaxWorkers == 64

ConfigOk(c) ==
  /\ c.roots # {}
  /\ c.max_file_size # 0 /\ c.max_recorded_findings # 0
  /\ c.file_timeout # 0 /\ c.scan_timeout # 0     \* an absent scan limit is not 0
  /\ c.archives => c.max_depth # 0 /\ c.max_entries # 0 /\ c.max_total_bytes # 0
                     /\ c.max_member_content # 0
  /\ c.workers \in 1..MaxWorkers
=============================================================================
