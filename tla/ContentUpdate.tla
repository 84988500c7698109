--------------------------- MODULE ContentUpdate ---------------------------
(***************************************************************************)
(* Installed content, the content state file, and the processes that share *)
(* them: `abyssal-warden update` (update/lib.rs, cli/update_cmd.rs), scans *)
(* that load bundles and `content verify` (cli/content.rs), over           *)
(* engine/content_state.rs.  Processes run at the same time, may be killed *)
(* between any two steps, and file operations may fail where the code      *)
(* handles a failure.  The update source is not trusted: it may answer     *)
(* with any timestamp and any bundle directory of the model.               *)
(***************************************************************************)
EXTENDS ContentTrust

CONSTANTS
  Proc,        \* processes of the command line tool
  Dir,         \* bundle directories a source or a user can offer
  Stamp,       \* timestamps a source can offer, each [ts, sig]
  Args,        \* trust arguments a process may be started with
  Sorted,      \* the bundle names in the order of their directory names
  Extends,     \* <<n, m>>: directory names of m begin as those of n do
  None,        \* no value
  Faults,      \* file operations that may fail: "save", "rename" (into and out of
               \* place), "put_back" (recover's rename), "remove"
  MaxTime, MaxRuns, MaxCrashes   \* bounds: clock, commands started, kills

ASSUME DirAssumption ==
  /\ None \notin Dir
  /\ \A d \in Dir : /\ d.manifest.name \in Name /\ d.manifest.sequence \in Nat
                     /\ d.manifest.revokes \subseteq Key
                     /\ d.sigs \in Seq(Range(d.sigs))
\* SHA-256 tells manifests apart.
ASSUME IdAssumption ==
  \A d, e \in Dir : d.manifest.id = e.manifest.id => d.manifest = e.manifest
ASSUME StampAssumption ==
  /\ None \notin Stamp
  /\ \A s \in Stamp : s.ts.bundle \in Name /\ s.ts.version \in Nat
\* What the arguments name are sets of trusted keys.
ASSUME ArgsAssumption ==
  \A args \in Args : FromArgsOk(args) => FromArgs(args) \in TrustSet /\ args.expired \in BOOLEAN
ASSUME ProcAssumption == None \notin Proc
\* None is neither an entry of the state nor a set-aside copy.
ASSUME NoneAssumption ==
  \A d \in Dir : /\ None # [sequence |-> d.manifest.sequence, id |-> d.manifest.id]
                 /\ \A n \in Name : None # [name |-> n, dir |-> d]
ASSUME BoundAssumption == MaxTime \in Nat \ {0} /\ MaxRuns \in Nat /\ MaxCrashes \in Nat

VARIABLES
  now,        \* the clock
  installed,  \* content_dir/<name>: a bundle directory, or None
  aside,      \* .old-<name>-<random> directories: [name, dir]
  staging,    \* .staging-<name>-<random>: [name, dir], dir None while partial
  file,       \* content-state.json
  lock,       \* holder of the exclusive lock on the state
  run,        \* what each process is doing
  runs, crashes,
  served,     \* history: per name, the bundle last given to a scan
  had         \* history: names that were ever installed

vars == <<now, installed, aside, staging, file, lock, run, runs, crashes, served, had>>
disk == <<installed, aside, staging>>
history == <<served, had>>

NoFile == [bundles |-> [n \in Name |-> None], revoked |-> {}, stamps |-> [n \in Name |-> 0]]
Idle == [pc |-> "idle"]
Start(op, args) ==
  [pc |-> "start", op |-> op, at |-> now, keys |-> FromArgs(args), expired |-> args.expired,
   state |-> NoFile, stamp |-> None, dirs |-> <<>>, dir |-> None,
   old |-> None]

Init ==
  /\ now = 1
  /\ installed = [n \in Name |-> None]
  /\ aside = {} /\ staging = {}
  /\ file = NoFile
  /\ lock = None
  /\ run = [p \in Proc |-> Idle]
  /\ runs = 0 /\ crashes = 0
  /\ served = [n \in Name |-> None] /\ had = {}

---------------------------------------------------------------------------
(* ContentState *)

\* Mutant: two releases of one sequence are not told apart.
CheckIgnoresId(state, m, floor) ==
  LET r == state.bundles[m.name]
  IN  IF m.sequence < floor \/ (r # None /\ m.sequence < r.sequence) THEN "rollback" ELSE "ok"

\* check: "ok", or why the bundle is refused.
Check(state, m, floor) ==
  LET r == state.bundles[m.name]
  IN  IF m.sequence < floor THEN "rollback"
      ELSE IF r = None THEN "ok"
      ELSE IF m.sequence < r.sequence THEN "rollback"
      ELSE IF m.sequence = r.sequence /\ m.id # r.id THEN "equivocation"
      ELSE "ok"

CheckTimestamp(state, ts) ==
  LET r == state.bundles[ts.bundle]
  IN  ts.version >= state.stamps[ts.bundle] /\ (r # None => ts.sequence >= r.sequence)

Record(state, m) ==
  LET r == state.bundles[m.name]
  IN  [state EXCEPT
        !.revoked = @ \cup m.revokes,
        !.bundles[m.name] = IF r = None \/ m.sequence > r.sequence
                            THEN [sequence |-> m.sequence, id |-> m.id] ELSE @]

RecordTimestamp(state, ts) ==
  [state EXCEPT !.stamps[ts.bundle] = Larger(@, ts.version)]

\* Mutant: the state is read without the lock.
OpenUnlocked(p) ==
  /\ run[p].pc = "open"
  /\ run' = [run EXCEPT ![p].state = file, ![p].keys = Revoke(@, file.revoked),
                        ![p].pc = IF run[p].op = "update" THEN "check" ELSE "load"]
  /\ UNCHANGED <<now, disk, file, lock, runs, crashes, history>>

\* open: wait for the lock, then read the file.  The keys lose those that
\* accepted bundles revoked.
Open(p) ==
  /\ run[p].pc = "open" /\ lock = None
  /\ lock' = p
  /\ run' = [run EXCEPT ![p].state = file, ![p].keys = Revoke(@, file.revoked),
                        ![p].pc = IF run[p].op = "update" THEN "check" ELSE "load"]
  /\ UNCHANGED <<now, disk, file, runs, crashes, history>>

\* save: a temporary file, fsync, rename, fsync of the directory.  An error
\* before the rename leaves the old file, an error after it the new one.
SaveResult(state) ==
  {[ok |-> TRUE, file |-> state]} \cup
  (IF "save" \in Faults THEN {[ok |-> FALSE, file |-> file], [ok |-> FALSE, file |-> state]} ELSE {})

\* The process ends; its lock goes with it.
Ended(p) == run' = [run EXCEPT ![p] = Idle] /\ lock' = (IF lock = p THEN None ELSE lock)

---------------------------------------------------------------------------
(* update *)

\* run_inner: trust from the arguments and, without a lock, the recorded
\* revocations; an update without trusted keys is refused.
StartUpdate(p, args) ==
  /\ run[p] = Idle /\ runs < MaxRuns
  /\ runs' = runs + 1
  /\ LET keys == Revoke(FromArgs(args), file.revoked)
     IN  /\ FromArgsOk(args) /\ keys.keys # {}
         /\ run' = [run EXCEPT ![p] = [Start("update", args) EXCEPT !.keys = keys, !.pc = "fetch"]]
  /\ UNCHANGED <<now, disk, file, lock, crashes, history>>

\* timestamp.json and its signature, before the state is opened.
FetchTimestamp(p) ==
  /\ run[p].pc = "fetch"
  /\ \E s \in Stamp : run' = [run EXCEPT ![p].stamp = s, ![p].pc = "open"]
  /\ UNCHANGED <<now, disk, file, lock, runs, crashes, history>>

Fresh(r) ==
  /\ VerifyTimestamp(r.keys, r.stamp.ts, r.stamp.sig, r.at, r.expired) = "ok"
  /\ CheckTimestamp(r.state, r.stamp.ts)

AcceptTimestamp(p) ==
  /\ run[p].pc = "check"
  /\ IF Fresh(run[p])
     THEN run' = [run EXCEPT ![p].pc = "recover"] /\ UNCHANGED lock
     ELSE Ended(p)
  /\ UNCHANGED <<now, disk, file, runs, crashes, history>>

\* recover: the directories of bundle n are found by the beginning of their
\* names.  If n is not installed, one set-aside copy is put back; all that are
\* left in the list (that one too, if it could not be renamed) and the stale
\* staging directories are removed (a removal that fails is ignored).
OfName(s, n) == {x \in s : x.name = n \/ <<n, x.name>> \in Extends}

Recover(p) ==
  /\ run[p].pc = "recover"
  /\ LET n     == run[p].stamp.ts.bundle
         old   == OfName(aside, n)
         stale == OfName(staging, n)
     IN  \E kept \in (IF "remove" \in Faults THEN SUBSET (old \cup stale) ELSE {{}}) :
           /\ staging' = staging \ (stale \ kept)
           /\ \/ /\ installed[n] = None
                 /\ \E back \in old :
                      /\ installed' = [installed EXCEPT ![n] = back.dir]
                      /\ aside' = aside \ ({back} \cup (old \ kept))
              \/ /\ installed[n] # None \/ old = {} \/ "put_back" \in Faults
                 /\ installed' = installed /\ aside' = aside \ (old \ kept)
  /\ run' = [run EXCEPT ![p].pc = "compare"]
  /\ UNCHANGED <<now, file, lock, runs, crashes, history>>

IsCurrent(r) ==
  LET d == installed[r.stamp.ts.bundle] IN d # None /\ d.manifest.id = r.stamp.ts.manifest

\* Already current: only the timestamp is recorded.
AlreadyCurrent(p) ==
  /\ run[p].pc = "compare" /\ IsCurrent(run[p])
  /\ \E s \in SaveResult(RecordTimestamp(run[p].state, run[p].stamp.ts)) : file' = s.file
  /\ Ended(p)
  /\ UNCHANGED <<now, disk, runs, crashes, history>>

CreateStaging(p) ==
  /\ run[p].pc = "compare" /\ ~IsCurrent(run[p])
  /\ staging' = staging \cup {[name |-> run[p].stamp.ts.bundle, dir |-> None]}
  /\ run' = [run EXCEPT ![p].pc = "download"]
  /\ UNCHANGED <<now, installed, aside, file, lock, runs, crashes, history>>

\* What the source serves is kept only if it is what the timestamp names.
Matches(d, ts) ==
  /\ d.manifest.id = ts.manifest
  /\ ValidManifest(d.manifest)
  /\ d.manifest.name = ts.bundle /\ d.manifest.sequence = ts.sequence
  /\ d.sigs # <<>>
  /\ \A f \in DOMAIN d.manifest.files : ListedOk(d.manifest, d.content, f)

Download(p) ==
  /\ run[p].pc = "download"
  /\ LET ts == run[p].stamp.ts
     IN  \E d \in Dir :
           /\ Matches(d, ts)
           /\ staging' = (staging \ {[name |-> ts.bundle, dir |-> None]})
                            \cup {[name |-> ts.bundle, dir |-> d]}
           /\ run' = [run EXCEPT ![p].dir = d, ![p].pc = "verify"]
  /\ UNCHANGED <<now, installed, aside, file, lock, runs, crashes, history>>

\* The Staging guard removes the staging directory when the update fails.
Drop(p) ==
  staging' = staging \ {[name |-> run[p].stamp.ts.bundle, dir |-> run[p].dir]}

\* Any fetch error, missing file or mismatch ends the update.
DownloadFails(p) ==
  /\ run[p].pc = "download"
  /\ Drop(p) /\ Ended(p)
  /\ UNCHANGED <<now, installed, aside, file, runs, crashes, history>>

\* The staged bundle is loaded as a scan would, checked against the state and
\* parsed (manifest.usable: every database and rule file compiles).
Acceptable(r) ==
  LET m == r.dir.manifest
  IN  /\ LoadBundle(r.keys, r.dir, r.at, r.expired) = "ok"
      /\ Check(r.state, m, r.keys.floor[m.name]) = "ok"
      /\ m.usable

VerifyStaged(p) ==
  /\ run[p].pc = "verify"
  /\ IF Acceptable(run[p])
     THEN run' = [run EXCEPT ![p].pc = "aside"] /\ UNCHANGED <<lock, staging>>
     ELSE Drop(p) /\ Ended(p)
  /\ UNCHANGED <<now, installed, aside, file, runs, crashes, history>>

\* Mutant: the installed bundle is removed to make room.
SetAsideRemoves(p) ==
  /\ run[p].pc = "aside"
  /\ installed' = [installed EXCEPT ![run[p].stamp.ts.bundle] = None]
  /\ run' = [run EXCEPT ![p].pc = "swap"]
  /\ UNCHANGED <<now, aside, staging, file, lock, runs, crashes, history>>

SetAside(p) ==
  /\ run[p].pc = "aside"
  /\ LET n == run[p].stamp.ts.bundle
     IN  IF installed[n] = None
         THEN /\ run' = [run EXCEPT ![p].pc = "swap"]
              /\ UNCHANGED <<installed, aside>>
         ELSE LET old == [name |-> n, dir |-> installed[n]]
              IN  /\ run' = [run EXCEPT ![p].pc = "swap", ![p].old = old]
                  /\ aside' = aside \cup {old}
                  /\ installed' = [installed EXCEPT ![n] = None]
  /\ UNCHANGED <<now, staging, file, lock, runs, crashes, history>>

SetAsideFails(p) ==
  /\ "rename" \in Faults /\ run[p].pc = "aside" /\ installed[run[p].stamp.ts.bundle] # None
  /\ Drop(p) /\ Ended(p)
  /\ UNCHANGED <<now, installed, aside, file, runs, crashes, history>>

SwapIn(p) ==
  /\ run[p].pc = "swap"
  /\ LET n == run[p].stamp.ts.bundle
     IN  /\ installed' = [installed EXCEPT ![n] = run[p].dir]
         /\ had' = had \cup {n}
  /\ Drop(p)
  /\ run' = [run EXCEPT ![p].pc = "record"]
  /\ UNCHANGED <<now, aside, file, lock, runs, crashes, served>>

\* The staged directory cannot be moved: the old copy goes back if it can.
SwapFails(p) ==
  /\ "rename" \in Faults /\ run[p].pc = "swap"
  /\ LET n == run[p].stamp.ts.bundle
     IN  \/ /\ run[p].old # None
            /\ installed' = [installed EXCEPT ![n] = run[p].old.dir]
            /\ aside' = aside \ {run[p].old}
         \/ UNCHANGED <<installed, aside>>
  /\ Drop(p) /\ Ended(p)
  /\ UNCHANGED <<now, file, runs, crashes, history>>

RecordUpdate(p) ==
  /\ run[p].pc = "record"
  /\ LET state == RecordTimestamp(Record(run[p].state, run[p].dir.manifest), run[p].stamp.ts)
     IN  \E s \in SaveResult(state) :
           /\ file' = s.file
           /\ IF s.ok THEN run' = [run EXCEPT ![p].pc = "cleanup"] /\ UNCHANGED lock
                      ELSE Ended(p)
  /\ UNCHANGED <<now, disk, runs, crashes, history>>

RemoveOld(p) ==
  /\ run[p].pc = "cleanup"
  /\ \/ aside' = aside \ {run[p].old}
     \/ "remove" \in Faults /\ UNCHANGED aside
  /\ Ended(p)
  /\ UNCHANGED <<now, installed, staging, file, runs, crashes, history>>

---------------------------------------------------------------------------
(* Scans with bundles, and content verify *)

\* bundle_dirs: --content directories, then with --installed every directory
\* that holds a manifest in the order of their names, listed without the lock.
Position(n) == CHOOSE i \in DOMAIN Sorted : Sorted[i] = n
Found ==
  {names \in UNION {[1..k -> Name] : k \in 0..Cardinality(Name)} :
     /\ Range(names) = {n \in Name : installed[n] # None}
     /\ \A i, j \in DOMAIN names : i < j => Position(names[i]) < Position(names[j])}

StartScan(p, args, op, given, useInstalled) ==
  /\ run[p] = Idle /\ runs < MaxRuns
  /\ runs' = runs + 1
  /\ FromArgsOk(args)
  /\ \E names \in (IF useInstalled THEN Found ELSE {<<>>}) :
       /\ useInstalled => names # <<>>
       /\ LET listed == given \o [i \in DOMAIN names |-> [name |-> names[i], dir |-> None]]
          IN  /\ listed # <<>>
              /\ run' = [run EXCEPT ![p] =
                           [Start(op, args) EXCEPT !.dirs = listed, !.pc = "open"]]
  /\ UNCHANGED <<now, disk, file, lock, crashes, history>>

\* A directory given by its content, or an installed one as it is now.
DirOf(d) == IF d.dir = None THEN installed[d.name] ELSE d.dir

ManifestAt(r, i) == DirOf(r.dirs[i]).manifest

\* The keys for the i-th bundle: the revocations of those before it apply.
KeysAt(r, i) == Revoke(r.keys, UNION {ManifestAt(r, j).revokes : j \in 1..(i - 1)})

\* One bundle of load_bundles: loaded, the only one of its name, not older than
\* what was accepted, and parsed.
LoadsAt(r, i) ==
  LET m == ManifestAt(r, i)
  IN  /\ LoadBundle(KeysAt(r, i), DirOf(r.dirs[i]), r.at, r.expired) = "ok"
      /\ \A j \in 1..(i - 1) : ManifestAt(r, j).name # m.name
      /\ Check(r.state, m, r.keys.floor[m.name]) = "ok"
      /\ m.usable

\* load_bundles: all of them load, or none does.
LoadBundles(r) ==
  /\ \A i \in DOMAIN r.dirs : DirOf(r.dirs[i]) # None
  /\ \A i \in DOMAIN r.dirs : LoadsAt(r, i)

Loaded(r) == {ManifestAt(r, i) : i \in DOMAIN r.dirs}

\* Nothing is recorded unless every bundle loads; a scan records and saves, a
\* verification only reports.
RecordAll(state, ms) ==
  [bundles |-> [n \in Name |-> IF \E m \in ms : m.name = n
                               THEN Record(state, CHOOSE m \in ms : m.name = n).bundles[n]
                               ELSE state.bundles[n]],
   revoked |-> state.revoked \cup UNION {m.revokes : m \in ms},
   stamps  |-> state.stamps]

Load(p) ==
  /\ run[p].pc = "load"
  /\ IF LoadBundles(run[p]) /\ run[p].op = "scan"
     THEN \E s \in SaveResult(RecordAll(run[p].state, Loaded(run[p]))) :
            /\ file' = s.file
            /\ served' = [n \in Name |->
                 IF s.ok /\ \E m \in Loaded(run[p]) : m.name = n
                 THEN CHOOSE m \in Loaded(run[p]) : m.name = n ELSE served[n]]
     ELSE UNCHANGED <<file, served>>
  /\ Ended(p)
  /\ UNCHANGED <<now, disk, runs, crashes, had>>

---------------------------------------------------------------------------
(* The environment *)

Tick == now < MaxTime /\ now' = now + 1
        /\ UNCHANGED <<disk, file, lock, run, runs, crashes, history>>

\* A process is killed: its directories stay, its lock is released.
Kill(p) ==
  /\ run[p] # Idle /\ crashes < MaxCrashes
  /\ crashes' = crashes + 1
  /\ Ended(p)
  /\ UNCHANGED <<now, disk, file, runs, history>>

Given == {<<>>} \cup {<<[name |-> d.manifest.name, dir |-> d]>> : d \in Dir}

Next ==
  \/ \E p \in Proc, args \in Args : StartUpdate(p, args)
  \/ \E p \in Proc, args \in Args, op \in {"scan", "verify"}, given \in Given, i \in BOOLEAN :
       StartScan(p, args, op, given, i)
  \/ \E p \in Proc :
       \/ FetchTimestamp(p) \/ Open(p) \/ AcceptTimestamp(p) \/ Recover(p)
       \/ AlreadyCurrent(p) \/ CreateStaging(p) \/ Download(p) \/ DownloadFails(p)
       \/ VerifyStaged(p) \/ SetAside(p) \/ SetAsideFails(p) \/ SwapIn(p) \/ SwapFails(p)
       \/ RecordUpdate(p) \/ RemoveOld(p) \/ Load(p) \/ Kill(p)
  \/ Tick

Spec == Init /\ [][Next]_vars

---------------------------------------------------------------------------
(* Properties *)

\* What the state file can hold, and what a command keeps.
Offered == {d.manifest : d \in Dir}
Accepted == {[sequence |-> m.sequence, id |-> m.id] : m \in Offered}
State ==
  [bundles: [Name -> Accepted \cup {None}], revoked: SUBSET Key, stamps: [Name -> Nat]]
Copy == [name: Name, dir: Dir]
Locked ==
  {"check", "recover", "compare", "download", "verify", "aside", "swap", "record", "cleanup",
   "load"}
Run ==
  [pc: {"fetch", "open"} \cup Locked, op: {"update", "scan", "verify"}, at: 1..MaxTime,
   keys: TrustSet, expired: BOOLEAN, state: State, stamp: Stamp \cup {None},
   dirs: Seq([name: Name, dir: Dir \cup {None}]), dir: Dir \cup {None}, old: Copy \cup {None}]

\* Every variable stays in its type: installed directories, set-aside copies and
\* staging directories, the state file, the lock and the running commands.
TypeOK ==
  /\ now \in 1..MaxTime /\ runs \in 0..MaxRuns /\ crashes \in 0..MaxCrashes
  /\ installed \in [Name -> Dir \cup {None}]
  /\ aside \subseteq Copy
  /\ staging \subseteq [name: Name, dir: Dir \cup {None}]
  /\ file \in State
  /\ lock \in Proc \cup {None}
  /\ run \in [Proc -> Run \cup {Idle}]
  /\ served \in [Name -> Offered \cup {None}] /\ had \in SUBSET Name

\* Rollback protection: whatever processes run side by side and wherever they
\* are killed, a scan never works with an older release of a bundle than an
\* earlier scan did, nor with another release of the same sequence
\* (ContentState::open, check, record, save).
NoRollback ==
  [][\A n \in Name : served[n] # None /\ served'[n] # served[n] =>
        served'[n].sequence > served[n].sequence]_vars

\* The state file only moves forward: no concurrent or interrupted command takes
\* back an accepted sequence, a revocation or a timestamp version, which a
\* read-modify-write without the lock would do.
StateOnlyGrows ==
  [][/\ file.revoked \subseteq file'.revoked
     /\ \A n \in Name :
          /\ file'.stamps[n] >= file.stamps[n]
          /\ file.bundles[n] # None =>
               /\ file'.bundles[n] # None
               /\ \/ file'.bundles[n] = file.bundles[n]
                  \/ file'.bundles[n].sequence > file.bundles[n].sequence]_vars

\* d is all of a release of bundle n.
Whole(d, n) ==
  d.manifest.name = n /\ \A f \in DOMAIN d.manifest.files : ListedOk(d.manifest, d.content, f)

\* An interrupted swap loses nothing: a bundle that was installed is still
\* there, complete and under its own name, or a copy of it is set aside under
\* its name for recover, after any kills and failed renames (other than the
\* one by which recover itself puts a copy back).
CopySurvives ==
  \A n \in had :
    IF installed[n] = None THEN \E x \in aside : x.name = n /\ Whole(x.dir, n)
    ELSE Whole(installed[n], n)

\* A scan never gives the detectors a bundle that counts on a key which a
\* bundle accepted earlier had revoked.
RevokedKeysSignNothing ==
  [][\A n \in Name : served'[n] # served[n] =>
       \E d \in Dir : /\ d.manifest = served'[n]
                      /\ {s.by : s \in Range(d.sigs)} \ file.revoked # {}]_vars

---------------------------------------------------------------------------
(* The inductive invariants ContentUpdateProofs proves *)

\* The lock is held by the command that has opened the state, and by no other.
LockAgrees == \A p \in Proc : run[p].pc \in Locked <=> lock = p

\* Until it saves, that command works on what the file holds, with keys that
\* have lost those the file revokes.
StateAgrees ==
  \A p \in Proc : run[p].pc \in Locked \ {"cleanup"} =>
    /\ run[p].state = file
    /\ \A k \in run[p].keys.keys : k.id \in file.revoked => k.revoked

\* An update works for the bundle its timestamp names, with what it downloaded.
UpdateAgrees ==
  \A p \in Proc : run[p] # Idle =>
    /\ run[p].pc \in Locked \ {"load"} \/ (run[p].pc = "open" /\ run[p].op = "update") =>
         run[p].stamp \in Stamp
    /\ run[p].pc \in {"verify", "aside", "swap", "record", "cleanup"} =>
         run[p].dir \in Dir /\ Matches(run[p].dir, run[p].stamp.ts)

\* What a scan was given is in the file, or the file is ahead of it.
ServedAgrees ==
  \A n \in Name : served[n] # None =>
    /\ file.bundles[n] # None
    /\ \/ file.bundles[n].sequence > served[n].sequence
       \/ /\ file.bundles[n].sequence = served[n].sequence
          /\ file.bundles[n].id = served[n].id

IInv == TypeOK /\ LockAgrees /\ StateAgrees /\ UpdateAgrees /\ ServedAgrees

\* Directories are whole wherever they are, a bundle that was installed is in
\* place or set aside, and the update that set it aside has not lost it.
CopyInv ==
  /\ \A n \in Name : installed[n] # None => Whole(installed[n], n)
  /\ \A x \in aside : Whole(x.dir, x.name)
  /\ \A n \in had : installed[n] # None \/ \E x \in aside : x.name = n
  /\ \A p \in Proc :
       /\ run[p].pc \in {"swap", "record", "cleanup"} /\ run[p].old # None =>
            run[p].old.name = run[p].stamp.ts.bundle
       /\ run[p] # Idle /\ run[p].pc \notin {"swap", "record", "cleanup"} => run[p].old = None
       /\ run[p].pc = "swap" /\ run[p].old # None => run[p].old \in aside
       /\ run[p].pc \in {"record", "cleanup"} => installed[run[p].stamp.ts.bundle] # None
=============================================================================
