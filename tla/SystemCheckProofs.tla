------------------------- MODULE SystemCheckProofs -------------------------
(***************************************************************************)
(* Theorems about SystemCheck, for any systems inspected, any number of    *)
(* processes and modules that come and go while they are looked at.        *)
(*                                                                         *)
(* WatchInv says what the looks at /proc and at the modules have learnt so *)
(* far.  Most steps leave what it speaks of alone (Quiet); each of the     *)
(* others, Watching, is a case of its lemmas.                              *)
(***************************************************************************)
EXTENDS SystemCheck, TLAPS, SequenceTheorems, WellFoundedInduction

(* Findings of other kinds.                                                *)
Other(f) == f[1] \notin {"hidden_process", "module_hidden"}

Searching == {"list", "sweep", "relist", "confirm"}

(* Most steps leave alone what is watched.                                 *)
Quiet ==
    /\ UNCHANGED <<scene, look, env>>
    /\ pc' = pc \/ pc' \notin Searching
    /\ \A f \in findings' \ findings : Other(f)

Watching ==
    \/ ReadModules \/ ModulesReport
    \/ StartListing \/ ListOne \/ ListDone \/ SweepOne \/ SweepStop \/ Relist \/ HiddenReport
    \/ ProcStart \/ ProcExit \/ ModuleChange

(* The rules an entry can break are not those of processes and modules.    *)
LEMMA RecordRules ==
    ASSUME NEW e, NEW exes
    PROVE  Record(e, exes) \subseteq {"command", "temp_exec", "hidden_exec", "writable_exec",
                                      "writable_definition", "ld_so_preload", "pam"}
BY DEF Record

(* Findings without a subject are of the rules given.                      *)
LEMMA PlainRules ==
    ASSUME NEW rules, "hidden_process" \notin rules, "module_hidden" \notin rules
    PROVE  \A f \in Plain(rules) : Other(f)
BY DEF Plain, Other

(* Every step is one or the other.                                        *)
LEMMA QuietSteps ==
    ASSUME [Next]_vars
    PROVE  Quiet \/ Watching
<1> USE DEF Quiet, Finish, Searching, look, env, ctx
<1>1. CASE OpenRoot BY <1>1 DEF OpenRoot
<1>2. CASE ReadPasswd BY <1>2 DEF ReadPasswd
<1>3. CASE \E f \in run.todo : Inspect(f)
  <2>1. PICK f \in run.todo : Inspect(f)
    BY <1>3
  <2>2. \A r \in UNION {Record(e, scene.exes) : e \in Entries(PlaceOf(f), f)} :
          r \notin {"hidden_process", "module_hidden"}
    BY RecordRules
  <2>3. \A g \in Plain(UNION {Record(e, scene.exes) : e \in Entries(PlaceOf(f), f)}) : Other(g)
    BY <2>2, PlainRules
  <2>4. \A g \in findings' \ findings : Other(g)
    BY <2>1, <2>3 DEF Inspect
  <2>5. QED
    BY <2>1, <2>4 DEF Inspect
<1>4. CASE InspectStop BY <1>4 DEF InspectStop
<1>5. CASE FinishPersistence BY <1>5 DEF FinishPersistence
<1>6. CASE Boot
  <2>1. PICK missed : findings' = findings \cup Plain({x \in scene.flags : BootSees(x)} \ missed)
    BY <1>6 DEF Boot
  <2>2. ~BootSees("hidden_process") /\ ~BootSees("module_hidden")
    BY DEF BootSees
  <2>3. \A f \in findings' \ findings : Other(f)
    BY <2>1, <2>2, PlainRules
  <2>4. QED
    BY <1>6, <2>3 DEF Boot
<1>7. CASE SelfIntegrity
  <2>1. \A f \in findings' \ findings : Other(f)
    BY <1>7, PlainRules DEF SelfIntegrity
  <2>2. QED
    BY <1>7, <2>1 DEF SelfIntegrity
<1>8. CASE ToolEnds \/ ToolDeadline BY <1>8 DEF ToolEnds, ToolDeadline
<1>9. CASE Ebpf BY <1>9 DEF Ebpf
<1>10. CASE EbpfReport BY <1>10 DEF EbpfReport
<1>11. CASE Taint
  <2>1. \A f \in findings' \ findings : Other(f)
    BY <1>11, PlainRules DEF Taint
  <2>2. QED
    BY <1>11, <2>1 DEF Taint
<1>12. CASE Deleted
  <2>1. \A f \in findings' \ findings : Other(f)
    BY <1>12 DEF Deleted, Other
  <2>2. QED
    BY <1>12, <2>1 DEF Deleted
<1>13. CASE Packages BY <1>13 DEF Packages, StartTool
<1>14. CASE RpmAnswered BY <1>14 DEF RpmAnswered
<1>15. CASE HashOne
  <2>1. \A f \in findings' \ findings : Other(f)
    BY <1>15 DEF HashOne, Other
  <2>2. QED
    BY <1>15, <2>1 DEF HashOne
<1>16. CASE PackagesReport BY <1>16 DEF PackagesReport
<1>17. CASE ScanReferenced
  <2>1. \A f \in findings' \ findings : Other(f)
    BY <1>17 DEF ScanReferenced, Other
  <2>2. QED
    BY <1>17, <2>1 DEF ScanReferenced
<1>18. CASE Report BY <1>18 DEF Report
<1>19. CASE Cancel BY <1>19 DEF Cancel
<1>20. CASE UNCHANGED vars BY <1>20 DEF vars
<1>21. QED
  BY <1>1, <1>2, <1>3, <1>4, <1>5, <1>6, <1>7, <1>8, <1>9, <1>10, <1>11, <1>12, <1>13,
     <1>14, <1>15, <1>16, <1>17, <1>18, <1>19, <1>20 DEF Next, Program, Watching

(* A set of numbers that is not empty has a smallest one.                  *)
LEMMA SmallestOf ==
    ASSUME NEW S \in SUBSET Nat, S # {}
    PROVE  Min(S) \in S /\ \A k \in S : Min(S) <= k
<1> DEFINE less == OpToRel(<, Nat)
<1>1. IsWellFoundedOn(less, Nat)
  BY NatLessThanWellFounded
<1>2. \A x, y \in Nat : x < y => <<x, y>> \in less
  BY DEF OpToRel
<1> HIDE DEF less
<1>3. PICK x \in S : \A y \in S : ~(<<y, x>> \in less)
  BY <1>1, WFMin
<1>4. ASSUME NEW y \in S PROVE x <= y
  <2>1. x \in Nat /\ y \in Nat
    OBVIOUS
  <2>2. ~(y < x)
    BY <1>2, <1>3, <2>1
  <2>3. QED
    BY <2>1, <2>2
<1>5. QED
  BY <1>4 DEF Min

(* The types.                                                              *)
LEMMA WatchTypeStep ==
    ASSUME WatchType, [Next]_vars
    PROVE  WatchType'
<1> USE DEF WatchType
<1>1. CASE Quiet BY <1>1 DEF Quiet, look, env
<1>2. CASE ReadModules
  <2>1. View \in SUBSET Module
    BY DEF View
  <2>2. views' \in Seq(SUBSET Module)
    BY <1>2, <2>1, AppendProperties DEF ReadModules
  <2>3. QED
    BY <1>2, <2>2 DEF ReadModules, env
<1>3. CASE ModulesReport
  BY <1>3, EmptySeq DEF ModulesReport, env
<1>4. CASE StartListing BY <1>4 DEF StartListing, NoSearch, env
<1>5. CASE ListOne
  <2>1. Min(search.todo) \in Pid
    BY <1>5, SmallestOf, PidAssumption DEF ListOne
  <2>2. search' \in [todo : SUBSET Pid, listed : SUBSET Pid, cands : SUBSET Pid]
    BY <1>5, <2>1 DEF ListOne
  <2>3. QED
    BY <1>5, <2>2 DEF ListOne, env
<1>6. CASE ListDone BY <1>6 DEF ListDone, Swept, env
<1>7. CASE SweepOne
  <2>1. PICK p \in search.todo : search' = [search EXCEPT !.todo = @ \ {p},
                                   !.cands = IF Probe(p) = "process" THEN @ \cup {p} ELSE @]
    BY <1>7 DEF SweepOne
  <2>2. search' \in [todo : SUBSET Pid, listed : SUBSET Pid, cands : SUBSET Pid]
    BY <2>1
  <2>3. QED
    BY <1>7, <2>2 DEF SweepOne, env
<1>8. CASE SweepStop BY <1>8 DEF SweepStop, env
<1>9. CASE Relist BY <1>9 DEF Relist, env
<1>10. CASE HiddenReport BY <1>10 DEF HiddenReport, NoSearch, env
<1>11. CASE ProcStart BY <1>11 DEF ProcStart, look, Process
<1>12. CASE ProcExit BY <1>12 DEF ProcExit, look, Process
<1>13. CASE ModuleChange BY <1>13 DEF ModuleChange, look
<1>14. QED
  BY QuietSteps, <1>1, <1>2, <1>3, <1>4, <1>5, <1>6, <1>7, <1>8, <1>9, <1>10, <1>11,
     <1>12, <1>13 DEF Watching

(* Without reuse, a number is used once.                                   *)
LEMMA UsedOnceStep ==
    ASSUME ~PidReuse, WatchType, UsedOnce, [Next]_vars
    PROVE  UsedOnce' /\ \A p \in Pid : Gone(p) => Gone(p)'
<1> USE DEF WatchType, UsedOnce, Gone
<1>1. CASE Quiet BY <1>1 DEF Quiet, env
<1>2. CASE ReadModules \/ ModulesReport BY <1>2 DEF ReadModules, ModulesReport, env
<1>3. CASE StartListing \/ ListOne \/ ListDone \/ SweepOne \/ SweepStop \/ Relist \/ HiddenReport
  BY <1>3 DEF StartListing, ListOne, ListDone, SweepOne, SweepStop, Relist, HiddenReport, env
<1>4. CASE ProcStart BY <1>4 DEF ProcStart
<1>5. CASE ProcExit BY <1>5 DEF ProcExit
<1>6. CASE ModuleChange BY <1>6 DEF ModuleChange
<1>7. QED
  BY QuietSteps, <1>1, <1>2, <1>3, <1>4, <1>5, <1>6 DEF Watching

(* What a pass has learnt stays true, and each pass adds to it.            *)
LEMMA SearchStep ==
    ASSUME ~PidReuse, WatchType, UsedOnce, SearchInv, [Next]_vars
    PROVE  SearchInv'
<1>u. UsedOnce' /\ \A p \in Pid : Gone(p) => Gone(p)'
  BY UsedOnceStep
<1>s. scene' = scene /\ touched \subseteq touched'
  <2>1. CASE Quiet BY <2>1 DEF Quiet, env
  <2>2. CASE Watching
    BY <2>2 DEF Watching, ReadModules, ModulesReport, StartListing, ListOne, ListDone,
       SweepOne, SweepStop, Relist, HiddenReport, ProcStart, ProcExit, ModuleChange, env
  <2>3. QED
    BY QuietSteps, <2>1, <2>2
<1>1. ASSUME UNCHANGED search, pc' = pc \/ pc' \notin Searching
      PROVE  SearchInv'
  BY <1>1, <1>u, <1>s DEF SearchInv, Searching, WatchType
<1>2. CASE Quiet BY <1>1, <1>2 DEF Quiet, look
<1>3. CASE ReadModules BY <1>1, <1>3 DEF ReadModules
<1>4. CASE ModulesReport BY <1>1, <1>4 DEF ModulesReport, Finish, Searching
<1>5. CASE ProcStart BY <1>1, <1>5 DEF ProcStart, look
<1>6. CASE ProcExit BY <1>1, <1>6 DEF ProcExit, look
<1>7. CASE ModuleChange BY <1>1, <1>7 DEF ModuleChange, look
<1>8. CASE StartListing
  <2>1. CASE Denied("proc")
    BY <1>1, <1>8, <2>1 DEF StartListing, Finish, Searching
  <2>2. CASE ~Denied("proc")
    BY <1>8, <2>2 DEF StartListing, SearchInv, NoSearch
  <2>3. QED
    BY <2>1, <2>2
<1>9. CASE ListOne
  <2>1. PICK p : p = Min(search.todo)
    OBVIOUS
  <2>m. Min(search.todo) \in search.todo
    BY <1>9, SmallestOf, PidAssumption DEF ListOne, WatchType
  <2>2. /\ p \in search.todo /\ p \in Pid /\ pc' = pc /\ pc \in {"list", "relist"}
        /\ search'.todo = search.todo \ {p} /\ search'.cands = search.cands
        /\ search'.listed = IF procs[p] = "proc" THEN search.listed \cup {p} ELSE search.listed
        /\ UNCHANGED <<procs, touched>>
    BY <1>9, <2>1, <2>m DEF ListOne, WatchType, Listed, env
  <2>p. p \in Pid
    BY <2>2
  <2>3. procs[p] # "proc" => scene.procs[p] # "proc" \/ Gone(p)
    BY <2>p DEF UsedOnce, Gone
  <2>4. procs[p] # "proc" /\ p \in touched => Gone(p)
    BY <2>p DEF UsedOnce, Gone
  <2>5. QED
    BY <2>2, <2>3, <2>4, <1>s, <1>u DEF SearchInv, WatchType
<1>10. CASE ListDone
  <2>1. /\ search.todo = {} /\ UNCHANGED <<procs, touched>>
        /\ \/ /\ pc = "list" /\ pc' = "sweep"
              /\ search'.todo \subseteq Pid \ search.listed /\ search'.cands = search.cands
           \/ /\ pc = "relist" /\ pc' = "confirm"
              /\ search'.todo = search.cands \ search.listed /\ search'.cands = {}
    BY <1>10 DEF ListDone, Swept, WatchType, env
  <2>2. CASE pc = "list"
    BY <2>1, <2>2, <1>s, <1>u DEF SearchInv, WatchType
  <2>3. CASE pc = "relist"
    BY <2>1, <2>3, <1>s, <1>u DEF SearchInv, WatchType
  <2>4. QED
    BY <2>1, <2>2, <2>3
<1>11. CASE SweepOne
  <2>1. PICK p \in search.todo : search' = [search EXCEPT !.todo = @ \ {p},
                                   !.cands = IF Probe(p) = "process" THEN @ \cup {p} ELSE @]
    BY <1>11 DEF SweepOne
  <2>2. /\ p \in Pid /\ pc' = pc /\ pc \in {"sweep", "confirm"}
        /\ search'.todo = search.todo \ {p} /\ search'.listed = search.listed
        /\ search'.cands = IF procs[p] \in {"proc", "unlisted"} THEN search.cands \cup {p}
                           ELSE search.cands
        /\ UNCHANGED <<procs, touched>>
    BY <1>11, <2>1 DEF SweepOne, WatchType, Probe, env
  <2>p. p \in Pid /\ p \in search.todo
    BY <2>1, <2>2
  <2>3. pc = "sweep" /\ procs[p] \in {"proc", "unlisted"} =>
          scene.procs[p] = "unlisted" \/ (scene.procs[p] = "none" /\ p \in touched)
    BY <2>p DEF UsedOnce, Gone, SearchInv, WatchType, Process
  <2>4. pc = "confirm" /\ procs[p] \in {"proc", "unlisted"} => scene.procs[p] = "unlisted"
    BY <2>p DEF UsedOnce, Gone, SearchInv, WatchType, Process
  <2>5. QED
    BY <2>2, <2>3, <2>4, <1>s, <1>u DEF SearchInv, WatchType
<1>12. CASE SweepStop BY <1>12, <1>s, <1>u DEF SweepStop, SearchInv, WatchType
<1>13. CASE Relist BY <1>13, <1>s, <1>u DEF Relist, SearchInv, WatchType
<1>14. CASE HiddenReport BY <1>14 DEF HiddenReport, Finish, SearchInv
<1>15. QED
  BY QuietSteps, <1>2, <1>3, <1>4, <1>5, <1>6, <1>7, <1>8, <1>9, <1>10, <1>11, <1>12,
     <1>13, <1>14 DEF Watching

(* Only a hidden process is reported as one.                               *)
LEMMA HiddenStep ==
    ASSUME WatchType, SearchInv, HiddenIsReal, [Next]_vars
    PROVE  HiddenIsReal'
<1> USE DEF HiddenIsReal
<1>1. CASE Quiet
  <2>1. \A p \in Pid : <<"hidden_process", p>> \in findings' => <<"hidden_process", p>> \in findings
    BY <1>1 DEF Quiet, Other
  <2>2. QED
    BY <1>1, <2>1 DEF Quiet
<1>2. CASE ReadModules BY <1>2 DEF ReadModules, ctx
<1>3. CASE ModulesReport
  <2>1. \A p \in Pid : <<"hidden_process", p>> \in findings' => <<"hidden_process", p>> \in findings
    BY <1>3 DEF ModulesReport
  <2>2. QED
    BY <1>3, <2>1 DEF ModulesReport
<1>4. CASE StartListing \/ ListOne \/ ListDone \/ SweepOne \/ SweepStop \/ Relist
  BY <1>4 DEF StartListing, ListOne, ListDone, SweepOne, SweepStop, Relist, ctx
<1>5. CASE HiddenReport BY <1>5 DEF HiddenReport, SearchInv
<1>6. CASE ProcStart \/ ProcExit \/ ModuleChange
  BY <1>6 DEF ProcStart, ProcExit, ModuleChange, ctx
<1>7. QED
  BY QuietSteps, <1>1, <1>2, <1>3, <1>4, <1>5, <1>6 DEF Watching

(* The first of two neighbours below a bound.                              *)
LEMMA Between ==
    ASSUME NEW k \in 1..3, NEW n \in Nat, k < n
    PROVE  k \in 1..n /\ k + 1 \in 1..n /\ k + 1 \in 1..n + 1 /\ k # n
OBVIOUS

(* The reads of the modules, one after the other.                          *)
LEMMA ReadModulesViews ==
    ASSUME WatchType, ViewsInv, ReadModules
    PROVE  ViewsInv'
<1>1. /\ views \in Seq(SUBSET Module) /\ Len(views) \in Nat /\ DOMAIN views = 1..Len(views)
      /\ mods \subseteq Module /\ View \in SUBSET Module
  BY LenProperties DEF WatchType, View
<1>2. views' = Append(views, View) /\ UNCHANGED <<scene, mods, churn>> /\ Len(views) < 4
  BY <1>1 DEF ReadModules, env
<1>3. /\ Len(views') = Len(views) + 1 /\ DOMAIN views' = 1..Len(views) + 1 /\ views' # <<>>
      /\ \A i \in 1..Len(views) : views'[i] = views[i]
      /\ views'[Len(views) + 1] = View
  BY <1>1, <1>2, AppendProperties
<1>4. SUFFICES ASSUME NEW m \in Module \ scene.tampered
               PROVE  churn[m] >= Flip(m, 1)' + Flip(m, 2)' + Flip(m, 3)' + Since(m)'
  BY <1>1, <1>2, <1>3 DEF ViewsInv
<1>5. m \in View <=> m \in mods
  BY <1>1 DEF View
<1>6. Since(m)' = 0
  BY <1>1, <1>2, <1>3, <1>5 DEF Since
<1>7. /\ churn[m] \in Nat
      /\ churn[m] >= Flip(m, 1) + Flip(m, 2) + Flip(m, 3) + Since(m)
  BY DEF ViewsInv, WatchType
<1>8. ASSUME NEW k \in 1..3
      PROVE  Flip(m, k)' = IF k = Len(views) THEN Since(m) ELSE Flip(m, k)
  <2>1. CASE k < Len(views)
    <3>1. k \in 1..Len(views) /\ k + 1 \in 1..Len(views) /\ k + 1 \in 1..Len(views) + 1
      BY <1>1, <2>1, Between
    <3>2. views'[k] = views[k] /\ views'[k + 1] = views[k + 1]
      BY <1>3, <3>1
    <3>3. k + 1 \in DOMAIN views /\ k + 1 \in DOMAIN views'
      BY <1>1, <1>3, <3>1
    <3>4. Flip(m, k)' = Flip(m, k)
      BY <3>2, <3>3, SMTT(30) DEF Flip
    <3>5. k # Len(views)
      BY <1>1, <2>1, Between
    <3>6. QED
      BY <3>4, <3>5
  <2>2. CASE k = Len(views)
    BY <1>1, <1>3, <1>5, <2>2 DEF Flip, Since
  <2>3. CASE k > Len(views)
    <3>1. k + 1 \notin 1..Len(views) /\ k + 1 \notin 1..Len(views) + 1
      BY <1>1, <2>3
    <3>2. Flip(m, k)' = 0 /\ Flip(m, k) = 0
      BY <1>1, <1>3, <3>1 DEF Flip
    <3>3. k # Len(views)
      BY <1>1, <2>3, SMTT(30)
    <3>4. QED
      BY <3>2, <3>3
  <2>4. QED
    BY <1>1, <2>1, <2>2, <2>3
<1>9. \A k \in 1..3 : Flip(m, k) \in 0..1 /\ (k = Len(views) => Flip(m, k) = 0)
  <2>1. \A k \in 1..3 : Flip(m, k) \in 0..1
    BY DEF Flip
  <2>2. \A k \in 1..3 : k = Len(views) => k + 1 \notin 1..Len(views)
    BY <1>1
  <2>3. QED
    BY <1>1, <2>1, <2>2 DEF Flip
<1>10. Since(m) \in 0..1 /\ (Len(views) = 0 => Since(m) = 0)
  BY <1>1, EmptySeq DEF Since
<1>11. /\ Flip(m, 1)' = IF 1 = Len(views) THEN Since(m) ELSE Flip(m, 1)
       /\ Flip(m, 2)' = IF 2 = Len(views) THEN Since(m) ELSE Flip(m, 2)
       /\ Flip(m, 3)' = IF 3 = Len(views) THEN Since(m) ELSE Flip(m, 3)
  BY <1>8
<1>12. /\ Flip(m, 1) \in 0..1 /\ Flip(m, 2) \in 0..1 /\ Flip(m, 3) \in 0..1
       /\ 1 = Len(views) => Flip(m, 1) = 0
       /\ 2 = Len(views) => Flip(m, 2) = 0
       /\ 3 = Len(views) => Flip(m, 3) = 0
  BY <1>9
<1>13. QED
  <2>1. Len(views) \in {0, 1, 2, 3}
    BY <1>1, <1>2
  <2>2. CASE Len(views) = 0
    BY <1>6, <1>7, <1>10, <1>11, <1>12, <2>2
  <2>3. CASE Len(views) = 1
    BY <1>6, <1>7, <1>10, <1>11, <1>12, <2>3
  <2>4. CASE Len(views) = 2
    BY <1>6, <1>7, <1>10, <1>11, <1>12, <2>4
  <2>5. CASE Len(views) = 3
    BY <1>6, <1>7, <1>10, <1>11, <1>12, <2>5
  <2>6. QED
    BY <2>1, <2>2, <2>3, <2>4, <2>5

(* A load or an unload counts once.                                        *)
LEMMA ModuleChangeViews ==
    ASSUME WatchType, ViewsInv, ModuleChange
    PROVE  ViewsInv' /\ \A m \in Module : churn'[m] >= churn[m]
<1>1. PICK x \in Module : /\ mods' = IF x \in mods THEN mods \ {x} ELSE mods \cup {x}
                          /\ churn' = [churn EXCEPT ![x] = @ + 1]
  BY DEF ModuleChange
<1>2. UNCHANGED <<scene, views>> /\ churn \in [Module -> Nat]
  BY DEF ModuleChange, look, WatchType
<1>3. \A m \in Module : churn'[m] = IF m = x THEN churn[m] + 1 ELSE churn[m]
  BY <1>1, <1>2
<1>4. ASSUME NEW m \in Module \ scene.tampered
      PROVE  churn'[m] >= Flip(m, 1)' + Flip(m, 2)' + Flip(m, 3)' + Since(m)'
  <2>1. Flip(m, 1)' = Flip(m, 1) /\ Flip(m, 2)' = Flip(m, 2) /\ Flip(m, 3)' = Flip(m, 3)
    BY <1>2 DEF Flip
  <2>2. churn[m] >= Flip(m, 1) + Flip(m, 2) + Flip(m, 3) + Since(m)
    BY DEF ViewsInv
  <2>3. Flip(m, 1) \in 0..1 /\ Flip(m, 2) \in 0..1 /\ Flip(m, 3) \in 0..1
    BY DEF Flip
  <2>4. Since(m) \in 0..1 /\ Since(m)' \in 0..1 /\ (m # x => Since(m)' = Since(m))
    BY <1>1, <1>2 DEF Since
  <2>5. churn[m] \in Nat
    BY <1>2
  <2>6. QED
    BY <1>3, <2>1, <2>2, <2>3, <2>4, <2>5
<1>5. \A m \in Module : churn'[m] >= churn[m]
  BY <1>2, <1>3
<1>6. QED
  BY <1>2, <1>4, <1>5 DEF ViewsInv

(* Three differences are three loads and unloads.                          *)
LEMMA FourViews ==
    ASSUME WatchType, ViewsInv, Len(views) = 4, NEW m \in Module \ scene.tampered,
           NEW x \in Mismatch(1) \cap Mismatch(3), x[1] = m
    PROVE  churn[m] >= 3
<1>1. DOMAIN views = 1..4
  BY LenProperties DEF WatchType
<1>2. \/ m \in views[2] /\ m \notin views[1] /\ m \in views[4] /\ m \notin views[3]
      \/ m \notin views[2] /\ m \in views[1] /\ m \notin views[4] /\ m \in views[3]
  BY DEF Mismatch, CrossView
<1>3. Flip(m, 1) = 1 /\ Flip(m, 2) = 1 /\ Flip(m, 3) = 1
  BY <1>1, <1>2 DEF Flip
<1>4. Since(m) \in 0..1
  BY DEF Since
<1>5. churn[m] >= Flip(m, 1) + Flip(m, 2) + Flip(m, 3) + Since(m) /\ churn[m] \in Nat
  BY DEF ViewsInv, WatchType
<1>6. QED
  BY <1>3, <1>4, <1>5

(* Every step keeps the count of loads and unloads ahead of what was seen. *)
LEMMA ModulesStep ==
    ASSUME WatchType, ViewsInv, ModulesAreReal, [Next]_vars
    PROVE  ViewsInv' /\ ModulesAreReal'
<1>1. ASSUME UNCHANGED <<scene, views, mods, churn>>
      PROVE  ViewsInv'
  BY <1>1 DEF ViewsInv, Flip, Since
<1>2. ASSUME UNCHANGED scene, \A m \in Module : churn'[m] >= churn[m],
             \A m \in Module : <<"module_hidden", m>> \in findings' => <<"module_hidden", m>> \in findings
      PROVE  ModulesAreReal'
  <2>1. ASSUME NEW m \in Module, <<"module_hidden", m>> \in findings'
        PROVE  m \in scene.tampered \/ churn'[m] >= 3
    <3>1. m \in scene.tampered \/ churn[m] >= 3
      BY <1>2, <2>1 DEF ModulesAreReal
    <3>2. churn[m] \in Nat /\ churn'[m] \in Nat
      BY WatchTypeStep DEF WatchType
    <3>3. QED
      BY <1>2, <3>1, <3>2
  <2>2. QED
    BY <1>2, <2>1 DEF ModulesAreReal
<1>c. \A m \in Module : churn[m] >= churn[m]
  BY DEF WatchType
<1>3. CASE Quiet
  <2>1. \A m \in Module : <<"module_hidden", m>> \in findings' => <<"module_hidden", m>> \in findings
    BY <1>3 DEF Quiet, Other
  <2>2. QED
    BY <1>1, <1>2, <1>c, <1>3, <2>1 DEF Quiet, look, env
<1>4. CASE ReadModules
  BY <1>2, <1>c, <1>4, ReadModulesViews DEF ReadModules, ctx, env
<1>5. CASE ModulesReport
  <2>1. views' = <<>> /\ UNCHANGED <<scene, mods, churn>>
    BY <1>5 DEF ModulesReport, env
  <2>2. ViewsInv'
    <3>1. \A m \in Module : Flip(m, 1)' = 0 /\ Flip(m, 2)' = 0 /\ Flip(m, 3)' = 0 /\ Since(m)' = 0
      BY <2>1 DEF Flip, Since
    <3>2. \A m \in Module : churn[m] >= 0
      BY DEF WatchType
    <3>3. Len(views') <= 4
      BY <2>1
    <3>4. QED
      BY <2>1, <3>1, <3>2, <3>3 DEF ViewsInv
  <2>3. ModulesAreReal'
    <3>1. ASSUME NEW m \in Module, <<"module_hidden", m>> \in findings'
          PROVE  m \in scene.tampered \/ churn[m] >= 3
      <4>1. CASE <<"module_hidden", m>> \in findings
        BY <4>1 DEF ModulesAreReal
      <4>2. CASE <<"module_hidden", m>> \notin findings
        <5>1. Len(views) = 4 /\ \E x \in Mismatch(1) \cap Mismatch(3) : x[1] = m
          BY <1>5, <3>1, <4>2 DEF ModulesReport
        <5>2. QED
          BY <5>1, FourViews
      <4>3. QED
        BY <4>1, <4>2
    <3>2. QED
      BY <2>1, <3>1 DEF ModulesAreReal
  <2>4. QED
    BY <2>2, <2>3
<1>6. CASE StartListing \/ ListOne \/ ListDone \/ SweepOne \/ SweepStop \/ Relist
  BY <1>1, <1>2, <1>c, <1>6 DEF StartListing, ListOne, ListDone, SweepOne, SweepStop, Relist, ctx, env
<1>7. CASE HiddenReport
  <2>1. \A m \in Module : <<"module_hidden", m>> \in findings' => <<"module_hidden", m>> \in findings
    BY <1>7 DEF HiddenReport
  <2>2. QED
    BY <1>1, <1>2, <1>c, <1>7, <2>1 DEF HiddenReport, env
<1>8. CASE ProcStart \/ ProcExit
  BY <1>1, <1>2, <1>c, <1>8 DEF ProcStart, ProcExit, look, ctx
<1>9. CASE ModuleChange
  BY <1>2, <1>9, ModuleChangeViews DEF ModuleChange, ctx
<1>10. QED
  BY QuietSteps, <1>3, <1>4, <1>5, <1>6, <1>7, <1>8, <1>9 DEF Watching

(* The watched part of the state, in every reachable state.                *)
THEOREM Watched ==
    ASSUME ~PidReuse
    PROVE  Spec => []WatchInv
<1>1. Init => WatchInv
  <2> SUFFICES ASSUME Init PROVE WatchInv
    OBVIOUS
  <2>1. /\ scene \in Scenes /\ scene.procs \in [Pid -> Process] /\ scene.modules \subseteq Module
        /\ scene.changes \in Nat
    BY SceneAssumption DEF Init
  <2>2. WatchType
    BY <2>1, EmptySeq DEF Init, WatchType, NoSearch
  <2>3. UsedOnce /\ SearchInv /\ HiddenIsReal /\ ModulesAreReal
    BY DEF Init, UsedOnce, SearchInv, HiddenIsReal, ModulesAreReal
  <2>4. ViewsInv
    <3>1. views = <<>> /\ \A m \in Module : churn[m] = 0
      BY DEF Init
    <3>2. \A m \in Module : Flip(m, 1) = 0 /\ Flip(m, 2) = 0 /\ Flip(m, 3) = 0 /\ Since(m) = 0
      BY <3>1 DEF Flip, Since
    <3>3. QED
      BY <3>1, <3>2 DEF ViewsInv
  <2>5. QED
    BY <2>2, <2>3, <2>4 DEF WatchInv
<1>2. WatchInv /\ [Next]_vars => WatchInv'
  BY WatchTypeStep, UsedOnceStep, SearchStep, HiddenStep, ModulesStep DEF WatchInv
<1>3. QED
  BY <1>1, <1>2, PTL DEF Spec

(* find_hidden accuses only processes that are missing from every listing  *)
(* of /proc, kernel::modules only modules missing from a view or that were *)
(* loaded and unloaded three times, whatever starts, exits, loads and      *)
(* unloads between the reads, as long as no process number is given out    *)
(* twice during the run (SystemCheckReuse.cfg shows what happens then).    *)
THEOREM OnlyRealAccusations ==
    ASSUME ~PidReuse
    PROVE  Spec => []AccusedIsReal
<1>1. WatchInv => AccusedIsReal
  BY DEF WatchInv, AccusedIsReal
<1>2. QED
  BY <1>1, Watched, PTL
=============================================================================
