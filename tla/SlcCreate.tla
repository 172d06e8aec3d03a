------------------------------ MODULE SlcCreate ------------------------------
(***************************************************************************)
(* SLCManager.create_project_from_template and _generate_project_structure *)
(* of src/context/tools/scripts/slc_cli.py, run by concurrent 'slc create' *)
(* processes: read the template, refuse an existing project directory,     *)
(* mkdir it (parents=True, exist_ok=True), create the files and folders of *)
(* the template's domain one by one, and on any exception remove the       *)
(* directory with shutil.rmtree if it exists.                              *)
(*                                                                         *)
(* The file system is the set of paths <<project, relative path>> that     *)
(* exist.  A file write or a plain mkdir fails (FileNotFoundError) when    *)
(* the parent is missing; mkdir(parents=True) creates the missing          *)
(* ancestors.  Any step may also fail for an environment reason (disk      *)
(* full, permissions).  File contents are left out: a path exists or not.  *)
(* A loop creating sibling folders with the same parent is one step.       *)
(***************************************************************************)
EXTENDS Naturals, Sequences, FiniteSets, TLC

CONSTANTS
  Procs,       \* concurrent 'slc create' processes
  Names,       \* Names[p]: the project name given to process p
  Templates    \* possible template domains, or "invalid"

VARIABLES
  pc,          \* per process: "start", "mkdir", "gen", "except",
               \* "created", "failed"
  tmpl,        \* per process: the domain of its template, or "invalid"
  k,           \* per process: index of the next generation step
  checked,     \* per process: it passed the existence check
  fs           \* the paths that exist

vars == <<pc, tmpl, k, checked, fs>>

Root == ""

\* The parent of each relative path the generator creates.
Parent ==
  [r \in {"src", "docs", "tests", "README.md", ".gitignore", "pyproject.toml",
          "package.json", ".obsidian", "vault folders", "NAME.md", "mkdocs.yml"} |-> Root]
  @@ [r \in {"src/pkg", "src/index.js"} |-> "src"]
  @@ [r \in {"src/pkg/__init__.py", "src/pkg/main.py"} |-> "src/pkg"]
  @@ [r \in {".obsidian/core-plugins.json"} |-> ".obsidian"]
  @@ [r \in {"docs/sections", "docs/index.md"} |-> "docs"]

RECURSIVE Ancestors(_)
Ancestors(r) == IF r = Root THEN {} ELSE {Parent[r]} \cup Ancestors(Parent[r])

Step(r, kind, parents) == [rel |-> r, kind |-> kind, parents |-> parents]

(***************************************************************************)
(* The steps of _generate_project_structure for a domain: src, docs,       *)
(* tests, README.md; the files of the first domain branch whose word the  *)
(* template's domain contains ("python", "javascript", "obsidian",         *)
(* "documentation"; d is that word, or "other"); .gitignore.              *)
(***************************************************************************)
DomainSteps(d) ==
  CASE d = "python" ->
         << Step("pyproject.toml", "file", FALSE), Step("src/pkg", "dir", TRUE),
            Step("src/pkg/__init__.py", "file", FALSE), Step("src/pkg/main.py", "file", FALSE) >>
    [] d = "javascript" ->
         << Step("package.json", "file", FALSE), Step("src/index.js", "file", FALSE) >>
    [] d = "obsidian" ->
         << Step(".obsidian", "dir", FALSE), Step(".obsidian/core-plugins.json", "file", FALSE),
            Step("vault folders", "dir", FALSE), Step("NAME.md", "file", FALSE) >>
    [] d = "documentation" ->
         << Step("docs/sections", "dir", TRUE), Step("mkdocs.yml", "file", FALSE),
            Step("docs/index.md", "file", FALSE) >>
    [] OTHER -> <<>>

GenSteps(d) ==
  << Step("src", "dir", FALSE), Step("docs", "dir", FALSE), Step("tests", "dir", FALSE),
     Step("README.md", "file", FALSE) >>
  \o DomainSteps(d) \o << Step(".gitignore", "file", FALSE) >>

\* Whether a step can be carried out in fs for project n, and what it adds.
StepOK(n, s) == s.parents \/ <<n, Parent[s.rel]>> \in fs
StepAdds(n, s) ==
  {<<n, s.rel>>} \cup (IF s.parents THEN {<<n, a>> : a \in Ancestors(s.rel)} ELSE {})

Project(n) == {e \in fs : e[1] = n}

-----------------------------------------------------------------------------
Init ==
  /\ pc = [p \in Procs |-> "start"]
  /\ tmpl \in [Procs -> Templates]
  /\ k = [p \in Procs |-> 1]
  /\ checked = [p \in Procs |-> FALSE]
  /\ fs = {}

\* Lines 100-108: an unknown or unreadable template, or an existing
\* project directory, returns False; otherwise go on to the mkdir.
Start(p) ==
  /\ pc[p] = "start"
  /\ IF tmpl[p] = "invalid" \/ <<Names[p], Root>> \in fs
       THEN pc' = [pc EXCEPT ![p] = "failed"] /\ UNCHANGED checked
       ELSE pc' = [pc EXCEPT ![p] = "mkdir"] /\ checked' = [checked EXCEPT ![p] = TRUE]
  /\ UNCHANGED <<tmpl, k, fs>>

\* Line 112: output_path.mkdir(parents=True, exist_ok=True).
MakeRoot(p) ==
  /\ pc[p] = "mkdir"
  /\ fs' = fs \cup {<<Names[p], Root>>}
  /\ pc' = [pc EXCEPT ![p] = "gen"]
  /\ UNCHANGED <<tmpl, k, checked>>

\* One mkdir or file write of _generate_project_structure succeeds.
GenStep(p) ==
  /\ pc[p] = "gen"
  /\ k[p] <= Len(GenSteps(tmpl[p]))
  /\ StepOK(Names[p], GenSteps(tmpl[p])[k[p]])
  /\ fs' = fs \cup StepAdds(Names[p], GenSteps(tmpl[p])[k[p]])
  /\ k' = [k EXCEPT ![p] = @ + 1]
  /\ UNCHANGED <<pc, tmpl, checked>>

\* The mkdir or write raises: its parent is gone, or the environment
\* refuses it.  Control passes to the 'except Exception' of line 122.
Raise(p) ==
  /\ \/ pc[p] = "mkdir"
     \/ pc[p] = "gen" /\ k[p] <= Len(GenSteps(tmpl[p]))
  /\ pc' = [pc EXCEPT ![p] = "except"]
  /\ UNCHANGED <<tmpl, k, checked, fs>>

\* Mutant: the handler returns False without removing the directory.
RollbackNoRmtree(p) ==
  /\ pc[p] = "except"
  /\ pc' = [pc EXCEPT ![p] = "failed"]
  /\ UNCHANGED <<tmpl, k, checked, fs>>

\* Lines 124-126: if output_path.exists(): shutil.rmtree; return False.
Rollback(p) ==
  /\ pc[p] = "except"
  /\ fs' = IF <<Names[p], Root>> \in fs THEN fs \ Project(Names[p]) ELSE fs
  /\ pc' = [pc EXCEPT ![p] = "failed"]
  /\ UNCHANGED <<tmpl, k, checked>>

\* Lines 118-120: every step done; return True.
Finish(p) ==
  /\ pc[p] = "gen"
  /\ k[p] > Len(GenSteps(tmpl[p]))
  /\ pc' = [pc EXCEPT ![p] = "created"]
  /\ UNCHANGED <<tmpl, k, checked, fs>>

\* Every process has returned.
Terminated ==
  /\ \A p \in Procs : pc[p] \in {"created", "failed"}
  /\ UNCHANGED vars

Next ==
  \/ \E p \in Procs :
       Start(p) \/ MakeRoot(p) \/ GenStep(p) \/ Raise(p) \/ Rollback(p) \/ Finish(p)
  \/ Terminated

Spec == Init /\ [][Next]_vars

-----------------------------------------------------------------------------
\* The paths a successful create of p leaves.
Expected(p) ==
  {<<Names[p], Root>>}
  \cup UNION {StepAdds(Names[p], GenSteps(tmpl[p])[j]) : j \in 1..Len(GenSteps(tmpl[p]))}

\* A project reported created keeps every file and folder of its template
\* for as long as other 'slc create' processes run: nothing another
\* process does, its rmtree rollback included, removes it.
CreatedProjectKept ==
  \A p \in Procs : pc[p] = "created" => Expected(p) \subseteq fs

\* The outcome a create reports matches the disk, however the mkdirs,
\* writes and rollbacks of concurrent creates of other projects
\* interleave: a created project is complete and stays so
\* (CreatedProjectKept), and a create that failed after passing the
\* existence check has left nothing of its project behind: the rmtree of
\* line 126 removes even folders the steps after the failure would not
\* have made, and a mkdir(parents=True) cannot bring the directory back.
CreateOutcomeMatchesDisk ==
  /\ CreatedProjectKept
  /\ \A p \in Procs : pc[p] = "failed" /\ checked[p] => Project(Names[p]) = {}

====
