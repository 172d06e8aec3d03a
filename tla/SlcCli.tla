------------------------------- MODULE SlcCli -------------------------------
(***************************************************************************)
(* The 'slc' command line of src/context/tools/scripts/slc_cli.py: main()  *)
(* dispatches one command per invocation to an SLCManager.  'create' is    *)
(* the module SlcCreate; this module adds list, info, search, validate,   *)
(* update and the bare call that prints the help, and runs any of them in  *)
(* concurrent invocations.  Every invocation reads the same modules tree;  *)
(* 'create' writes project directories and 'update' rewrites the task file *)
(* context.reflection/.context/tasks/current_meta_task.json.               *)
(*                                                                         *)
(* A template file is a record [cat, rel, data]: its category directory,   *)
(* its path below it, and what get_template_info makes of it: kind "error" *)
(* for a file json.load rejects, else kind "ok", the words of its name,    *)
(* description and target_projects, and its domain.                        *)
(* Search text is matched word by word (a query is one word, or "" which   *)
(* every text contains).  A timestamp is the value of a clock that         *)
(* datetime.now() reads; nothing else of the task file's JSON is kept.     *)
(***************************************************************************)
EXTENDS Naturals, FiniteSets, TLC

CONSTANTS
  Procs,      \* concurrent 'slc' invocations
  Names,      \* Names[p]: the project name a 'create' of p is given
  Commands,   \* the commands an invocation may be given ("none": no command)
  Catalog,    \* the template files of the modules tree, when it exists
  Queries,    \* search queries
  Missing     \* a template path naming no file

VARIABLES
  cmd,        \* per invocation: its command
  arg,        \* per invocation: its argument (path, query or category)
  cpc,        \* per invocation other than create: "start", "write",
              \* "dump", "done"
  out,        \* per invocation: what it printed, abstracted
  stamp,      \* per update: the time it read
  task,       \* the task file: [state |-> "absent", "empty" (truncated)
              \* or "ok", time |-> its last_updated]
  now,        \* the clock datetime.now() reads
  sys,        \* which of modules/, context.reflection/, .context/ exist,
              \* and whether modules/ holds the catalog or nothing
  pc, tmpl, k, checked, fs    \* the state of SlcCreate

cliVars == <<cmd, arg, cpc, out, stamp, task, now, sys>>
createVars == <<pc, tmpl, k, checked, fs>>
vars == <<cliVars, createVars>>

DefaultCategories == {"languages", "methodologies", "tools", "projects"}

\* The template files present: none without a modules directory.
Present == IF sys.modules /\ sys.filled THEN Catalog ELSE {}

\* list_templates(): the four default categories and every category
\* directory, each with the paths of its *.json files.
list_templates ==
  [c \in DefaultCategories \cup {t.cat : t \in Present} |->
     {t.rel : t \in {u \in Present : u.cat = c}}]

\* get_template_info(cat/rel): kind "none" (None) for a missing file, else
\* the file's data.
NoInfo == [kind |-> "none", words |-> {}, domain |-> "unknown"]
get_template_info(c, r) ==
  LET ts == {t \in Present : t.cat = c /\ t.rel = r}
  IN  IF ts = {} THEN NoInfo ELSE (CHOOSE t \in ts : TRUE).data

\* 'query.lower() in search_text'.
Matches(q, info) == q = "" \/ q \in info.words

\* Mutant: the 'not template_info.get("error")' test dropped; the error
\* dict has no name, description or targets, so its text is "  ".
search_templates_NoErrorCheck(q) ==
  LET L == list_templates
      Hit(c) == {r \in L[c] : get_template_info(c, r).kind # "none"
                              /\ Matches(q, get_template_info(c, r))}
  IN  [c \in {d \in DOMAIN L : Hit(d) # {}} |-> Hit(c)]

\* search_templates(query): the valid templates of each listed category
\* whose text contains the query; a category without one is left out.
search_templates(q) ==
  LET L == list_templates
      Hit(c) == {r \in L[c] : get_template_info(c, r).kind = "ok"
                              /\ Matches(q, get_template_info(c, r))}
  IN  [c \in {d \in DOMAIN L : Hit(d) # {}} |-> Hit(c)]

\* validate_system(): 'templates_available' is len(list_templates()) > 0,
\* and list_templates() always has its four default keys.
validate_system ==
  [modules_directory_exists |-> sys.modules,
   context_directory_exists |-> sys.context,
   templates_available      |-> Cardinality(DOMAIN list_templates) > 0,
   reflection_system_active |-> sys.dotContext]

\* The domain 'create' gives _generate_project_structure, "invalid" when
\* get_template_info returns None or an error.
CreateDomain(a) ==
  IF a = Missing THEN "invalid"
  ELSE LET info == get_template_info(a[1], a[2])
       IN  IF info.kind = "ok" THEN info.domain ELSE "invalid"

CreateTemplates ==
  {"invalid"} \cup {t.data.domain : t \in {u \in Catalog : u.data.kind = "ok"}}

Create == INSTANCE SlcCreate WITH Templates <- CreateTemplates

\* The arguments argparse accepts for each command: a template path
\* <<category, path below it>>, <<query>>, <<category>> or none, <<>>.
Paths == {<<t.cat, t.rel>> : t \in Catalog} \cup {Missing}
ArgsOf(c) ==
  CASE c \in {"create", "info"} -> Paths
    [] c = "search"             -> {<<q>> : q \in Queries}
    [] c = "list"               -> {<<>>} \cup {<<d>> : d \in DefaultCategories}
    [] OTHER                    -> {<<>>}

-----------------------------------------------------------------------------
Init ==
  /\ cmd \in [Procs -> Commands]
  /\ arg \in {a \in [Procs -> UNION {ArgsOf(c) : c \in Commands}] :
                \A p \in Procs : a[p] \in ArgsOf(cmd[p])}
  /\ cpc = [p \in Procs |-> "start"]
  /\ out = [p \in Procs |-> "none"]
  /\ stamp = [p \in Procs |-> 0]
  /\ now = 0
  /\ sys \in {s \in [modules : BOOLEAN, filled : BOOLEAN, context : BOOLEAN,
                     dotContext : BOOLEAN] :
                /\ s.dotContext => s.context
                /\ s.filled => s.modules}
  /\ task \in {[state |-> s, time |-> 0] :
                 s \in IF sys.dotContext THEN {"absent", "ok"} ELSE {"absent"}}
  /\ Create!Init
  /\ \A p \in Procs : tmpl[p] = IF cmd[p] = "create" THEN CreateDomain(arg[p])
                                 ELSE "invalid"

Finish(p, o) ==
  /\ cpc' = [cpc EXCEPT ![p] = "done"]
  /\ out' = [out EXCEPT ![p] = o]

\* main(), 'list': the categories with at least one template are printed.
List(p) ==
  /\ cmd[p] = "list" /\ cpc[p] = "start"
  /\ LET L == list_templates
         shown == IF arg[p] = <<>> THEN DOMAIN L ELSE {arg[p][1]}
     IN  Finish(p, UNION {{<<c, r>> : r \in L[c]} : c \in shown \cap DOMAIN L})
  /\ UNCHANGED <<cmd, arg, stamp, task, now, sys>>

\* main(), 'info': the template's fields, or "not found or invalid".
Info(p) ==
  /\ cmd[p] = "info" /\ cpc[p] = "start"
  /\ Finish(p, IF arg[p] = Missing THEN NoInfo
               ELSE get_template_info(arg[p][1], arg[p][2]))
  /\ UNCHANGED <<cmd, arg, stamp, task, now, sys>>

\* main(), 'search'.
Search(p) ==
  /\ cmd[p] = "search" /\ cpc[p] = "start"
  /\ Finish(p, search_templates(arg[p][1]))
  /\ UNCHANGED <<cmd, arg, stamp, task, now, sys>>

\* main(), 'validate': "System is healthy" when every check holds.
Validate(p) ==
  /\ cmd[p] = "validate" /\ cpc[p] = "start"
  /\ LET ch == validate_system
     IN  Finish(p, IF \A f \in DOMAIN ch : ch[f] THEN "healthy" ELSE "issues")
  /\ UNCHANGED <<cmd, arg, stamp, task, now, sys>>

\* main() without a command: print_help().
Help(p) ==
  /\ cmd[p] = "none" /\ cpc[p] = "start"
  /\ Finish(p, "help")
  /\ UNCHANGED <<cmd, arg, stamp, task, now, sys>>

\* update_context_system, lines 532-546: without context.reflection it
\* returns False; else it reads the time and, if the task file exists,
\* json.loads it (a truncated file raises, and the except of line 552
\* returns False); a missing task file falls through and returns None.
UpdateStart(p) ==
  /\ cmd[p] = "update" /\ cpc[p] = "start"
  /\ IF ~sys.context
       THEN Finish(p, "no context") /\ UNCHANGED <<stamp, now>>
       ELSE /\ now' = now + 1
            /\ stamp' = [stamp EXCEPT ![p] = now + 1]
            /\ CASE task.state = "absent" -> Finish(p, "silent")
                 [] task.state = "empty"  -> Finish(p, "failed")
                 [] OTHER           -> cpc' = [cpc EXCEPT ![p] = "write"]
                                       /\ UNCHANGED out
  /\ UNCHANGED <<cmd, arg, task, sys>>

\* Line 547: open(task_file, 'w') truncates the file.
UpdateTruncate(p) ==
  /\ cpc[p] = "write"
  /\ task' = [task EXCEPT !.state = "empty"]
  /\ cpc' = [cpc EXCEPT ![p] = "dump"]
  /\ UNCHANGED <<cmd, arg, out, stamp, now, sys>>

\* Lines 548-551: json.dump writes the data with the new time; True.
UpdateDump(p) ==
  /\ cpc[p] = "dump"
  /\ task' = [state |-> "ok", time |-> stamp[p]]
  /\ Finish(p, "updated")
  /\ UNCHANGED <<cmd, arg, stamp, now, sys>>

\* Mutant: the except clause returns None without a message, as the
\* missing-task-file path does.
UpdateFails_Silent(p) ==
  /\ cpc[p] \in {"write", "dump"}
  /\ Finish(p, "silent")
  /\ UNCHANGED <<cmd, arg, stamp, task, now, sys>>

\* The open (nothing written yet) or the dump (file left truncated)
\* raises OSError; lines 552-555 print the failure and return False.
UpdateFails(p) ==
  /\ cpc[p] \in {"write", "dump"}
  /\ Finish(p, "failed")
  /\ UNCHANGED <<cmd, arg, stamp, task, now, sys>>

\* A step of 'create' (module SlcCreate).
CreateStep(p) ==
  /\ cmd[p] = "create"
  /\ \/ Create!Start(p) \/ Create!MakeRoot(p) \/ Create!GenStep(p)
     \/ Create!Raise(p) \/ Create!Rollback(p) \/ Create!Finish(p)
  /\ UNCHANGED cliVars

\* Every invocation has returned.
Terminated ==
  /\ \A p \in Procs : IF cmd[p] = "create" THEN pc[p] \in {"created", "failed"}
                                           ELSE cpc[p] = "done"
  /\ UNCHANGED vars

Next ==
  \/ \E p \in Procs :
       \/ CreateStep(p)
       \/ (\/ List(p) \/ Info(p) \/ Search(p) \/ Validate(p) \/ Help(p)
           \/ UpdateStart(p) \/ UpdateTruncate(p) \/ UpdateDump(p) \/ UpdateFails(p))
          /\ UNCHANGED createVars
  \/ Terminated

Spec == Init /\ [][Next]_vars

-----------------------------------------------------------------------------
\* The outcome of concurrent creates matches the disk (SlcCreate), with
\* the template each one reads from the modules tree.
CreateOutcomeMatchesDisk == Create!CreateOutcomeMatchesDisk

\* 'slc search' lists exactly the templates whose name, description or
\* target projects contain the query: list_templates, get_template_info
\* and search_templates agree on the paths (category directory and the
\* path below it), a file json.load rejects is never a hit, and no
\* category is printed without one.
SearchReportsMatchingTemplates ==
  \A p \in Procs : cmd[p] = "search" /\ cpc[p] = "done" =>
    /\ UNION {{<<c, r>> : r \in out[p][c]} : c \in DOMAIN out[p]}
         = {<<t.cat, t.rel>> : t \in {u \in Present : u.data.kind = "ok"
                                                     /\ Matches(arg[p][1], u.data)}}
    /\ \A c \in DOMAIN out[p] : out[p][c] # {}

\* The task file is rewritten in place: open(..., 'w') truncates it before
\* json.dump writes it again.  Whatever the interleaving of concurrent
\* updates, a task file left truncated when no update is between its
\* truncate and its dump was left by an update that reported the failure,
\* and every update that read it in that state reported failure too: the
\* damage is never silent, although it is never repaired either.
TaskFileDamageReported ==
  LET updates == {p \in Procs : cmd[p] = "update"}
      writing  == \E p \in updates : cpc[p] = "dump"
      reported == \E p \in updates : cpc[p] = "done" /\ out[p] = "failed"
  IN  /\ (task.state = "empty" /\ ~writing) => reported
      /\ \A p \in updates : cpc[p] = "done" /\ out[p] = "silent" => task.state = "absent"

====
