------------------------------ MODULE RepoSearch ------------------------------
(***************************************************************************)
(* What the installer and the uninstaller ask the user, and what they do   *)
(* with the answers: the prompts on the terminal and in dialogs (prompt/), *)
(* the search for template directories and repositories in a background    *)
(* task (common/background.go), the visit of the repositories found or     *)
(* registered, the shared repositories entered.                            *)
(*                                                                         *)
(* One installer or uninstaller runs, with a goroutine for each search,    *)
(* and the user answers.  A text or path is a sequence of names.  What a   *)
(* visit does to a repository is modelled in RepoRegister and RunWrappers: *)
(* here it succeeds or not.                                                *)
(***************************************************************************)
EXTENDS Naturals, Sequences, FiniteSets, SequencesExt, FiniteSetsExt

CONSTANTS
  Name, LowerCase,   \* names, and strings.ToLower of each
  DotName,           \* names with a leading dot
  Lines,             \* the texts that users type at each kind of prompt
  Dirs,              \* existing directories
  Home,              \* the home directory
  Repo,              \* Git directories
  Heads,             \* files HEAD: their directory and `git rev-parse` there
  Samples,           \* template directories with a file pre-commit.sample
  First, Second,     \* where template directories are searched
  InstallTemplates,  \* `<installDir>/templates`
  Starts,            \* ways to start, see Start
  Urls,              \* possible lists of shared repositories
  MaxEntries         \* bound: shared repositories entered

Text == Seq(Name)
NoRepo == "no repository"

Kinds == {"options", "directory", "any text", "list"}

(* fresh: there is no installation and no template directory is found;     *)
(* auto: an automatic update; skip: --skip-install-into-existing; stdin:   *)
(* answers are read from stdin; screen: the output is a terminal.          *)
Setup == [uninstall : BOOLEAN, nonInteractive : BOOLEAN, fresh : BOOLEAN,
          auto : BOOLEAN, skip : BOOLEAN, stdin : BOOLEAN, screen : BOOLEAN]

Start == [setup : Setup, previous : Text, checks : {"", "on", "off"},
          register : SUBSET Repo]

ASSUME SearchAssumption ==
  /\ LowerCase \in [Name -> Name]
  /\ {"n", "N"} \subseteq Name /\ LowerCase["n"] = "n" /\ LowerCase["N"] = "n"
  /\ {"y", "Y"} \subseteq Name /\ LowerCase["y"] = "y" /\ LowerCase["Y"] = "y"
  /\ \A name \in Name : LowerCase[LowerCase[name]] = LowerCase[name]
  /\ DotName \subseteq Name
  /\ Lines \in [Kinds -> SUBSET Text]
  /\ Dirs \cup Samples \cup {Home, InstallTemplates} \subseteq Text
  /\ IsFiniteSet(Samples)
  /\ {First, Second} \subseteq Seq(Dirs)
  /\ NoRepo \notin Repo
  /\ Heads \subseteq [dir : Text, repo : Repo \cup {NoRepo}]
  /\ Starts \subseteq Start
  /\ Urls \subseteq Seq(Text)
  /\ MaxEntries \in Nat

VARIABLES
  setup,      \* how the program was started
  previous,   \* githooks.previousSearchDir, <<>> if not set
  checks,     \* are automatic update checks enabled? "" if not set
  templates,  \* the template directory chosen, <<>> if none is yet
  shared,     \* the global githooks.shared
  register,   \* repositories in the register
  pc,         \* next step of the program
  panicked,   \* the program has panicked, at pc
  ask,        \* the prompt shown, or its answer
  tasks,      \* background tasks in the order they were started
  search,     \* what a search for template directories has left to do
  todo,       \* repositories to visit
  done,       \* repositories visited with success
  entries,    \* shared repositories entered
  visited,    \* history: repositories visited at each stage
  refused,    \* history: stages at which the user said no
  listEnded   \* history: the user ended the list of shared repositories

config == <<previous, checks, shared>>
work == <<templates, register, search, todo, done, entries>>
history == <<visited, refused, listEnded>>
vars == <<setup, config, work, pc, panicked, ask, tasks, history>>

Stages == {"existing", "registered"}

Steps == {"find templates", "search disk?", "look", "wait templates", "is it?",
          "keep searching?", "use it?", "new templates?", "target folder?",
          "checks", "checks?", "find existing", "existing?", "where?",
          "wait existing", "visit existing", "find registered", "registered?",
          "visit registered", "share", "share?", "urls?", "unset urls",
          "add urls", "end"}

NoSearch == [places |-> <<>>, second |-> FALSE, matches |-> <<>>, result |-> <<>>]

-----------------------------------------------------------------------------
(* Prompts. *)

(* Mutant: answers are compared as they are typed. *)
AsTyped(text) == text

ToLower(text) == [i \in DOMAIN text |-> LowerCase[text[i]]]

ReplaceTilde(text) ==
  IF text # <<>> /\ Head(text) = "~" THEN Home \o Tail(text) ELSE text

IsDirectory(text) == ReplaceTilde(text) \in Dirs

(* The first option with an upper case letter. *)
DefaultAnswer(options) ==
  LET upper == {i \in DOMAIN options : LowerCase[options[i]] # options[i]}
  IN IF upper = {} THEN <<>> ELSE ToLower(<<options[Min(upper)]>>)

YesByDefault == <<"Y", "n">>
NoByDefault == <<"y", "N">>

Idle == [on |-> "nothing", kind |-> "options", options |-> <<>>, default |-> <<>>,
         tries |-> 0, typed |-> FALSE, answer |-> <<>>, failed |-> FALSE]

IsValid(answer) ==
  CASE ask.kind = "options" ->
         \E i \in DOMAIN ask.options : ToLower(answer) = ToLower(<<ask.options[i]>>)
    [] ask.kind = "directory" -> IsDirectory(answer)
    [] OTHER -> TRUE    \* any text, "" ends a list

MaxTries == IF setup.stdin THEN 1 ELSE 3

HasOutput == setup.stdin \/ setup.screen

(* A missing terminal to read from is not noticed (`input` is not nil):    *)
(* reading from it fails.                                                  *)
UseGUI == setup.auto /\ ~HasOutput

Show(kind, options, default) ==
  ask' = IF UseGUI THEN [Idle EXCEPT !.on = "dialog", !.kind = kind,
                                     !.options = options, !.default = default]
         ELSE IF HasOutput
         THEN [Idle EXCEPT !.on = "terminal", !.kind = kind,
                           !.options = options, !.default = default]
         ELSE [Idle EXCEPT !.on = "answered", !.answer = default, !.failed = TRUE]

ShowOptions(options) == Show("options", options, DefaultAnswer(options))

ShowEntry(kind, default) == Show(kind, <<>>, default)

(* An answer was given: take it, ask again or give up. *)
Judge(answer, typed) ==
  IF IsValid(answer)
  THEN /\ ask' = [ask EXCEPT !.on = "answered", !.answer = ToLower(answer),
                             !.typed = ask.typed \/ typed]
       /\ UNCHANGED panicked
  ELSE /\ ask' = [ask EXCEPT !.tries = ask.tries + 1, !.typed = ask.typed \/ typed]
       /\ panicked' = (ask.tries + 1 >= MaxTries)

SaysNo(line) == /\ pc \in {"existing?", "registered?"}
                /\ line \in {<<"n">>, <<"N">>}

Stage == IF pc \in {"existing?", "visit existing"} THEN "existing" ELSE "registered"

(* The user hits return on the terminal. *)
ReadLine(line) ==
  /\ ask.on = "terminal" /\ ~panicked
  /\ pc = "urls?" => Len(entries) < MaxEntries \/ line = <<>>
  /\ Judge(ToLower(IF line = <<>> THEN ask.default ELSE line), line # <<>>)
  /\ refused' = refused \cup (IF SaysNo(line) THEN {Stage} ELSE {})
  /\ listEnded' = (listEnded \/ (pc = "urls?" /\ line = <<>>))
  /\ UNCHANGED <<setup, config, work, pc, tasks, visited>>

(* The input ends, or there never was one. *)
EndOfInput ==
  /\ ask.on = "terminal" /\ ~panicked
  /\ ask' = [ask EXCEPT !.on = "answered", !.answer = ask.default, !.failed = TRUE]
  /\ UNCHANGED <<setup, config, work, pc, panicked, tasks, history>>

(* The user chooses an option in the dialog, or closes it. *)
Choose(option) ==
  /\ ask.on = "dialog" /\ ~panicked
  /\ Judge(option, TRUE)
  /\ refused' = refused \cup (IF SaysNo(option) THEN {Stage} ELSE {})
  /\ UNCHANGED <<setup, config, work, pc, tasks, visited, listEnded>>

Dialog ==
  \/ \E i \in DOMAIN ask.options : Choose(<<ask.options[i]>>)
  \/ Choose(ask.default)

(* No dialog can be shown. *)
DialogFails ==
  /\ ask.on = "dialog" /\ ~panicked
  /\ ask' = [ask EXCEPT !.on = "answered", !.answer = ask.default, !.failed = TRUE]
  /\ UNCHANGED <<setup, config, work, pc, panicked, tasks, history>>

User == (\E line \in Lines[ask.kind] : ReadLine(line)) \/ Dialog

Prompt == EndOfInput \/ DialogFails

-----------------------------------------------------------------------------
(* Background tasks: RunTaskWithProgress.                                  *)
(*                                                                         *)
(* clone: the variable taskOut of the call still holds the clone; sent:    *)
(* what is in the channel taskCh.                                          *)

Running == Len(tasks)

NewTask(kind, dir) == [kind |-> kind, dir |-> dir, state |-> "created", clone |-> TRUE,
                       matches |-> {}, sent |-> "nothing", exit |-> 0]

RunTaskWithProgress(kind, dir) == tasks' = Append(tasks, NewTask(kind, dir))

ContainsDotFile(path) == \E i \in DOMAIN path : path[i] \in DotName

(* Mutant: every directory with a file HEAD is taken for a Git directory.  *)
FindHeads(dir) == {h.repo : h \in {g \in Heads : IsPrefix(dir, g.dir)}}

(* The Git directories below `dir` whose path from there is not hidden.    *)
FindGitDirs(dir) ==
  LET Below == {h \in Heads : IsPrefix(dir, h.dir)}
      Rel(h) == SubSeq(h.dir, Len(dir) + 1, Len(h.dir))
      Shown(h) == IF h.dir # <<>> /\ Last(h.dir) = ".git"
                  THEN ~ContainsDotFile(SubSeq(Rel(h), 1, Len(Rel(h)) - 1))
                  ELSE ~ContainsDotFile(Rel(h))
  IN {h.repo : h \in {g \in Below : Shown(g)}} \ {NoRepo}

FindSamples(dir) == {s \in Samples : IsPrefix(dir, s)}

(* What a search may find: directories that cannot be read are left out.   *)
Findings(task) ==
  IF task.kind = "repos" THEN SUBSET FindGitDirs(task.dir) ELSE SUBSET FindSamples(task.dir)

(* The goroutine starts the task the variable holds: it dies of nil, and   *)
(* the program with it, if the time is already over. *)
StartTask(i) ==
  /\ tasks[i].state = "created" /\ ~panicked
  /\ tasks' = [tasks EXCEPT ![i].state = "running"]
  /\ panicked' = ~tasks[i].clone
  /\ UNCHANGED <<setup, config, work, pc, ask, history>>

(* It searches and sends the result: it never reads exitCh.  With an error *)
(* it has no matches. *)
RunTask(i) ==
  /\ tasks[i].state = "running" /\ ~panicked
  /\ \E found \in Findings(tasks[i]), result \in {"ok", "error"} :
       /\ result = "error" => found = {}
       /\ tasks' = [tasks EXCEPT ![i] = [tasks[i] EXCEPT
                      !.state = "ended", !.matches = found, !.sent = result]]
  /\ UNCHANGED <<setup, config, work, pc, panicked, ask, history>>

Goroutine(i) == StartTask(i) \/ RunTask(i)

(* Mutant: the main routine waits for the task to take the signal. *)
Unbuffered == 0

ExitCapacity == 1

Waiting == pc \in {"wait templates", "wait existing"}

-----------------------------------------------------------------------------
(* The program. *)

At(step) == pc = step /\ ask.on = "nothing" /\ ~panicked

Answered(step) == pc = step /\ ask.on = "answered" /\ ~panicked

Yes == ask.answer = <<"y">>
No == ask.answer = <<"n">>

Goto(step) == pc' = step /\ ask' = Idle

AskOptions(step, options) == pc' = step /\ ShowOptions(options)

(* The prompt that follows an unsuccessful search for templates.           *)
AskNew == AskOptions("new templates?", NoByDefault)

FindTemplates ==
  /\ At("find templates")
  /\ IF setup.nonInteractive
     THEN templates' = InstallTemplates /\ Goto("checks")
     ELSE AskOptions("search disk?", NoByDefault) /\ UNCHANGED templates
  /\ UNCHANGED <<setup, config, register, search, todo, done, entries,
                 panicked, tasks, history>>

SearchDisk ==
  /\ Answered("search disk?")
  /\ IF Yes THEN Goto("look") /\ search' = [NoSearch EXCEPT !.places = First]
            ELSE AskNew /\ UNCHANGED search
  /\ UNCHANGED <<setup, config, templates, register, todo, done, entries,
                 panicked, tasks, history>>

(* searchTemplateDirOnDisk after searchPreCommitFile returned. *)
Searched ==
  CASE search.result # <<>> -> AskOptions("use it?", NoByDefault)
    [] search.result = <<>> /\ ~search.second -> AskOptions("keep searching?", NoByDefault)
    [] OTHER -> AskNew

(* searchPreCommitFile searches one place after the other, also when the   *)
(* user has found the directory in an earlier one. *)
Look ==
  /\ At("look")
  /\ IF search.places = <<>>
     THEN Searched /\ UNCHANGED <<tasks, search>>
     ELSE /\ RunTaskWithProgress("templates", Head(search.places))
          /\ search' = [search EXCEPT !.places = Tail(search.places)]
          /\ Goto("wait templates")
  /\ UNCHANGED <<setup, config, templates, register, todo, done, entries,
                 panicked, history>>

(* The next match is shown. *)
ShowMatch(matches) ==
  IF matches = <<>> THEN Goto("look") ELSE AskOptions("is it?", NoByDefault)

IsIt ==
  /\ Answered("is it?")
  /\ search' = IF Yes THEN [search EXCEPT !.result = Head(search.matches), !.matches = <<>>]
                      ELSE [search EXCEPT !.matches = Tail(search.matches)]
  /\ ShowMatch(search'.matches)
  /\ UNCHANGED <<setup, config, templates, register, todo, done, entries,
                 panicked, tasks, history>>

KeepSearching ==
  /\ Answered("keep searching?")
  /\ IF Yes
     THEN /\ Goto("look")
          /\ search' = [NoSearch EXCEPT !.places = Second, !.second = TRUE]
     ELSE AskNew /\ UNCHANGED search
  /\ UNCHANGED <<setup, config, templates, register, todo, done, entries,
                 panicked, tasks, history>>

UseIt ==
  /\ Answered("use it?")
  /\ IF Yes THEN /\ templates' = search.result
                 /\ Goto("checks")
                 /\ UNCHANGED panicked
            ELSE /\ panicked' = TRUE
                 /\ UNCHANGED <<templates, pc, ask>>
  /\ UNCHANGED <<setup, config, register, search, todo, done, entries, tasks, history>>

NewTemplates ==
  /\ Answered("new templates?")
  /\ IF Yes THEN /\ pc' = "target folder?"
                 /\ ShowEntry("any text", InstallTemplates)
                 /\ UNCHANGED panicked
            ELSE /\ panicked' = TRUE
                 /\ UNCHANGED <<pc, ask>>
  /\ UNCHANGED <<setup, config, work, tasks, history>>

TargetFolder ==
  /\ Answered("target folder?")
  /\ templates' = ReplaceTilde(ask.answer)
  /\ Goto("checks")
  /\ UNCHANGED <<setup, config, register, search, todo, done, entries,
                 panicked, tasks, history>>

(* setupAutomaticUpdate. *)
Checks ==
  /\ At("checks")
  /\ IF setup.auto \/ checks = "on" \/ (checks = "off" /\ setup.nonInteractive)
     THEN Goto("find existing") /\ UNCHANGED checks
     ELSE IF setup.nonInteractive
     THEN Goto("find existing") /\ checks' \in {"on", checks}
     ELSE AskOptions("checks?", YesByDefault) /\ UNCHANGED checks
  /\ UNCHANGED <<setup, previous, shared, work, panicked, tasks, history>>

ChecksAnswered ==
  /\ Answered("checks?")
  /\ checks' \in IF Yes THEN {"on", checks} ELSE {checks}
  /\ Goto("find existing")
  /\ UNCHANGED <<setup, previous, shared, work, panicked, tasks, history>>

(* The search for repositories begins below an existing directory. *)
StartSearch(text) ==
  LET dir == ReplaceTilde(text)
  IN IF dir \in Dirs THEN /\ previous' \in {dir, previous}    \* may fail
                          /\ RunTaskWithProgress("repos", dir)
                          /\ Goto("wait existing")
     ELSE Goto("find registered") /\ UNCHANGED <<previous, tasks>>

(* The program has the result of a search, if there is one.  Without it    *)
(* searchPreCommitFile returns what was found before.                      *)
TakeResult(ok) ==
  LET matches == IF ok THEN tasks[Running].matches ELSE {}
  IN IF pc = "wait templates"
     THEN /\ \E order \in SetToSeqs(matches) :
               /\ search' = [search EXCEPT !.matches = order,
                                           !.places = IF ok THEN search.places ELSE <<>>]
               /\ ShowMatch(order)
          /\ UNCHANGED todo
     ELSE /\ todo' = matches
          /\ Goto(IF matches = {} THEN "find registered" ELSE "visit existing")
          /\ UNCHANGED search

(* PromptExistingRepos, unless it is skipped. *)
FindExisting ==
  /\ At("find existing")
  /\ IF setup.auto \/ setup.skip \/ (setup.nonInteractive /\ previous = <<>>)
     THEN Goto("find registered") /\ UNCHANGED <<previous, tasks>>
     ELSE IF setup.nonInteractive
     THEN StartSearch(previous)
     ELSE /\ AskOptions("existing?", IF previous = <<>> THEN NoByDefault ELSE YesByDefault)
          /\ UNCHANGED <<previous, tasks>>
  /\ UNCHANGED <<setup, checks, shared, work, panicked, history>>

ExistingAnswered ==
  /\ Answered("existing?")
  /\ IF No THEN Goto("find registered")
     ELSE /\ pc' = "where?"
          /\ ShowEntry("directory", IF previous = <<>> THEN Home ELSE previous)
  /\ UNCHANGED <<setup, config, work, panicked, tasks, history>>

Where ==
  /\ Answered("where?")
  /\ StartSearch(ask.answer)
  /\ UNCHANGED <<setup, checks, shared, work, panicked, history>>

(* RunTaskWithProgress returns: at a result or at the timeout, whichever   *)
(* is taken when both are there.                                           *)
Result ==
  /\ Waiting /\ ~panicked
  /\ tasks[Running].sent # "nothing"
  /\ TakeResult(tasks[Running].sent = "ok")
  /\ UNCHANGED <<setup, config, templates, register, done, entries, panicked,
                 tasks, history>>

Timeout ==
  /\ Waiting /\ ~panicked
  /\ tasks[Running].exit < ExitCapacity
  /\ tasks' = [tasks EXCEPT ![Running] = [tasks[Running] EXCEPT
                 !.clone = FALSE, !.exit = 1]]
  /\ TakeResult(FALSE)
  /\ UNCHANGED <<setup, config, templates, register, done, entries, panicked, history>>

(* The callback for one repository: it is (un)installed and leaves or      *)
(* enters the register, or that fails. *)
Visit(r) ==
  /\ At("visit existing") \/ At("visit registered")
  /\ r \in todo
  /\ todo' = todo \ {r}
  /\ visited' = [visited EXCEPT ![Stage] = visited[Stage] \cup {r}]
  /\ \/ /\ done' = done \cup {r}
        /\ register' = IF setup.uninstall THEN register \ {r} ELSE register \cup {r}
     \/ UNCHANGED <<done, register>>
  /\ UNCHANGED <<setup, config, templates, search, entries, pc, panicked, ask, tasks,
                 refused, listEnded>>

Visited ==
  /\ todo = {}
  /\ \/ At("visit existing") /\ Goto("find registered")
     \/ At("visit registered") /\ Goto(IF setup.uninstall THEN "end" ELSE "share")
  /\ UNCHANGED <<setup, config, work, panicked, tasks, history>>

Remaining == register \ done

(* PromptRegisteredRepos *)
FindRegistered ==
  /\ At("find registered")
  /\ IF setup.nonInteractive \/ Remaining = {}
     THEN Goto("visit registered") /\ todo' = Remaining
     ELSE AskOptions("registered?", YesByDefault) /\ UNCHANGED todo
  /\ UNCHANGED <<setup, config, templates, register, search, done, entries,
                 panicked, tasks, history>>

RegisteredAnswered ==
  /\ Answered("registered?")
  /\ Goto("visit registered")
  /\ todo' = IF No THEN {} ELSE Remaining
  /\ UNCHANGED <<setup, config, templates, register, search, done, entries,
                 panicked, tasks, history>>

(* setupSharedRepositories, with ShowEntryMulti. *)
Share ==
  /\ At("share")
  /\ IF setup.auto \/ setup.nonInteractive THEN Goto("end")
                                           ELSE AskOptions("share?", NoByDefault)
  /\ UNCHANGED <<setup, config, work, panicked, tasks, history>>

ShareAnswered ==
  /\ Answered("share?")
  /\ IF No THEN Goto("end")
           ELSE pc' = "urls?" /\ ShowEntry("list", <<>>)
  /\ UNCHANGED <<setup, config, work, panicked, tasks, history>>

(* Mutant: the entries before an error are kept. *)
IgnoresError == FALSE

EntryFailed == ask.failed

(* The exit answer ends the list, an error rejects it. *)
UrlEntered ==
  /\ Answered("urls?")
  /\ CASE EntryFailed -> Goto("end") /\ UNCHANGED entries
       [] ~EntryFailed /\ ask.answer = <<>> -> Goto("unset urls") /\ UNCHANGED entries
       [] OTHER -> /\ entries' = Append(entries, ask.answer)
                   /\ ShowEntry("list", <<>>)
                   /\ UNCHANGED pc
  /\ UNCHANGED <<setup, config, templates, register, search, todo, done, panicked,
                 tasks, history>>

(* A failing `git config` ends the replacement. *)
UnsetUrls ==
  /\ At("unset urls")
  /\ \/ shared' = <<>> /\ Goto("add urls")
     \/ Goto("end") /\ UNCHANGED shared
  /\ UNCHANGED <<setup, previous, checks, work, panicked, tasks, history>>

AddUrl ==
  /\ At("add urls")
  /\ IF entries = <<>> THEN Goto("end") /\ UNCHANGED <<shared, entries>>
     ELSE \/ /\ shared' = Append(shared, Head(entries))
             /\ entries' = Tail(entries)
             /\ UNCHANGED <<pc, ask>>
          \/ Goto("end") /\ UNCHANGED <<shared, entries>>
  /\ UNCHANGED <<setup, previous, checks, templates, register, search, todo, done,
                 panicked, tasks, history>>

-----------------------------------------------------------------------------
Init ==
  /\ \E start \in Starts :
       /\ setup = start.setup
       /\ previous = start.previous
       /\ checks = start.checks
       /\ register = start.register
  /\ shared \in Urls
  /\ templates = <<>>
  /\ pc = IF setup.uninstall THEN "find existing"
          ELSE IF setup.fresh THEN "find templates" ELSE "checks"
  /\ panicked = FALSE
  /\ ask = Idle
  /\ tasks = <<>>
  /\ search = NoSearch
  /\ todo = {} /\ done = {} /\ entries = <<>>
  /\ visited = [stage \in Stages |-> {}]
  /\ refused = {}
  /\ listEnded = FALSE

Main == FindTemplates \/ SearchDisk \/ Look \/ IsIt \/ KeepSearching \/ UseIt
        \/ NewTemplates \/ TargetFolder \/ Checks \/ ChecksAnswered
        \/ FindExisting \/ ExistingAnswered \/ Where \/ Result \/ Timeout
        \/ (\E r \in Repo : Visit(r)) \/ Visited \/ FindRegistered
        \/ RegisteredAnswered \/ Share \/ ShareAnswered \/ UrlEntered
        \/ UnsetUrls \/ AddUrl

Next == Main \/ User \/ Prompt \/ \E i \in DOMAIN tasks : Goroutine(i)

(* The program goes on when it can, and the timer fires.  The user need    *)
(* not answer and a search need not end.                                   *)
Spec == Init /\ [][Next]_vars /\ WF_vars(Main)

-----------------------------------------------------------------------------
(* The values of the variables; what is typed is a text in lower case. *)
TypeOK ==
  /\ setup \in Setup
  /\ previous \in Text
  /\ checks \in {"", "on", "off"}
  /\ templates \in Text /\ shared \in Seq(Text) /\ entries \in Seq(Text)
  /\ register \subseteq Repo /\ todo \subseteq Repo /\ done \subseteq Repo
  /\ pc \in Steps /\ panicked \in BOOLEAN
  /\ ask \in [on : {"nothing", "terminal", "dialog", "answered"},
              kind : Kinds,
              options : Seq(Name), default : Text, tries : 0..MaxTries,
              typed : BOOLEAN, answer : Text, failed : BOOLEAN]
  /\ ask.on = "answered" /\ ~ask.failed => ask.answer = ToLower(ask.answer)
  /\ \A i \in DOMAIN tasks :
       /\ tasks[i].exit \in {0, 1}
       /\ tasks[i].state # "ended" => tasks[i].sent = "nothing" /\ tasks[i].matches = {}
  /\ search.result \in Samples \cup {<<>>}

(* A repository found on disk is visited only if a search that ended in    *)
(* time found it below the directory chosen, none is visited at a stage    *)
(* which the user refused, and none is visited again after it succeeded:   *)
(* the answer, the result of the background task and the visits may not    *)
(* come apart.                                                             *)
VisitsAsAsked ==
  /\ \A r \in visited["existing"] :
       /\ r \in FindGitDirs(tasks[Running].dir)
       /\ tasks[Running].clone /\ tasks[Running].sent = "ok"
       /\ r \in tasks[Running].matches
  /\ \A stage \in refused : visited[stage] = {}
  /\ pc = "visit registered" => todo \cap done = {}

(* The shared repositories are replaced only after the user has ended the  *)
(* list: an input that ends in the middle of it leaves them as they were.  *)
SharedAsEntered == [][shared' # shared => listEnded]_vars

(* The program never waits forever for a search, whether the search ends   *)
(* or not.                                                                 *)
SearchEnds == Waiting ~> (~Waiting \/ panicked)

(* The default shown for the start of the search is taken when the user    *)
(* just hits return.  TLC refutes it: an answer is turned to lower case    *)
(* before it is validated.                                                 *)
DefaultIsTaken == panicked /\ pc = "where?" => ask.typed
===============================================================================
