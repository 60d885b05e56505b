-------------------------- MODULE RepoSearch_proofs --------------------------
(***************************************************************************)
(* Proofs about RepoSearch: what is visited and which shared repositories  *)
(* are stored, for any user, directories, repositories and searches.       *)
(***************************************************************************)
EXTENDS RepoSearch, SequenceTheorems, FiniteSetTheorems, TLAPS

\* Sequences.
LEMMA NoElement == \A S : <<>> \in Seq(S) /\ DOMAIN <<>> = {}
OBVIOUS

LEMMA OneElement == \A e : <<e>> # <<>>
OBVIOUS

LEMMA Extended ==
  ASSUME NEW S, NEW s \in Seq(S), NEW e \in S
  PROVE  /\ Append(s, e) \in Seq(S)
         /\ Len(Append(s, e)) = Len(s) + 1
         /\ Append(s, e)[Len(s) + 1] = e
         /\ \A i \in 1 .. Len(s) : Append(s, e)[i] = s[i]
BY AppendProperties

LEMMA Changed ==
  ASSUME NEW S, NEW s \in Seq(S), NEW i \in DOMAIN s, NEW e \in S
  PROVE  /\ [s EXCEPT ![i] = e] \in Seq(S)
         /\ Len([s EXCEPT ![i] = e]) = Len(s)
         /\ [s EXCEPT ![i] = e][i] = e
         /\ \A j \in DOMAIN s : j # i => [s EXCEPT ![i] = e][j] = s[j]
BY ExceptSeq, LenProperties

LEMMA LastOne ==
  ASSUME NEW S, NEW s \in Seq(S), s # <<>>
  PROVE  Len(s) \in DOMAIN s /\ s[Len(s)] \in S /\ Head(s) \in S /\ Tail(s) \in Seq(S)
BY EmptySeq, LenProperties, ElementOfSeq, HeadTailProperties

-----------------------------------------------------------------------------
USE SearchAssumption DEF SearchAssumption

\* Types, as far as the properties depend on them.
Task == [kind : {"repos", "templates"}, dir : Text, state : {"created", "running", "ended"},
         clone : BOOLEAN, matches : SUBSET (Repo \cup Text),
         sent : {"nothing", "ok", "error"}, exit : {0, 1}]

AskKeys == {"on", "kind", "options", "default", "tries", "typed", "answer", "failed"}

SetupOK == setup \in Setup /\ pc \in Steps

TasksOK == /\ tasks \in Seq(Task)
           /\ \A i \in DOMAIN tasks :
                /\ tasks[i].kind = "repos" =>
                     tasks[i].matches \subseteq FindGitDirs(tasks[i].dir)
                /\ tasks[i].state # "ended" => tasks[i].sent = "nothing"

SearchOK == /\ DOMAIN search = {"places", "second", "matches", "result"}
            /\ search.places \in Seq(Dirs)

HistoryOK == /\ visited \in [Stages -> SUBSET Repo]
             /\ refused \subseteq Stages

\* A prompt is shown where it can be, with the options and of the kind its step asks.
Shown == ask.on \in {"terminal", "dialog"}

AskOK == /\ DOMAIN ask = AskKeys
         /\ ask.on = "dialog" => UseGUI
         /\ Shown /\ pc \in {"existing?", "registered?"} =>
              ask.kind = "options" /\ ask.options \in {YesByDefault, NoByDefault}
         /\ Shown /\ pc = "urls?" => ask.kind = "list"

TypeInv == SetupOK /\ TasksOK /\ SearchOK /\ HistoryOK /\ AskOK

\* The order of the steps: until the first visit of a stage nothing is visited at it.
Preparing == {"find templates", "search disk?", "look", "wait templates", "is it?",
              "keep searching?", "use it?", "new templates?", "target folder?",
              "checks", "checks?"}

BeforeExisting == Preparing \cup {"find existing", "existing?", "where?", "wait existing"}

BeforeRegistered == BeforeExisting \cup {"visit existing", "find registered", "registered?"}

Unvisited == /\ pc \in BeforeExisting => visited["existing"] = {}
             /\ pc \in BeforeRegistered => visited["registered"] = {}

\* A refusal has been read and not been looked at, or its stage is passed over.
Refusal(step) == pc = step /\ ask.on = "answered" /\ ask.answer = <<"n">>

Obeyed ==
  /\ "existing" \in refused =>
       /\ visited["existing"] = {}
       /\ Refusal("existing?") \/ pc \notin BeforeExisting \cup {"visit existing"}
  /\ "registered" \in refused =>
       /\ visited["registered"] = {}
       /\ Refusal("registered?") \/ pc \notin BeforeRegistered
       /\ pc = "visit registered" => todo = {}

\* What is still to visit after a search, and what was, is its result.
Chosen == visited["existing"] \cup IF pc = "visit existing" THEN todo ELSE {}

Found ==
  /\ Waiting => tasks # <<>> /\ tasks[Running].clone
  /\ pc = "wait existing" => tasks[Running].kind = "repos"
  /\ Chosen # {} => /\ tasks # <<>>
                     /\ tasks[Running].kind = "repos"
                     /\ tasks[Running].clone /\ tasks[Running].sent = "ok"
                     /\ Chosen \subseteq tasks[Running].matches

Once == pc = "visit registered" => todo \cap done = {}

\* The list of shared repositories is replaced after its end only.
Ended ==
  /\ pc \in {"share?", "urls?"} => ~setup.auto
  /\ pc = "urls?" /\ ask.on = "answered" /\ ~ask.failed /\ ask.answer = <<>> => listEnded
  /\ pc \in {"unset urls", "add urls"} => listEnded

IndInv == TypeInv /\ Unvisited /\ Obeyed /\ Found /\ Once /\ Ended

-----------------------------------------------------------------------------
LEMMA InitInv == Init => IndInv
<1> SUFFICES ASSUME Init PROVE IndInv
  OBVIOUS
<1>1. SetupOK
  BY DEF Init, SetupOK, Start, Steps
<1>2. TasksOK
  <2>1. tasks \in Seq(Task) /\ DOMAIN tasks = {}
    BY NoElement DEF Init
  <2> QED
    BY <2>1 DEF TasksOK
<1>3. SearchOK
  BY EmptySeq DEF Init, SearchOK, NoSearch
<1>4. HistoryOK
  BY DEF Init, HistoryOK
<1>5. AskOK
  BY DEF Init, AskOK, Idle, AskKeys, Shown
<1>6. Unvisited /\ Obeyed /\ Once
  BY DEF Init, Unvisited, Obeyed, Once, Stages
<1>7. Found /\ Ended
  BY DEF Init, Found, Chosen, Waiting, Ended, Stages
<1> QED
  BY <1>1, <1>2, <1>3, <1>4, <1>5, <1>6, <1>7 DEF IndInv, TypeInv

-----------------------------------------------------------------------------
\* Prompts.
LEMMA ShowOK ==
  ASSUME NEW kind, NEW options, NEW default, Show(kind, options, default), UNCHANGED setup
  PROVE  /\ DOMAIN ask' = AskKeys
         /\ ask'.on \in {"terminal", "dialog", "answered"}
         /\ ask'.on = "dialog" => UseGUI'
         /\ Shown' => ask'.kind = kind /\ ask'.options = options /\ ask'.default = default
         /\ ask'.on = "answered" => ask'.failed
BY DEF Show, Idle, AskKeys, UseGUI, HasOutput, Shown

LEMMA IdleOK ==
  ASSUME ask' = Idle
  PROVE  DOMAIN ask' = AskKeys /\ ask'.on = "nothing" /\ ~Shown'
BY DEF Idle, AskKeys, Shown

LEMMA LowerNo == ToLower(<<"n">>) = <<"n">> /\ ToLower(<<"N">>) = <<"n">>
BY DEF ToLower

LEMMA LowerNotEmpty ==
  ASSUME NEW text \in Text, text # <<>>
  PROVE  ToLower(text) \in Text /\ ToLower(text) # <<>>
<1>1. Len(text) \in Nat \ {0} /\ DOMAIN text = 1 .. Len(text)
  BY EmptySeq, LenProperties DEF Text
<1>2. \A i \in DOMAIN text : text[i] \in Name
  BY <1>1, ElementOfSeq DEF Text
<1>3. ToLower(text) \in [1 .. Len(text) -> Name]
  BY <1>1, <1>2 DEF ToLower
<1>4. ToLower(text) \in Seq(Name)
  BY <1>1, <1>3
<1>5. 1 \in DOMAIN ToLower(text)
  BY <1>1, <1>3
<1> QED
  BY <1>4, <1>5 DEF Text

-----------------------------------------------------------------------------
\* Steps.  Until "find existing" the program only asks, and searches for templates.
PreStep == \/ FindTemplates \/ SearchDisk \/ IsIt \/ KeepSearching \/ UseIt
           \/ NewTemplates \/ TargetFolder \/ Checks \/ ChecksAnswered

UserStep == User \/ Prompt

LEMMA PreSteps ==
  ASSUME TypeInv, PreStep
  PROVE  /\ pc \in Preparing \ {"wait templates"}
         /\ pc' \in (Preparing \cup {"find existing"}) \ {"wait templates"}
         /\ UNCHANGED <<setup, shared, tasks, todo, done, visited, refused, listEnded>>
         /\ SearchOK'
         /\ DOMAIN ask' = AskKeys /\ (ask'.on = "dialog" => UseGUI')
<1> USE DEF At, Answered, Preparing, Goto, AskOptions, ShowOptions, AskNew, config, history,
            TypeInv, AskOK, SearchOK
<1>0. ASSUME ask' = Idle \/ (\E options : Show("options", options, DefaultAnswer(options)))
                          \/ (\E default : Show("any text", <<>>, default)) \/ UNCHANGED ask,
             UNCHANGED setup
      PROVE  DOMAIN ask' = AskKeys /\ (ask'.on = "dialog" => UseGUI')
  BY <1>0, ShowOK, IdleOK DEF UseGUI, HasOutput
<1>1. CASE FindTemplates
  BY <1>0, <1>1 DEF FindTemplates
<1>2. CASE SearchDisk
  BY <1>0, <1>2 DEF SearchDisk, NoSearch
<1>3. CASE IsIt
  BY <1>0, <1>3 DEF IsIt, ShowMatch
<1>4. CASE KeepSearching
  BY <1>0, <1>4 DEF KeepSearching, NoSearch
<1>5. CASE UseIt \/ TargetFolder
  BY <1>0, <1>5 DEF UseIt, TargetFolder
<1>6. CASE NewTemplates
  BY <1>0, <1>6 DEF NewTemplates, ShowEntry, work
<1>7. CASE Checks \/ ChecksAnswered
  BY <1>0, <1>7 DEF Checks, ChecksAnswered, work
<1> QED
  BY <1>1, <1>2, <1>3, <1>4, <1>5, <1>6, <1>7 DEF PreStep

\* The user only answers.
LEMMA UserSteps ==
  ASSUME UserStep, DOMAIN ask = AskKeys
  PROVE  /\ UNCHANGED <<setup, shared, tasks, search, todo, done, pc, visited>>
         /\ Shown
         /\ DOMAIN ask' = AskKeys
         /\ ask'.on \in {ask.on, "answered"}
         /\ ask'.kind = ask.kind /\ ask'.options = ask.options
<1> USE DEF config, work
<1>1. ASSUME NEW line, ReadLine(line)
      PROVE  /\ UNCHANGED <<setup, shared, tasks, search, todo, done, pc, visited>>
             /\ ask.on = "terminal" /\ \E answer : Judge(answer, line # <<>>)
  BY <1>1 DEF ReadLine
<1>2. ASSUME NEW option, Choose(option)
      PROVE  /\ UNCHANGED <<setup, shared, tasks, search, todo, done, pc, visited>>
             /\ ask.on = "dialog" /\ Judge(option, TRUE)
  BY <1>2 DEF Choose
<1>3. ASSUME NEW answer, NEW typed, Judge(answer, typed)
      PROVE  /\ DOMAIN ask' = AskKeys
             /\ ask'.on \in {ask.on, "answered"}
             /\ ask'.kind = ask.kind /\ ask'.options = ask.options
  BY <1>3 DEF Judge, AskKeys
<1>4. CASE Prompt
  BY <1>4 DEF Prompt, EndOfInput, DialogFails, Shown, AskKeys, history
<1>5. CASE User
  BY <1>1, <1>2, <1>3, <1>5 DEF User, Dialog, Shown
<1> QED
  BY <1>4, <1>5 DEF UserStep

\* A background task changes nothing else.
LEMMA TaskSteps ==
  ASSUME TypeInv, NEW i \in DOMAIN tasks, Goroutine(i)
  PROVE  /\ UNCHANGED <<setup, shared, search, todo, done, pc, ask>>
         /\ UNCHANGED <<visited, refused, listEnded>>
         /\ TasksOK'
         /\ Len(tasks') = Len(tasks) /\ tasks # <<>>
         /\ \A j \in DOMAIN tasks : /\ tasks'[j].kind = tasks[j].kind
                                    /\ tasks'[j].dir = tasks[j].dir
                                    /\ tasks'[j].clone = tasks[j].clone
                                    /\ tasks[j].sent = "ok" => tasks'[j] = tasks[j]
<1> USE DEF TypeInv, TasksOK
<1>0. i \in 1 .. Len(tasks)
  BY LenProperties
<1>1. tasks[i] \in Task /\ tasks[i].state # "ended"
  BY <1>0, ElementOfSeq DEF Goroutine, StartTask, RunTask
<1>2. PICK t \in Task : /\ tasks' = [tasks EXCEPT ![i] = t]
                        /\ t.kind = tasks[i].kind /\ t.dir = tasks[i].dir
                        /\ t.clone = tasks[i].clone
                        /\ t.kind = "repos" => t.matches \subseteq FindGitDirs(t.dir)
                        /\ t.state # "ended" => t.sent = "nothing"
  <2>1. CASE StartTask(i)
    <3>1. tasks' = [tasks EXCEPT ![i] = [tasks[i] EXCEPT !.state = "running"]]
      BY <2>1, <1>1 DEF StartTask
    <3>2. [tasks[i] EXCEPT !.state = "running"] \in Task
      BY <1>1 DEF Task
    <3> QED
      BY <1>1, <3>1, <3>2 DEF Task
  <2>2. CASE RunTask(i)
    <3>1. PICK found \in Findings(tasks[i]), result \in {"ok", "error"} :
            tasks' = [tasks EXCEPT ![i] = [tasks[i] EXCEPT
                        !.state = "ended", !.matches = found, !.sent = result]]
      BY <2>2 DEF RunTask
    <3>2. found \subseteq Repo \cup Text
          /\ (tasks[i].kind = "repos" => found \subseteq FindGitDirs(tasks[i].dir))
      <4>1. \A dir : FindGitDirs(dir) \subseteq Repo
        BY DEF FindGitDirs
      <4>2. \A dir : FindSamples(dir) \subseteq Text
        BY DEF FindSamples
      <4>3. CASE tasks[i].kind = "repos"
        BY <4>1, <4>3 DEF Findings
      <4>4. CASE tasks[i].kind # "repos"
        BY <4>2, <4>4 DEF Findings
      <4> QED
        BY <4>3, <4>4
    <3>3. [tasks[i] EXCEPT !.state = "ended", !.matches = found, !.sent = result] \in Task
      BY <1>1, <3>2 DEF Task
    <3> QED
      BY <1>1, <3>1, <3>2, <3>3 DEF Task
  <2> QED
    BY <2>1, <2>2 DEF Goroutine
<1>3. /\ tasks' \in Seq(Task) /\ Len(tasks') = Len(tasks) /\ tasks'[i] = t
      /\ \A j \in DOMAIN tasks : j # i => tasks'[j] = tasks[j]
  BY <1>2, Changed
<1>4. DOMAIN tasks' = DOMAIN tasks
  BY <1>2
<1>5. TasksOK'
  BY <1>2, <1>3, <1>4
<1>6. tasks # <<>>
  BY EmptySeq
<1> QED
  BY <1>1, <1>2, <1>3, <1>5, <1>6
     DEF Goroutine, StartTask, RunTask, config, work, history

-----------------------------------------------------------------------------
\* Types.
MainStep == \/ Look \/ FindExisting \/ ExistingAnswered \/ Where \/ Result \/ Timeout
            \/ (\E r \in Repo : Visit(r)) \/ Visited \/ FindRegistered
            \/ RegisteredAnswered \/ Share \/ ShareAnswered \/ UrlEntered
            \/ UnsetUrls \/ AddUrl

LEMMA AllSteps ==
  ASSUME [Next]_vars
  PROVE  \/ PreStep \/ MainStep \/ UserStep \/ UNCHANGED vars
         \/ \E i \in DOMAIN tasks : Goroutine(i)
BY DEF Next, Main, PreStep, MainStep, UserStep

\* A prompt, or none, follows a step of the program.
Asks(step, kind, options) ==
  /\ pc' = step
  /\ DOMAIN ask' = AskKeys /\ ask'.on \in {"terminal", "dialog", "answered"}
  /\ ask'.on = "dialog" => UseGUI'
  /\ Shown' => ask'.kind = kind /\ ask'.options = options
  /\ ask'.on = "answered" => ask'.failed

LEMMA Asked ==
  ASSUME UNCHANGED setup
  PROVE  /\ \A step, options : AskOptions(step, options) => Asks(step, "options", options)
         /\ \A step, kind, default :
              pc' = step /\ ShowEntry(kind, default) => Asks(step, kind, <<>>)
<1>1. ASSUME NEW step, NEW options, AskOptions(step, options)
      PROVE  Asks(step, "options", options)
  BY <1>1, ShowOK DEF AskOptions, ShowOptions, Asks
<1>2. ASSUME NEW step, NEW kind, NEW default, pc' = step, ShowEntry(kind, default)
      PROVE  Asks(step, kind, <<>>)
  BY <1>2, ShowOK DEF ShowEntry, Asks
<1> QED
  BY <1>1, <1>2

\* The prompts of the steps.
LEMMA MainPrompts ==
  ASSUME TypeInv, MainStep
  PROVE  /\ AskOK' /\ UNCHANGED <<setup, refused, listEnded>> /\ pc' \in Steps
         /\ (\E r \in Repo : Visit(r)) \/ UNCHANGED visited
<1> USE DEF TypeInv, SetupOK, AskOK, Steps, Goto, history, config, work
<1>1. CASE Look
  <2>1. CASE search.places = <<>>
    BY <1>1, <2>1, Asked, IdleOK DEF Look, Searched, AskNew, Asks, UseGUI, HasOutput
  <2>2. CASE search.places # <<>>
    BY <1>1, <2>2, IdleOK DEF Look
  <2> QED
    BY <2>1, <2>2
<1>2. ASSUME NEW text, StartSearch(text), UNCHANGED <<setup, refused, listEnded, visited>>
      PROVE  AskOK' /\ pc' \in Steps
  BY <1>2, IdleOK DEF StartSearch
<1>3. CASE FindExisting
  <2>1. UNCHANGED <<setup, refused, listEnded, visited>>
    BY <1>3 DEF FindExisting
  <2>2. CASE StartSearch(previous) \/ Goto("find registered")
    BY <1>2, <2>1, <2>2, IdleOK
  <2>3. CASE \E options \in {YesByDefault, NoByDefault} : AskOptions("existing?", options)
    BY <2>1, <2>3, Asked DEF Asks
  <2> QED
    BY <1>3, <2>1, <2>2, <2>3 DEF FindExisting
<1>4. CASE ExistingAnswered
  BY <1>4, Asked, IdleOK DEF ExistingAnswered, Asks
<1>5. CASE Where
  BY <1>2, <1>5 DEF Where
<1>6. ASSUME NEW ok, TakeResult(ok), UNCHANGED <<setup, refused, listEnded, visited>>
      PROVE  AskOK' /\ pc' \in Steps
  <2>1. CASE ask' = Idle /\ pc' \in {"look", "find registered", "visit existing"}
    BY <2>1, IdleOK
  <2>2. CASE AskOptions("is it?", NoByDefault)
    <3>1. Asks("is it?", "options", NoByDefault)
      BY <1>6, <2>2, Asked
    <3> QED
      BY <3>1 DEF Asks
  <2> QED
    BY <1>6, <2>1, <2>2 DEF TakeResult, ShowMatch
<1>7. CASE Result \/ Timeout
  BY <1>6, <1>7 DEF Result, Timeout
<1>8. CASE \E r \in Repo : Visit(r)
  BY <1>8 DEF Visit, UseGUI, HasOutput, Shown
<1>9. CASE Visited
  BY <1>9, IdleOK DEF Visited
<1>10. CASE FindRegistered
  <2>1. UNCHANGED <<setup, refused, listEnded, visited>>
    BY <1>10 DEF FindRegistered
  <2>2. CASE Goto("visit registered")
    BY <2>1, <2>2, IdleOK
  <2>3. CASE AskOptions("registered?", YesByDefault)
    <3>1. Asks("registered?", "options", YesByDefault)
      BY <2>1, <2>3, Asked
    <3> QED
      BY <2>1, <3>1 DEF Asks
  <2> QED
    BY <1>10, <2>1, <2>2, <2>3 DEF FindRegistered
<1>11. CASE RegisteredAnswered
  BY <1>11, IdleOK DEF RegisteredAnswered
<1>12. CASE Share
  <2>1. UNCHANGED <<setup, refused, listEnded, visited>>
    BY <1>12 DEF Share
  <2>2. CASE Goto("end")
    BY <2>1, <2>2, IdleOK
  <2>3. CASE AskOptions("share?", NoByDefault)
    <3>1. Asks("share?", "options", NoByDefault)
      BY <2>1, <2>3, Asked
    <3> QED
      BY <2>1, <3>1 DEF Asks
  <2> QED
    BY <1>12, <2>1, <2>2, <2>3 DEF Share
<1>13. CASE ShareAnswered
  BY <1>13, Asked, IdleOK DEF ShareAnswered, Asks
<1>14. CASE UrlEntered
  <2>1. UNCHANGED <<setup, refused, listEnded, visited>>
    BY <1>14 DEF UrlEntered
  <2>2. CASE Goto("end") \/ Goto("unset urls")
    BY <2>1, <2>2, IdleOK
  <2>3. CASE pc' = "urls?" /\ ShowEntry("list", <<>>)
    BY <2>1, <2>3, Asked DEF Asks
  <2> QED
    BY <1>14, <2>1, <2>2, <2>3 DEF UrlEntered, Answered
<1>15. CASE UnsetUrls
  BY <1>15, IdleOK DEF UnsetUrls
<1>16. CASE AddUrl
  BY <1>16, IdleOK DEF AddUrl, UseGUI, HasOutput, At
<1> QED
  BY <1>1, <1>3, <1>4, <1>5, <1>7, <1>8, <1>9, <1>10, <1>11, <1>12, <1>13, <1>14,
     <1>15, <1>16 DEF MainStep

\* A search is started, or the tasks are as they were but for the signal to stop.
Started(kind, dir) == tasks' = Append(tasks, NewTask(kind, dir)) /\ dir \in Text

LEMMA StartedOK ==
  ASSUME TasksOK, NEW kind \in {"repos", "templates"}, NEW dir, Started(kind, dir)
  PROVE  /\ TasksOK' /\ tasks' # <<>>
         /\ tasks'[Running'].kind = kind /\ tasks'[Running'].clone
<1>1. NewTask(kind, dir) \in Task
  BY DEF NewTask, Task, Started
<1>2. /\ tasks' \in Seq(Task) /\ Len(tasks') = Len(tasks) + 1
      /\ tasks'[Len(tasks) + 1] = NewTask(kind, dir)
      /\ \A i \in 1 .. Len(tasks) : tasks'[i] = tasks[i]
  BY <1>1, Extended DEF Started, TasksOK
<1>3. Len(tasks) \in Nat /\ DOMAIN tasks = 1 .. Len(tasks)
      /\ DOMAIN tasks' = 1 .. Len(tasks')
  BY <1>2, LenProperties DEF TasksOK
<1>4. \A i \in DOMAIN tasks' : i \in DOMAIN tasks \/ i = Len(tasks) + 1
  BY <1>2, <1>3
<1>5. TasksOK'
  BY <1>2, <1>3, <1>4 DEF TasksOK, NewTask
<1>6. Len(tasks') # 0 /\ Running' = Len(tasks) + 1
  BY <1>2, <1>3 DEF Running
<1>7. tasks' # <<>>
  BY <1>6, EmptySeq
<1> QED
  BY <1>2, <1>5, <1>6, <1>7 DEF NewTask

LEMMA MainTasks ==
  ASSUME TypeInv, Found, MainStep
  PROVE  /\ TasksOK' /\ SearchOK'
         /\ \/ UNCHANGED tasks /\ ~Waiting'
            \/ Timeout
            \/ /\ pc \in {"look", "find existing", "where?"}
               /\ pc' \in {"wait templates", "wait existing"}
               /\ tasks' # <<>> /\ tasks'[Running'].clone
               /\ pc' = "wait existing" => tasks'[Running'].kind = "repos"
<1> USE DEF TypeInv, SearchOK, Goto, Waiting
<1>1. CASE Look
  <2>1. CASE search.places = <<>>
    BY <1>1, <2>1 DEF Look, TasksOK, Searched, AskNew, AskOptions
  <2>2. CASE search.places # <<>>
    <3>1. Head(search.places) \in Dirs /\ Tail(search.places) \in Seq(Dirs)
      BY <2>2, LastOne
    <3>2. Started("templates", Head(search.places))
      BY <1>1, <2>2, <3>1 DEF Look, Started, RunTaskWithProgress
    <3> QED
      BY <1>1, <2>2, <3>1, <3>2, StartedOK DEF Look, At
  <2> QED
    BY <2>1, <2>2
<1>2. ASSUME NEW text, StartSearch(text), UNCHANGED search
      PROVE  /\ TasksOK' /\ SearchOK'
             /\ \/ UNCHANGED tasks /\ ~Waiting'
                \/ /\ pc' = "wait existing"
                   /\ tasks' # <<>> /\ tasks'[Running'].clone
                   /\ tasks'[Running'].kind = "repos"
  <2>1. CASE UNCHANGED tasks /\ pc' = "find registered"
    BY <1>2, <2>1 DEF TasksOK
  <2>2. CASE pc' = "wait existing" /\ Started("repos", ReplaceTilde(text))
    BY <1>2, <2>2, StartedOK
  <2> QED
    BY <1>2, <2>1, <2>2 DEF StartSearch, Started, RunTaskWithProgress
<1>3. CASE FindExisting
  BY <1>2, <1>3 DEF FindExisting, work, At, TasksOK, AskOptions
<1>4. CASE Where
  BY <1>2, <1>4 DEF Where, work, Answered
<1>5. ASSUME NEW ok, TakeResult(ok)
      PROVE  SearchOK'
  BY <1>5, EmptySeq DEF TakeResult
<1>6. CASE Result
  <2>1. ~Waiting'
    BY <1>6 DEF Result, TakeResult, ShowMatch, AskOptions
  <2> QED
    BY <1>5, <1>6, <2>1 DEF Result, TasksOK
<1>7. CASE Timeout
  <2> DEFINE t == [tasks[Running] EXCEPT !.clone = FALSE, !.exit = 1]
  <2>1. tasks # <<>> /\ tasks \in Seq(Task)
    BY <1>7 DEF Timeout, Found, TasksOK
  <2>2. Running \in DOMAIN tasks /\ tasks[Running] \in Task
    BY <2>1, LastOne DEF Running
  <2>3. t \in Task /\ t.kind = tasks[Running].kind /\ t.dir = tasks[Running].dir
        /\ t.matches = tasks[Running].matches /\ t.state = tasks[Running].state
        /\ t.sent = tasks[Running].sent
    BY <2>2 DEF Task
  <2>4. tasks' = [tasks EXCEPT ![Running] = t]
    BY <1>7 DEF Timeout
  <2> HIDE DEF t
  <2>5. /\ tasks' \in Seq(Task) /\ tasks'[Running] = t
        /\ \A j \in DOMAIN tasks : j # Running => tasks'[j] = tasks[j]
        /\ DOMAIN tasks' = DOMAIN tasks
    BY <2>1, <2>2, <2>3, <2>4, Changed
  <2>6. ASSUME NEW i \in DOMAIN tasks'
        PROVE  /\ tasks'[i].kind = "repos" =>
                    tasks'[i].matches \subseteq FindGitDirs(tasks'[i].dir)
               /\ tasks'[i].state # "ended" => tasks'[i].sent = "nothing"
    <3>1. CASE i = Running
      BY <2>2, <2>3, <2>5, <3>1 DEF TasksOK
    <3>2. CASE i # Running
      BY <2>5, <3>2 DEF TasksOK
    <3> QED
      BY <3>1, <3>2
  <2>7. TasksOK'
    BY <2>5, <2>6 DEF TasksOK
  <2> QED
    BY <1>5, <1>7, <2>7 DEF Timeout
<1>8. CASE ExistingAnswered \/ Visited \/ FindRegistered \/ RegisteredAnswered \/ Share
           \/ ShareAnswered \/ UrlEntered \/ UnsetUrls \/ AddUrl
  BY <1>8 DEF ExistingAnswered, Visited, FindRegistered, RegisteredAnswered, Share,
     ShareAnswered, UrlEntered, UnsetUrls, AddUrl, work, TasksOK, AskOptions, At, Answered
<1>9. CASE \E r \in Repo : Visit(r)
  BY <1>9 DEF Visit, TasksOK, At
<1> QED
  BY <1>1, <1>3, <1>4, <1>6, <1>7, <1>8, <1>9 DEF MainStep

\* Who refuses is not asked again: `n` and `N` are answers to these questions.
LEMMA UserRefuses ==
  ASSUME TypeInv, UserStep
  PROVE  \/ UNCHANGED refused
         \/ /\ refused' = refused \cup {Stage}
            /\ pc \in {"existing?", "registered?"}
            /\ ask'.on = "answered" /\ ask'.answer = <<"n">>
<1> USE DEF TypeInv
<1>1. ASSUME NEW answer, NEW typed, Judge(answer, typed), ToLower(answer) = <<"n">>,
             Shown, pc \in {"existing?", "registered?"}
      PROVE  ask'.on = "answered" /\ ask'.answer = <<"n">>
  <2>1. ask.kind = "options" /\ ask.options \in {YesByDefault, NoByDefault}
    BY <1>1 DEF AskOK
  <2>2. \E i \in DOMAIN ask.options : ToLower(<<ask.options[i]>>) = <<"n">>
    <3>1. 2 \in DOMAIN ask.options /\ ask.options[2] \in {"n", "N"}
      BY <2>1 DEF YesByDefault, NoByDefault
    <3> QED
      BY <3>1, LowerNo
  <2>3. IsValid(answer)
    BY <1>1, <2>1, <2>2 DEF IsValid
  <2> QED
    BY <1>1, <2>3 DEF Judge, AskOK, AskKeys
<1>2. ASSUME NEW line, ReadLine(line), SaysNo(line)
      PROVE  ask'.on = "answered" /\ ask'.answer = <<"n">>
  <2>1. line \in {<<"n">>, <<"N">>} /\ Shown /\ pc \in {"existing?", "registered?"}
    BY <1>2 DEF SaysNo, ReadLine, Shown
  <2>2. Judge(ToLower(line), line # <<>>) /\ ToLower(ToLower(line)) = <<"n">>
    <3>1. line # <<>>
      BY <2>1, OneElement
    <3> QED
      BY <1>2, <2>1, <3>1, LowerNo DEF ReadLine
  <2> QED
    BY <1>1, <2>1, <2>2
<1>3. ASSUME NEW option, Choose(option), SaysNo(option)
      PROVE  ask'.on = "answered" /\ ask'.answer = <<"n">>
  BY <1>1, <1>3, LowerNo DEF Choose, SaysNo, Shown
<1>4. CASE Prompt
  BY <1>4 DEF Prompt, EndOfInput, DialogFails, history
<1>5. ASSUME NEW line, ReadLine(line) \/ Choose(line)
      PROVE  \/ UNCHANGED refused
             \/ /\ refused' = refused \cup {Stage} /\ SaysNo(line)
  BY <1>5 DEF ReadLine, Choose
<1>6. CASE User
  <2>1. PICK line : ReadLine(line) \/ Choose(line)
    BY <1>6 DEF User, Dialog
  <2> QED
    BY <1>2, <1>3, <1>5, <2>1 DEF SaysNo
<1> QED
  BY <1>4, <1>6 DEF UserStep

LEMMA NextType == IndInv /\ [Next]_vars => TypeInv'
<1> SUFFICES ASSUME IndInv, [Next]_vars PROVE TypeInv'
  OBVIOUS
<1> USE DEF IndInv, TypeInv
<1>1. CASE PreStep
  <2>1. SetupOK' /\ AskOK'
    BY <1>1, PreSteps DEF SetupOK, AskOK, Preparing, Steps
  <2> QED
    BY <1>1, <2>1, PreSteps DEF TasksOK, HistoryOK
<1>2. CASE MainStep
  <2>1. SetupOK' /\ AskOK' /\ refused' \subseteq Stages
    BY <1>2, MainPrompts DEF SetupOK, HistoryOK
  <2>2. visited' \in [Stages -> SUBSET Repo]
    <3>1. CASE UNCHANGED visited
      BY <3>1 DEF HistoryOK
    <3>2. ASSUME NEW r \in Repo, Visit(r)
          PROVE  visited' \in [Stages -> SUBSET Repo]
      BY <3>2 DEF Visit, HistoryOK, Stage, Stages
    <3> QED
      BY <1>2, <3>1, <3>2, MainPrompts
  <2> QED
    BY <1>2, <2>1, <2>2, MainTasks DEF HistoryOK
<1>3. CASE UserStep
  <2>1. SetupOK' /\ TasksOK' /\ SearchOK' /\ AskOK'
    BY <1>3, UserSteps DEF SetupOK, TasksOK, SearchOK, AskOK, Shown, UseGUI, HasOutput
  <2>2. refused' \subseteq Stages
    BY <1>3, UserRefuses DEF HistoryOK, Stage, Stages
  <2> QED
    BY <1>3, <2>1, <2>2, UserSteps DEF HistoryOK, AskOK
<1>4. ASSUME NEW i \in DOMAIN tasks, Goroutine(i)
      PROVE  TypeInv'
  BY <1>4, TaskSteps DEF SetupOK, SearchOK, HistoryOK, AskOK, Shown, UseGUI, HasOutput
<1>5. CASE UNCHANGED vars
  BY <1>5 DEF vars, config, work, history, SetupOK, TasksOK, SearchOK, HistoryOK, AskOK,
     Shown, UseGUI, HasOutput
<1> QED
  BY <1>1, <1>2, <1>3, <1>4, <1>5, AllSteps

-----------------------------------------------------------------------------
\* The order of the steps.
LEMMA MainOrder ==
  ASSUME SetupOK, MainStep, ~\E r \in Repo : Visit(r)
  PROVE  /\ pc' \in BeforeExisting => pc \in BeforeExisting
         /\ pc' \in BeforeRegistered => pc \in BeforeRegistered
         /\ pc \in BeforeExisting => pc' \in BeforeRegistered
         /\ pc' = "visit existing" => pc = "wait existing"
         /\ pc' = "visit registered" => pc \in BeforeRegistered
<1> USE DEF BeforeExisting, BeforeRegistered, Preparing, At, Answered, Goto, Waiting
<1>1. CASE Look
  BY <1>1 DEF Look, Searched, AskNew, AskOptions
<1>2. ASSUME NEW text, StartSearch(text)
      PROVE  pc' \in {"wait existing", "find registered"}
  BY <1>2 DEF StartSearch
<1>3. CASE FindExisting \/ ExistingAnswered \/ Where
  BY <1>2, <1>3 DEF FindExisting, ExistingAnswered, Where, AskOptions
<1>4. CASE Result \/ Timeout
  BY <1>4 DEF Result, Timeout, TakeResult, ShowMatch, AskOptions
<1>5. CASE Visited \/ FindRegistered \/ RegisteredAnswered
  BY <1>5 DEF Visited, FindRegistered, RegisteredAnswered, AskOptions
<1>6. CASE Share \/ ShareAnswered \/ UnsetUrls
  BY <1>6 DEF Share, ShareAnswered, UnsetUrls, AskOptions
<1>7. CASE UrlEntered
  BY <1>7 DEF UrlEntered
<1>8. CASE AddUrl
  BY <1>8 DEF AddUrl
<1> QED
  BY <1>1, <1>3, <1>4, <1>5, <1>6, <1>7, <1>8 DEF MainStep

LEMMA NextUnvisited == IndInv /\ [Next]_vars => Unvisited'
<1> SUFFICES ASSUME IndInv, [Next]_vars PROVE Unvisited'
  OBVIOUS
<1> USE DEF IndInv, TypeInv, Unvisited
<1>1. CASE PreStep
  BY <1>1, PreSteps DEF BeforeExisting, BeforeRegistered, Preparing
<1>2. CASE MainStep
  <2>1. CASE \E r \in Repo : Visit(r)
    <3>1. PICK r \in Repo : Visit(r)
      BY <2>1
    <3>2. CASE pc = "visit existing"
      BY <3>1, <3>2 DEF Visit, Stage, HistoryOK, Stages, BeforeExisting, BeforeRegistered,
         Preparing
    <3>3. CASE pc = "visit registered"
      BY <3>1, <3>3 DEF Visit, BeforeExisting, BeforeRegistered, Preparing
    <3> QED
      BY <3>1, <3>2, <3>3 DEF Visit, At
  <2>2. CASE ~\E r \in Repo : Visit(r)
    BY <1>2, <2>2, MainOrder, MainPrompts
  <2> QED
    BY <2>1, <2>2
<1>3. CASE UserStep
  BY <1>3, UserSteps DEF AskOK
<1>4. ASSUME NEW i \in DOMAIN tasks, Goroutine(i)
      PROVE  Unvisited'
  BY <1>4, TaskSteps
<1>5. CASE UNCHANGED vars
  BY <1>5 DEF vars, history
<1> QED
  BY <1>1, <1>2, <1>3, <1>4, <1>5, AllSteps

\* A refusal is obeyed.
LEMMA MainObeys ==
  ASSUME MainStep
  PROVE  /\ Refusal("existing?") => pc' = "find registered" /\ UNCHANGED visited
         /\ Refusal("registered?") => /\ pc' = "visit registered" /\ todo' = {}
                                      /\ UNCHANGED visited
<1> USE DEF Refusal, At, Answered, Goto, history, config, work
<1>1. CASE ExistingAnswered
  BY <1>1 DEF ExistingAnswered, No
<1>2. CASE RegisteredAnswered
  BY <1>2 DEF RegisteredAnswered, No
<1>3. CASE Look \/ FindExisting \/ Where \/ Result \/ Timeout \/ (\E r \in Repo : Visit(r))
  BY <1>3 DEF Look, FindExisting, Where, Result, Timeout, Waiting, Visit
<1>4. CASE \/ Visited \/ FindRegistered \/ Share \/ ShareAnswered \/ UrlEntered
           \/ UnsetUrls \/ AddUrl
  BY <1>4 DEF Visited, FindRegistered, Share, ShareAnswered, UrlEntered, UnsetUrls, AddUrl
<1> QED
  BY <1>1, <1>2, <1>3, <1>4 DEF MainStep

LEMMA NextObeyed == IndInv /\ [Next]_vars => Obeyed'
<1> SUFFICES ASSUME IndInv, [Next]_vars PROVE Obeyed'
  OBVIOUS
<1> USE DEF IndInv, TypeInv, Obeyed
<1>1. CASE PreStep
  <2>1. refused = {}
    BY <1>1, PreSteps DEF Refusal, BeforeExisting, BeforeRegistered, Preparing, HistoryOK,
       Stages
  <2> QED
    BY <1>1, <2>1, PreSteps
<1>2. CASE MainStep
  <2>1. CASE \E r \in Repo : Visit(r)
    <3>1. PICK r \in Repo : Visit(r)
      BY <2>1
    <3>2. CASE pc = "visit existing"
      <4>1. refused = {}
        BY <3>2 DEF Refusal, BeforeExisting, BeforeRegistered, HistoryOK, Stages
      <4> QED
        BY <3>1, <4>1 DEF Visit
    <3>3. CASE pc = "visit registered"
      <4>1. "registered" \notin refused /\ UNCHANGED <<refused, pc>>
        BY <3>1, <3>3 DEF Visit, Refusal, BeforeRegistered, BeforeExisting, Preparing
      <4>2. visited'["existing"] = visited["existing"]
        BY <3>1, <3>3 DEF Visit, Stage, HistoryOK, Stages
      <4> QED
        BY <3>3, <4>1, <4>2 DEF Refusal, BeforeExisting, Preparing
    <3> QED
      BY <3>1, <3>2, <3>3 DEF Visit, At
  <2>2. CASE ~\E r \in Repo : Visit(r)
    <3>1. UNCHANGED <<refused, visited>>
      BY <1>2, <2>2, MainPrompts
    <3>2. "existing" \in refused => pc' \notin BeforeExisting \cup {"visit existing"}
      <4>1. CASE Refusal("existing?")
        BY <1>2, <4>1, MainObeys DEF BeforeExisting, Preparing
      <4>2. CASE pc \notin BeforeExisting
        BY <1>2, <2>2, <4>2, MainOrder DEF BeforeExisting
      <4> QED
        BY <4>1, <4>2
    <3>3. "registered" \in refused => pc' \notin BeforeRegistered
                                      /\ (pc' = "visit registered" => todo' = {})
      <4>1. CASE Refusal("registered?")
        BY <1>2, <4>1, MainObeys DEF BeforeRegistered, BeforeExisting, Preparing
      <4>2. CASE pc \notin BeforeRegistered
        BY <1>2, <2>2, <4>2, MainOrder
      <4> QED
        BY <4>1, <4>2
    <3> QED
      BY <3>1, <3>2, <3>3
  <2> QED
    BY <2>1, <2>2
<1>3. CASE UserStep
  <2>1. Shown /\ UNCHANGED <<visited, pc, todo>>
    BY <1>3, UserSteps DEF AskOK
  <2>2. CASE UNCHANGED refused
    BY <2>1, <2>2 DEF Refusal, Shown
  <2>3. CASE /\ refused' = refused \cup {Stage}
             /\ pc \in {"existing?", "registered?"}
             /\ ask'.on = "answered" /\ ask'.answer = <<"n">>
    <3>1. CASE pc = "existing?"
      <4>1. Stage = "existing" /\ refused = {} /\ visited["existing"] = {}
        BY <2>1, <3>1 DEF Stage, Refusal, Shown, HistoryOK, Stages, Unvisited,
           BeforeExisting, BeforeRegistered
      <4> QED
        BY <2>1, <2>3, <3>1, <4>1 DEF Refusal
    <3>2. CASE pc = "registered?"
      <4>1. Stage = "registered" /\ visited["registered"] = {}
        BY <3>2 DEF Stage, Unvisited, BeforeRegistered
      <4>2. "existing" \in refused => visited["existing"] = {}
        OBVIOUS
      <4> QED
        BY <2>1, <2>3, <3>2, <4>1, <4>2 DEF Refusal, BeforeExisting, Preparing
    <3> QED
      BY <2>3, <3>1, <3>2
  <2> QED
    BY <1>3, <2>2, <2>3, UserRefuses
<1>4. ASSUME NEW i \in DOMAIN tasks, Goroutine(i)
      PROVE  Obeyed'
  BY <1>4, TaskSteps DEF Refusal
<1>5. CASE UNCHANGED vars
  BY <1>5 DEF vars, work, history, Refusal
<1> QED
  BY <1>1, <1>2, <1>3, <1>4, <1>5, AllSteps

-----------------------------------------------------------------------------
\* What was found.
LEMMA NextFound == IndInv /\ [Next]_vars => Found'
<1> SUFFICES ASSUME IndInv, [Next]_vars PROVE Found'
  OBVIOUS
<1> USE DEF IndInv, TypeInv, Found, Waiting
<1>1. CASE PreStep
  <2>1. pc' # "visit existing" /\ visited' = visited /\ visited["existing"] = {}
    BY <1>1, PreSteps DEF Unvisited, BeforeExisting, Preparing
  <2> QED
    BY <1>1, <2>1, PreSteps DEF Chosen, Preparing
<1>2. CASE Result
  <2>1. /\ tasks # <<>> /\ tasks[Running].clone /\ tasks[Running].sent # "nothing"
        /\ UNCHANGED <<tasks, visited>> /\ visited["existing"] = {}
    BY <1>2 DEF Result, history, Unvisited, BeforeExisting, Preparing
  <2>2. Running' = Running
    BY <2>1 DEF Running
  <2>3. CASE pc = "wait templates"
    <3>1. pc' \in {"look", "is it?"}
      BY <1>2, <2>3 DEF Result, TakeResult, ShowMatch, Goto, AskOptions
    <3> QED
      BY <2>1, <3>1 DEF Chosen
  <2>4. CASE pc = "wait existing"
    <3>1. /\ pc' \in {"find registered", "visit existing"}
          /\ todo' = IF tasks[Running].sent = "ok" THEN tasks[Running].matches ELSE {}
      BY <1>2, <2>4 DEF Result, TakeResult, Goto
    <3> QED
      BY <2>1, <2>2, <2>4, <3>1 DEF Chosen
  <2> QED
    BY <1>2, <2>3, <2>4 DEF Result
<1>3. CASE Timeout
  <2>1. UNCHANGED visited /\ visited["existing"] = {}
    BY <1>3 DEF Timeout, history, Unvisited, BeforeExisting, Preparing
  <2>2. pc' \in {"look", "is it?", "find registered"} \/ (pc' = "visit existing" /\ todo' = {})
    BY <1>3 DEF Timeout, TakeResult, ShowMatch, Goto, AskOptions
  <2> QED
    BY <2>1, <2>2 DEF Chosen
<1>4. ASSUME NEW r \in Repo, Visit(r)
      PROVE  Found'
  <2>1. UNCHANGED <<tasks, pc>> /\ ~Waiting /\ Running' = Running
    BY <1>4 DEF Visit, At, Running
  <2>2. Chosen' \subseteq Chosen
    BY <1>4 DEF Visit, Chosen, Stage, At, HistoryOK, Stages
  <2> QED
    BY <2>1, <2>2
<1>5. CASE MainStep /\ ~Result /\ ~Timeout /\ ~\E r \in Repo : Visit(r)
  <2>1. pc \notin {"wait templates", "wait existing"}
    BY <1>5 DEF MainStep, Look, FindExisting, ExistingAnswered, Where, Visited,
       FindRegistered, RegisteredAnswered, Share, ShareAnswered, UrlEntered, UnsetUrls,
       AddUrl, At, Answered
  <2>2. UNCHANGED visited /\ pc' # "visit existing"
    BY <1>5, <2>1, MainPrompts, MainOrder
  <2>3. CASE UNCHANGED tasks /\ ~Waiting'
    BY <2>2, <2>3 DEF Chosen, Running
  <2>4. CASE /\ pc \in {"look", "find existing", "where?"}
             /\ tasks' # <<>> /\ tasks'[Running'].clone
             /\ pc' = "wait existing" => tasks'[Running'].kind = "repos"
    <3>1. visited["existing"] = {}
      BY <2>4 DEF Unvisited, BeforeExisting, Preparing
    <3> QED
      BY <2>2, <2>4, <3>1 DEF Chosen
  <2> QED
    BY <1>5, <2>3, <2>4, MainTasks
<1>6. CASE UserStep
  <2>1. UNCHANGED <<pc, visited, todo, tasks>>
    BY <1>6, UserSteps DEF AskOK
  <2> QED
    BY <2>1 DEF Chosen, Running
<1>7. ASSUME NEW i \in DOMAIN tasks, Goroutine(i)
      PROVE  Found'
  <2>1. UNCHANGED <<pc, visited, todo>> /\ tasks # <<>> /\ Running' = Running
    BY <1>7, TaskSteps DEF Running
  <2>2. Running \in DOMAIN tasks
    BY <2>1, LastOne DEF TasksOK, Running
  <2>3. tasks' # <<>>
    <3>1. Len(tasks) # 0
      BY <2>1, EmptySeq DEF TasksOK
    <3> QED
      BY <1>7, <3>1, TaskSteps, EmptySeq
  <2> QED
    BY <1>7, <2>1, <2>2, <2>3, TaskSteps DEF Chosen
<1>8. CASE UNCHANGED vars
  BY <1>8 DEF vars, work, history, Chosen, Running
<1> QED
  BY <1>1, <1>2, <1>3, <1>4, <1>5, <1>6, <1>7, <1>8, AllSteps

\* Repositories are visited once.
LEMMA NextOnce == IndInv /\ [Next]_vars => Once'
<1> SUFFICES ASSUME IndInv, [Next]_vars, pc' = "visit registered"
             PROVE  todo' \cap done' = {}
  BY DEF Once
<1> USE DEF IndInv, TypeInv, Once
<1>1. CASE PreStep
  BY <1>1, PreSteps DEF Preparing
<1>2. CASE \E r \in Repo : Visit(r)
  BY <1>2 DEF Visit
<1>3. CASE FindRegistered \/ RegisteredAnswered
  BY <1>3 DEF FindRegistered, RegisteredAnswered, Remaining, Goto, AskOptions
<1>4. CASE MainStep /\ ~FindRegistered /\ ~RegisteredAnswered /\ ~\E r \in Repo : Visit(r)
  <2>1. ASSUME NEW text, StartSearch(text)
        PROVE  FALSE
    BY <2>1 DEF StartSearch, Goto
  <2>2. CASE Look
    BY <2>2 DEF Look, Searched, AskNew, AskOptions, Goto
  <2>3. CASE FindExisting \/ Where \/ ExistingAnswered
    BY <2>1, <2>3 DEF FindExisting, Where, ExistingAnswered, AskOptions, Goto
  <2>4. CASE Result \/ Timeout
    BY <2>4 DEF Result, Timeout, TakeResult, ShowMatch, AskOptions, Goto
  <2>5. CASE Visited \/ Share \/ ShareAnswered \/ UrlEntered \/ UnsetUrls \/ AddUrl
    BY <2>5 DEF Visited, Share, ShareAnswered, UrlEntered, UnsetUrls, AddUrl, AskOptions,
       Goto, At, Answered
  <2> QED
    BY <1>4, <2>2, <2>3, <2>4, <2>5 DEF MainStep
<1>5. CASE UserStep
  BY <1>5, UserSteps DEF AskOK
<1>6. ASSUME NEW i \in DOMAIN tasks, Goroutine(i)
      PROVE  todo' \cap done' = {}
  BY <1>6, TaskSteps
<1>7. CASE UNCHANGED vars
  BY <1>7 DEF vars, work
<1> QED
  BY <1>1, <1>2, <1>3, <1>4, <1>5, <1>6, <1>7, AllSteps

-----------------------------------------------------------------------------
\* The list of shared repositories.
LEMMA UserEnds ==
  ASSUME TypeInv, Ended, UserStep, pc = "urls?"
  PROVE  /\ listEnded => listEnded'
         /\ ask'.on = "answered" /\ ~ask'.failed /\ ask'.answer = <<>> => listEnded'
<1> USE DEF TypeInv, Ended
<1>1. ask.on # "dialog"
  BY DEF AskOK, UseGUI, SetupOK, Setup
<1>2. ASSUME NEW line \in Lines[ask.kind], ReadLine(line)
      PROVE  /\ listEnded => listEnded'
             /\ ask'.on = "answered" /\ ~ask'.failed /\ ask'.answer = <<>> => listEnded'
  <2>1. CASE line = <<>>
    BY <1>2, <2>1 DEF ReadLine
  <2>2. CASE line # <<>>
    <3>1. line \in Text /\ ask.kind = "list"
      BY <1>2 DEF ReadLine, AskOK, Shown, Kinds
    <3>2. ToLower(ToLower(line)) # <<>>
      BY <2>2, <3>1, LowerNotEmpty
    <3>3. \E typed : Judge(ToLower(line), typed)
      BY <1>2, <2>2 DEF ReadLine
    <3>4. ask.on = "terminal"
      BY <1>2 DEF ReadLine
    <3>5. ask'.on = "answered" => ask'.answer = ToLower(ToLower(line))
      BY <3>3, <3>4 DEF Judge, AskOK, AskKeys
    <3>6. listEnded => listEnded'
      BY <1>2, <2>2 DEF ReadLine
    <3> QED
      BY <3>2, <3>5, <3>6
  <2> QED
    BY <2>1, <2>2
<1>3. CASE Dialog
  BY <1>1, <1>3 DEF Dialog, Choose
<1>4. CASE Prompt
  BY <1>1, <1>4 DEF Prompt, EndOfInput, DialogFails, AskOK, AskKeys, history
<1> QED
  BY <1>2, <1>3, <1>4 DEF UserStep, User

LEMMA NextEnded == IndInv /\ [Next]_vars => Ended'
<1> SUFFICES ASSUME IndInv, [Next]_vars PROVE Ended'
  OBVIOUS
<1> USE DEF IndInv, TypeInv, Ended
<1>1. CASE PreStep
  BY <1>1, PreSteps DEF Preparing
<1>2. CASE ShareAnswered
  <2>1. CASE Goto("end")
    BY <2>1 DEF Goto
  <2>2. CASE pc' = "urls?" /\ ShowEntry("list", <<>>)
    <3>1. ~setup.auto /\ UNCHANGED setup
      BY <1>2 DEF ShareAnswered, Answered
    <3> QED
      BY <2>2, <3>1, ShowOK DEF ShowEntry
  <2> QED
    BY <1>2, <2>1, <2>2 DEF ShareAnswered
<1>3. CASE UrlEntered
  <2>1. CASE Goto("end")
    BY <2>1 DEF Goto
  <2>2. CASE pc' = "urls?" /\ ShowEntry("list", <<>>)
    BY <1>3, <2>2, Asked DEF UrlEntered, Answered, Asks
  <2>3. CASE ~EntryFailed /\ ask.answer = <<>> /\ Goto("unset urls")
    BY <1>3, <2>3 DEF UrlEntered, Answered, Goto, EntryFailed, history
  <2> QED
    BY <1>3, <2>1, <2>2, <2>3 DEF UrlEntered, Answered
<1>4. CASE UnsetUrls \/ AddUrl
  BY <1>4 DEF UnsetUrls, AddUrl, At, Goto, history
<1>5. CASE Share
  BY <1>5 DEF Share, AskOptions, Goto
<1>6. CASE MainStep /\ ~Share /\ ~ShareAnswered /\ ~UrlEntered /\ ~UnsetUrls /\ ~AddUrl
  <2>1. pc' \notin {"share?", "urls?", "unset urls", "add urls"}
    <3>1. ASSUME NEW text, StartSearch(text)
          PROVE  pc' \in {"wait existing", "find registered"}
      BY <3>1 DEF StartSearch, Goto
    <3>2. CASE Look
      BY <3>2 DEF Look, Searched, AskNew, AskOptions, Goto
    <3>3. CASE FindExisting \/ Where \/ ExistingAnswered
      BY <3>1, <3>3 DEF FindExisting, Where, ExistingAnswered, AskOptions, Goto
    <3>4. CASE Result \/ Timeout
      BY <3>4 DEF Result, Timeout, TakeResult, ShowMatch, AskOptions, Goto
    <3>5. CASE (\E r \in Repo : Visit(r)) \/ Visited
      BY <3>5 DEF Visit, Visited, At, Goto
    <3>6. CASE FindRegistered \/ RegisteredAnswered
      BY <3>6 DEF FindRegistered, RegisteredAnswered, AskOptions, Goto
    <3> QED
      BY <1>6, <3>2, <3>3, <3>4, <3>5, <3>6 DEF MainStep
  <2> QED
    BY <2>1
<1>7. CASE UserStep
  <2>1. UNCHANGED <<setup, pc>>
    BY <1>7, UserSteps DEF AskOK
  <2>2. CASE pc = "urls?"
    BY <1>7, <2>1, <2>2, UserEnds
  <2>3. CASE pc # "urls?"
    <3>1. CASE Prompt \/ Dialog
      BY <2>1, <2>3, <3>1 DEF Prompt, Dialog, Choose, EndOfInput, DialogFails, history
    <3>2. ASSUME NEW line, ReadLine(line)
          PROVE  Ended'
      BY <2>1, <2>3, <3>2 DEF ReadLine
    <3> QED
      BY <1>7, <3>1, <3>2 DEF UserStep, User
  <2> QED
    BY <2>2, <2>3
<1>8. ASSUME NEW i \in DOMAIN tasks, Goroutine(i)
      PROVE  Ended'
  BY <1>8, TaskSteps
<1>9. CASE UNCHANGED vars
  BY <1>9 DEF vars, history
<1> QED
  BY <1>1, <1>2, <1>3, <1>4, <1>5, <1>6, <1>7, <1>8, <1>9, AllSteps

LEMMA NextInv == IndInv /\ [Next]_vars => IndInv'
BY NextType, NextUnvisited, NextObeyed, NextFound, NextOnce, NextEnded DEF IndInv

-----------------------------------------------------------------------------
\* The types of what is read, asked and found.
ConfigOK ==
  /\ previous \in Text /\ checks \in {"", "on", "off"}
  /\ templates \in Text /\ shared \in Seq(Text) /\ entries \in Seq(Text)
  /\ register \subseteq Repo /\ todo \subseteq Repo /\ done \subseteq Repo
  /\ panicked \in BOOLEAN

AskRecord == [on : {"nothing", "terminal", "dialog", "answered"}, kind : Kinds,
              options : Seq(Name), default : Text, tries : Nat,
              typed : BOOLEAN, answer : Text, failed : BOOLEAN]

\* The last try is not over before the program panics.
AskTyped ==
  /\ ask \in AskRecord /\ ask.tries <= MaxTries
  /\ ask.on = "answered" /\ ~ask.failed => ask.answer = ToLower(ask.answer)
  /\ ~panicked => ask.tries < MaxTries

\* A search for template directories finds such directories, and only when it ends.
MatchesOK ==
  /\ \A i \in DOMAIN tasks :
       /\ tasks[i].state # "ended" => tasks[i].matches = {}
       /\ tasks[i].kind = "templates" => tasks[i].matches \subseteq Samples
  /\ pc = "wait templates" => tasks[Running].kind = "templates"

\* A match is asked about while there is one.
ResultOK == /\ search.matches \in Seq(Samples)
            /\ pc = "is it?" => search.matches # <<>>
            /\ search.result \in Samples \cup {<<>>}

TextInv == IndInv /\ ConfigOK /\ AskTyped /\ MatchesOK /\ ResultOK

LEMMA Lowered ==
  ASSUME NEW text \in Text
  PROVE  ToLower(text) \in Text /\ ToLower(ToLower(text)) = ToLower(text)
<1>1. Len(text) \in Nat /\ DOMAIN text = 1 .. Len(text)
  BY LenProperties DEF Text
<1>2. \A i \in DOMAIN text : text[i] \in Name
  BY <1>1, ElementOfSeq DEF Text
<1>3. ToLower(text) \in [1 .. Len(text) -> Name]
  BY <1>1, <1>2 DEF ToLower
<1>4. ToLower(text) \in Seq(Name)
  BY <1>1, <1>3, SeqDef
<1>5. ASSUME NEW lower, lower = ToLower(text)
      PROVE  ToLower(lower) = lower
  <2>1. DOMAIN lower = DOMAIN text /\ \A i \in DOMAIN text : lower[i] = LowerCase[text[i]]
    BY <1>5 DEF ToLower
  <2>2. \A i \in DOMAIN text : LowerCase[lower[i]] = lower[i]
    BY <1>2, <2>1
  <2>3. ToLower(lower) = [i \in DOMAIN text |-> lower[i]]
    BY <2>1, <2>2 DEF ToLower
  <2> QED
    BY <1>1, <1>3, <1>5, <2>1, <2>3
<1> QED
  BY <1>4, <1>5 DEF Text

LEMMA HomeReplaced ==
  ASSUME NEW text \in Text
  PROVE  ReplaceTilde(text) \in Text
<1>1. CASE text # <<>> /\ Head(text) = "~"
  <2>1. Tail(text) \in Seq(Name) /\ Home \in Seq(Name)
    BY <1>1, HeadTailProperties DEF Text
  <2> QED
    BY <1>1, <2>1, ConcatProperties DEF ReplaceTilde, Text
<1>2. CASE ~(text # <<>> /\ Head(text) = "~")
  BY <1>2 DEF ReplaceTilde
<1> QED
  BY <1>1, <1>2

\* The options have one upper case letter, which names the default.
LEMMA OptionsTyped ==
  ASSUME NEW options \in {YesByDefault, NoByDefault}
  PROVE  options \in Seq(Name) /\ DefaultAnswer(options) \in Text
<1>1. YesByDefault \in Seq(Name) /\ NoByDefault \in Seq(Name)
  BY DEF YesByDefault, NoByDefault
<1>2. <<"y">> \in Text /\ <<>> \in Text
  BY DEF Text
<1> DEFINE upper == {i \in DOMAIN options : LowerCase[options[i]] # options[i]}
<1>3. CASE upper = {}
  BY <1>1, <1>2, <1>3 DEF DefaultAnswer
<1>4. CASE upper # {}
  <2>1. DOMAIN options = 1 .. 2
    BY DEF YesByDefault, NoByDefault
  <2>2. PICK i \in upper : \A j \in upper : i <= j
    <3>1. CASE 1 \in upper
      BY <2>1, <3>1
    <3>2. CASE 1 \notin upper
      BY <1>4, <2>1, <3>2
    <3> QED
      BY <3>1, <3>2
  <2>3. Min(upper) \in DOMAIN options
    BY <2>2 DEF Min
  <2>4. options[Min(upper)] \in Name
    BY <2>1, <2>3 DEF YesByDefault, NoByDefault
  <2>5. <<options[Min(upper)]>> \in Text
    BY <2>4 DEF Text
  <2> QED
    BY <1>1, <1>4, <2>5, Lowered DEF DefaultAnswer
<1> QED
  BY <1>3, <1>4

LEMMA IdleTyped ==
  ASSUME ask' = Idle
  PROVE  AskTyped'
<1>1. <<>> \in Seq(Name) /\ <<>> \in Text
  BY NoElement DEF Text
<1>2. Idle \in AskRecord /\ Idle.tries = 0 /\ Idle.on = "nothing"
  BY <1>1 DEF Idle, AskRecord, Kinds
<1>3. MaxTries' \in {1, 3}
  BY DEF MaxTries
<1> QED
  BY <1>2, <1>3 DEF AskTyped

LEMMA ShowTyped ==
  ASSUME NEW kind \in Kinds, NEW options \in Seq(Name), NEW default \in Text,
         Show(kind, options, default)
  PROVE  AskTyped'
<1>1. <<>> \in Seq(Name) /\ <<>> \in Text
  BY NoElement DEF Text
<1>2. /\ ask' \in AskRecord /\ ask'.tries = 0
      /\ ask'.on = "answered" => ask'.failed
  <2>1. CASE ask' = [Idle EXCEPT !.on = "answered", !.answer = default, !.failed = TRUE]
    BY <1>1, <2>1 DEF Idle, AskRecord, Kinds
  <2>2. ASSUME NEW on \in {"terminal", "dialog"},
               ask' = [Idle EXCEPT !.on = on, !.kind = kind, !.options = options,
                                   !.default = default]
        PROVE  ask' \in AskRecord /\ ask'.on = on /\ ask'.tries = 0
    BY <1>1, <2>2 DEF Idle, AskRecord
  <2>3. CASE ask' = [Idle EXCEPT !.on = "dialog", !.kind = kind, !.options = options,
                                 !.default = default]
    BY <2>2, <2>3
  <2>4. CASE ask' = [Idle EXCEPT !.on = "terminal", !.kind = kind, !.options = options,
                                 !.default = default]
    BY <2>2, <2>4
  <2> QED
    BY <2>1, <2>3, <2>4 DEF Show
<1>3. MaxTries' \in {1, 3}
  BY DEF MaxTries
<1> QED
  BY <1>2, <1>3 DEF AskTyped

LEMMA AskedTyped ==
  ASSUME NEW step
  PROVE  /\ \A options \in {YesByDefault, NoByDefault} :
              AskOptions(step, options) => AskTyped'
         /\ \A kind \in Kinds, default \in Text : ShowEntry(kind, default) => AskTyped'
<1>1. ASSUME NEW options \in {YesByDefault, NoByDefault}, AskOptions(step, options)
      PROVE  AskTyped'
  BY <1>1, OptionsTyped, ShowTyped DEF AskOptions, ShowOptions, Kinds
<1>2. ASSUME NEW kind \in Kinds, NEW default \in Text, ShowEntry(kind, default)
      PROVE  AskTyped'
  BY <1>2, ShowTyped, NoElement DEF ShowEntry
<1> QED
  BY <1>1, <1>2

\* An answer is a text in lower case, and the tries are counted.
LEMMA JudgeTyped ==
  ASSUME AskTyped, panicked = FALSE, UNCHANGED setup,
         NEW answer \in Text, NEW typed \in BOOLEAN, Judge(answer, typed)
  PROVE  AskTyped' /\ panicked' \in BOOLEAN
<1>1. MaxTries \in {1, 3} /\ MaxTries' = MaxTries
  BY DEF MaxTries
<1>2. ToLower(answer) \in Text /\ ToLower(ToLower(answer)) = ToLower(answer)
  BY Lowered
<1>3. ask \in AskRecord /\ ask.tries \in Nat /\ ask.tries < MaxTries
  BY DEF AskTyped, AskRecord
<1>4. PICK t \in BOOLEAN : t = (ask.typed \/ typed)
  BY <1>3 DEF AskRecord
<1>5. CASE IsValid(answer)
  <2>1. /\ ask' = [ask EXCEPT !.on = "answered", !.answer = ToLower(answer), !.typed = t]
        /\ panicked' = panicked
    BY <1>4, <1>5 DEF Judge
  <2>2. ask' \in AskRecord /\ ask'.answer = ToLower(answer) /\ ask'.tries = ask.tries
    BY <1>2, <1>3, <2>1 DEF AskRecord
  <2> QED
    BY <1>1, <1>2, <1>3, <2>1, <2>2 DEF AskTyped
<1>6. CASE ~IsValid(answer)
  <2>1. /\ ask' = [ask EXCEPT !.tries = ask.tries + 1, !.typed = t]
        /\ panicked' = (ask.tries + 1 >= MaxTries)
    BY <1>4, <1>6 DEF Judge
  <2> DEFINE tries == ask.tries + 1
  <2>a. /\ tries \in Nat /\ tries <= MaxTries
        /\ tries >= MaxTries \/ tries < MaxTries
    BY <1>1, <1>3
  <2> HIDE DEF tries
  <2>b. ask' = [ask EXCEPT !.tries = tries, !.typed = t]
    BY <2>1 DEF tries
  <2>2. /\ ask' \in AskRecord /\ ask'.tries = tries /\ ask'.on = ask.on
        /\ ask'.answer = ask.answer /\ ask'.failed = ask.failed
    BY <1>3, <2>a, <2>b DEF AskRecord
  <2>3. panicked' \in BOOLEAN
    BY <2>1
  <2>4. ask'.tries <= MaxTries' /\ (~panicked' => ask'.tries < MaxTries')
    BY <1>1, <2>1, <2>2, <2>a DEF tries
  <2> QED
    BY <2>2, <2>3, <2>4 DEF AskTyped
<1> QED
  BY <1>5, <1>6

\* Every prompt of the program is one of the code's, with a text as its default.
LEMMA ProgramAsks ==
  ASSUME ConfigOK, AskTyped, PreStep \/ MainStep
  PROVE  AskTyped'
<1> USE DEF Goto, AskNew
<1>a. {YesByDefault, NoByDefault} \subseteq {YesByDefault, NoByDefault}
  OBVIOUS
<1>0. ASSUME UNCHANGED <<setup, ask>>, panicked' \/ panicked' = panicked
      PROVE  AskTyped'
  BY <1>0 DEF AskTyped, MaxTries
<1>1. CASE FindTemplates \/ SearchDisk \/ KeepSearching \/ TargetFolder
  BY <1>1, <1>a, IdleTyped, AskedTyped DEF FindTemplates, SearchDisk, KeepSearching,
     TargetFolder
<1>2. ASSUME NEW matches, ShowMatch(matches)
      PROVE  AskTyped'
  BY <1>2, <1>a, IdleTyped, AskedTyped DEF ShowMatch
<1>3. CASE IsIt
  BY <1>2, <1>3 DEF IsIt
<1>4. CASE UseIt
  BY <1>0, <1>4, IdleTyped DEF UseIt
<1>5. CASE NewTemplates
  <2>1. CASE ShowEntry("any text", InstallTemplates)
    BY <2>1, AskedTyped DEF Kinds
  <2>2. CASE panicked' = TRUE /\ UNCHANGED ask
    BY <1>0, <1>5, <2>2 DEF NewTemplates
  <2> QED
    BY <1>5, <2>1, <2>2 DEF NewTemplates
<1>6. CASE Checks \/ ChecksAnswered
  BY <1>6, <1>a, IdleTyped, AskedTyped DEF Checks, ChecksAnswered
<1>7. CASE Look
  BY <1>7, <1>a, IdleTyped, AskedTyped DEF Look, Searched
<1>8. ASSUME NEW text, StartSearch(text)
      PROVE  AskTyped'
  BY <1>8, IdleTyped DEF StartSearch
<1>9. CASE FindExisting
  BY <1>8, <1>9, <1>a, IdleTyped, AskedTyped DEF FindExisting
<1>10. CASE ExistingAnswered
  <2>1. CASE Goto("find registered")
    BY <2>1, IdleTyped
  <2>2. CASE ShowEntry("directory", IF previous = <<>> THEN Home ELSE previous)
    <3>1. (IF previous = <<>> THEN Home ELSE previous) \in Text
      BY DEF ConfigOK
    <3> QED
      BY <2>2, <3>1, AskedTyped DEF Kinds
  <2> QED
    BY <1>10, <2>1, <2>2 DEF ExistingAnswered
<1>11. CASE Where
  BY <1>8, <1>11 DEF Where
<1>12. ASSUME NEW ok, TakeResult(ok)
       PROVE  AskTyped'
  BY <1>2, <1>12, IdleTyped DEF TakeResult
<1>13. CASE Result \/ Timeout
  BY <1>12, <1>13 DEF Result, Timeout
<1>14. CASE \E r \in Repo : Visit(r)
  BY <1>0, <1>14 DEF Visit
<1>15. CASE Visited \/ FindRegistered \/ RegisteredAnswered \/ UnsetUrls
  BY <1>15, <1>a, IdleTyped, AskedTyped DEF Visited, FindRegistered, RegisteredAnswered,
     UnsetUrls
<1>16. CASE Share
  BY <1>16, <1>a, IdleTyped, AskedTyped DEF Share
<1>17. ASSUME ShowEntry("list", <<>>)
       PROVE  AskTyped'
  BY <1>17, AskedTyped, NoElement DEF Kinds, Text
<1>18. CASE ShareAnswered \/ UrlEntered
  BY <1>17, <1>18, IdleTyped DEF ShareAnswered, UrlEntered
<1>19. CASE AddUrl
  BY <1>0, <1>19, IdleTyped DEF AddUrl
<1> QED
  BY <1>1, <1>3, <1>4, <1>5, <1>6, <1>7, <1>9, <1>10, <1>11, <1>13, <1>14, <1>15, <1>16,
     <1>18, <1>19 DEF PreStep, MainStep

LEMMA UserTyped ==
  ASSUME ConfigOK, AskTyped, UserStep
  PROVE  AskTyped' /\ panicked' \in BOOLEAN
<1>1. ask \in AskRecord /\ panicked \in BOOLEAN
  BY DEF ConfigOK, AskTyped
<1>2. ask.default \in Text /\ ask.kind \in Kinds /\ ask.options \in Seq(Name)
  BY <1>1 DEF AskRecord
<1>3. ASSUME NEW line \in Lines[ask.kind], ReadLine(line)
      PROVE  AskTyped' /\ panicked' \in BOOLEAN
  <2>1. line \in Text
    BY <1>2
  <2>2. PICK answer \in Text, typed \in BOOLEAN : Judge(answer, typed)
    <3>1. ToLower(IF line = <<>> THEN ask.default ELSE line) \in Text
      BY <1>2, <2>1, Lowered
    <3>2. PICK typed \in BOOLEAN : typed = (line # <<>>)
      OBVIOUS
    <3> QED
      BY <1>3, <3>1, <3>2 DEF ReadLine
  <2>3. panicked = FALSE /\ UNCHANGED setup
    BY <1>1, <1>3 DEF ReadLine
  <2> QED
    BY <2>2, <2>3, JudgeTyped
<1>4. ASSUME NEW option \in Text, Choose(option)
      PROVE  AskTyped' /\ panicked' \in BOOLEAN
  <2>1. panicked = FALSE /\ UNCHANGED setup /\ Judge(option, TRUE)
    BY <1>1, <1>4 DEF Choose
  <2> QED
    BY <2>1, JudgeTyped
<1>5. CASE Dialog
  <2>1. \A i \in DOMAIN ask.options : <<ask.options[i]>> \in Text
    <3> SUFFICES ASSUME NEW i \in DOMAIN ask.options PROVE <<ask.options[i]>> \in Text
      OBVIOUS
    <3>1. ask.options[i] \in Name
      BY <1>2, LenProperties, ElementOfSeq
    <3> QED
      BY <3>1 DEF Text
  <2> QED
    BY <1>2, <1>4, <1>5, <2>1 DEF Dialog
<1>6. CASE Prompt
  <2>1. /\ ask' = [ask EXCEPT !.on = "answered", !.answer = ask.default, !.failed = TRUE]
        /\ UNCHANGED <<setup, panicked>>
    BY <1>6 DEF Prompt, EndOfInput, DialogFails
  <2>2. ask' \in AskRecord /\ ask'.failed /\ ask'.tries = ask.tries
    BY <1>1, <1>2, <2>1 DEF AskRecord
  <2>3. MaxTries' = MaxTries
    BY <2>1 DEF MaxTries
  <2> QED
    BY <1>1, <2>1, <2>2, <2>3 DEF AskTyped
<1> QED
  BY <1>3, <1>5, <1>6 DEF UserStep, User

\* What the program stores are texts and repositories.
LEMMA ProgramStores ==
  ASSUME TextInv, PreStep \/ MainStep
  PROVE  ConfigOK'
<1> USE DEF ConfigOK, config, work
<1>0. /\ ask.answer \in Text /\ search.result \in Text
      /\ setup \in Setup /\ TasksOK /\ ConfigOK
  <2>1. Samples \subseteq Text /\ <<>> \in Text
    BY NoElement DEF Text
  <2> QED
    BY <2>1 DEF TextInv, AskTyped, AskRecord, ResultOK, IndInv, TypeInv, SetupOK
<1> USE <1>0
<1>1. CASE FindTemplates \/ SearchDisk \/ IsIt \/ KeepSearching \/ UseIt \/ NewTemplates
  BY <1>0, <1>1 DEF FindTemplates, SearchDisk, IsIt, KeepSearching, UseIt, NewTemplates
<1>2. CASE TargetFolder
  BY <1>0, <1>2, HomeReplaced DEF TargetFolder
<1>3. CASE Checks \/ ChecksAnswered
  BY <1>3 DEF Checks, ChecksAnswered
<1>4. ASSUME NEW text, StartSearch(text)
      PROVE  previous' \in Text
  BY <1>4 DEF StartSearch
<1>5. CASE FindExisting \/ Where
  BY <1>4, <1>5 DEF FindExisting, Where
<1>6. CASE Result \/ Timeout
  <2>1. UNCHANGED <<config, templates, register, done, entries, panicked>>
    BY <1>6 DEF Result, Timeout
  <2>2. ASSUME NEW ok \in BOOLEAN, TakeResult(ok), ok => tasks[Running].sent = "ok"
        PROVE  todo' \subseteq Repo
    <3>1. CASE pc = "wait templates"
      BY <2>2, <3>1 DEF TakeResult
    <3>2. CASE pc # "wait templates"
      <4>1. tasks # <<>> /\ tasks[Running].kind = "repos"
        BY <1>6, <3>2 DEF Result, Timeout, Waiting, TextInv, IndInv, Found
      <4>2. Running \in DOMAIN tasks
        BY <1>0, <4>1, LastOne DEF TasksOK, Running
      <4>3. \A dir : FindGitDirs(dir) \subseteq Repo
        BY DEF FindGitDirs
      <4>4. tasks[Running].matches \subseteq Repo
        BY <4>1, <4>2, <4>3 DEF TasksOK
      <4> QED
        BY <2>2, <3>2, <4>4 DEF TakeResult
    <3> QED
      BY <3>1, <3>2
  <2>3. todo' \subseteq Repo
    BY <1>6, <2>2 DEF Result, Timeout
  <2> QED
    BY <2>1, <2>3
<1>7. CASE \E r \in Repo : Visit(r)
  BY <1>7 DEF Visit
<1>8. CASE FindRegistered \/ RegisteredAnswered
  BY <1>8 DEF FindRegistered, RegisteredAnswered, Remaining
<1>9. CASE Look \/ ExistingAnswered \/ Visited \/ Share \/ ShareAnswered
  BY <1>9 DEF Look, ExistingAnswered, Visited, Share, ShareAnswered
<1>10. CASE UrlEntered
  <2>1. Append(entries, ask.answer) \in Seq(Text)
    BY Extended
  <2> QED
    BY <1>10, <2>1 DEF UrlEntered
<1>11. CASE UnsetUrls
  BY <1>11, NoElement DEF UnsetUrls
<1>12. CASE AddUrl
  <2>1. CASE entries = <<>>
    BY <1>12, <2>1 DEF AddUrl
  <2>2. CASE entries # <<>>
    <3>1. Head(entries) \in Text /\ Tail(entries) \in Seq(Text)
      BY <2>2, LastOne
    <3>2. Append(shared, Head(entries)) \in Seq(Text)
      BY <3>1, Extended
    <3> QED
      BY <1>12, <2>2, <3>1, <3>2 DEF AddUrl
  <2> QED
    BY <2>1, <2>2
<1> QED
  BY <1>1, <1>2, <1>3, <1>5, <1>6, <1>7, <1>8, <1>9, <1>10, <1>11, <1>12
     DEF PreStep, MainStep

\* A new task has no matches yet.
LEMMA StartedMatches ==
  ASSUME TasksOK, NEW kind \in {"repos", "templates"}, NEW dir, Started(kind, dir), MatchesOK
  PROVE  (pc' = "wait templates" => kind = "templates") => MatchesOK'
<1>1. NewTask(kind, dir) \in Task
  BY DEF NewTask, Task, Started
<1>2. /\ tasks' \in Seq(Task) /\ Len(tasks') = Len(tasks) + 1
      /\ tasks'[Len(tasks) + 1] = NewTask(kind, dir)
      /\ \A i \in 1 .. Len(tasks) : tasks'[i] = tasks[i]
  BY <1>1, Extended DEF Started, TasksOK
<1>3. Len(tasks) \in Nat /\ DOMAIN tasks = 1 .. Len(tasks)
      /\ DOMAIN tasks' = 1 .. Len(tasks')
  BY <1>2, LenProperties DEF TasksOK
<1>4. \A i \in DOMAIN tasks' : i \in DOMAIN tasks \/ i = Len(tasks) + 1
  BY <1>2, <1>3
<1>5. ASSUME NEW i \in DOMAIN tasks'
      PROVE  /\ tasks'[i].state # "ended" => tasks'[i].matches = {}
             /\ tasks'[i].kind = "templates" => tasks'[i].matches \subseteq Samples
  <2>1. CASE i \in DOMAIN tasks
    BY <1>2, <1>3, <2>1 DEF MatchesOK
  <2>2. CASE i = Len(tasks) + 1
    BY <1>2, <2>2 DEF NewTask
  <2> QED
    BY <1>4, <2>1, <2>2
<1>6. tasks'[Running'].kind = kind
  BY <1>2, <1>3 DEF Running, NewTask
<1> QED
  BY <1>5, <1>6 DEF MatchesOK

LEMMA ProgramFinds ==
  ASSUME TextInv, PreStep \/ MainStep
  PROVE  MatchesOK'
<1> USE DEF Goto, AskOptions, AskNew
<1>0. TasksOK /\ SearchOK /\ MatchesOK /\ TypeInv
  BY DEF TextInv, IndInv, TypeInv
<1>1. CASE PreStep
  BY <1>0, <1>1, PreSteps DEF MatchesOK
<1>2. ASSUME UNCHANGED tasks, pc' # "wait templates"
      PROVE  MatchesOK'
  BY <1>0, <1>2 DEF MatchesOK
<1>3. CASE Look
  <2>1. CASE search.places = <<>>
    BY <1>2, <1>3, <2>1 DEF Look, Searched
  <2>2. CASE search.places # <<>>
    <3>1. Head(search.places) \in Dirs
      BY <1>0, <2>2, LastOne DEF SearchOK
    <3>2. Started("templates", Head(search.places))
      BY <1>3, <2>2, <3>1 DEF Look, Started, RunTaskWithProgress
    <3> QED
      BY <1>0, <3>2, StartedMatches
  <2> QED
    BY <2>1, <2>2
<1>4. ASSUME NEW text, StartSearch(text)
      PROVE  MatchesOK'
  <2>1. CASE UNCHANGED tasks /\ pc' = "find registered"
    BY <1>2, <2>1
  <2>2. CASE pc' = "wait existing" /\ Started("repos", ReplaceTilde(text))
    BY <1>0, <2>2, StartedMatches
  <2> QED
    BY <1>4, <2>1, <2>2 DEF StartSearch, Started, RunTaskWithProgress
<1>5. CASE FindExisting \/ Where
  BY <1>2, <1>4, <1>5 DEF FindExisting, Where
<1>6. CASE Result
  BY <1>2, <1>6 DEF Result, TakeResult, ShowMatch
<1>7. CASE Timeout
  <2>1. tasks # <<>> /\ tasks \in Seq(Task)
    BY <1>0, <1>7 DEF Timeout, TextInv, IndInv, Found, TasksOK
  <2>2. Running \in DOMAIN tasks /\ tasks[Running] \in Task
    BY <2>1, LastOne DEF Running
  <2> DEFINE t == [tasks[Running] EXCEPT !.clone = FALSE, !.exit = 1]
  <2>3. /\ t \in Task /\ t.kind = tasks[Running].kind /\ t.state = tasks[Running].state
        /\ t.matches = tasks[Running].matches
    BY <2>2 DEF Task
  <2>4. tasks' = [tasks EXCEPT ![Running] = t]
    BY <1>7 DEF Timeout
  <2> HIDE DEF t
  <2>5. /\ tasks'[Running] = t /\ DOMAIN tasks' = DOMAIN tasks
        /\ \A j \in DOMAIN tasks : j # Running => tasks'[j] = tasks[j]
    BY <2>1, <2>2, <2>3, <2>4, Changed
  <2>6. pc' # "wait templates"
    BY <1>7 DEF Timeout, TakeResult, ShowMatch
  <2>7. ASSUME NEW i \in DOMAIN tasks'
        PROVE  /\ tasks'[i].state # "ended" => tasks'[i].matches = {}
               /\ tasks'[i].kind = "templates" => tasks'[i].matches \subseteq Samples
    <3>1. CASE i = Running
      BY <1>0, <2>2, <2>3, <2>5, <3>1 DEF MatchesOK
    <3>2. CASE i # Running
      BY <1>0, <2>5, <3>2 DEF MatchesOK
    <3> QED
      BY <3>1, <3>2
  <2> QED
    BY <2>6, <2>7 DEF MatchesOK
<1>8. CASE ExistingAnswered \/ Visited \/ FindRegistered \/ RegisteredAnswered \/ Share
           \/ ShareAnswered \/ UrlEntered \/ UnsetUrls \/ AddUrl
  BY <1>2, <1>8 DEF ExistingAnswered, Visited, FindRegistered, RegisteredAnswered, Share,
     ShareAnswered, UrlEntered, UnsetUrls, AddUrl, work, At, Answered
<1>9. CASE \E r \in Repo : Visit(r)
  BY <1>2, <1>9 DEF Visit, At
<1> QED
  BY <1>1, <1>3, <1>5, <1>6, <1>7, <1>8, <1>9 DEF MainStep

\* A search sends what it may find, at its end.
LEMMA TaskFinds ==
  ASSUME TextInv, NEW i \in DOMAIN tasks, Goroutine(i)
  PROVE  MatchesOK'
<1>1. TasksOK /\ MatchesOK /\ TypeInv
  BY DEF TextInv, IndInv, TypeInv
<1>2. i \in 1 .. Len(tasks) /\ tasks \in Seq(Task)
  BY <1>1, LenProperties DEF TasksOK
<1>3. tasks[i] \in Task
  BY <1>2, ElementOfSeq
<1>4. tasks[i].matches = {}
  BY <1>1 DEF Goroutine, StartTask, RunTask, MatchesOK
<1>5. /\ DOMAIN tasks' = DOMAIN tasks
      /\ \A j \in DOMAIN tasks : j # i => tasks'[j] = tasks[j]
      /\ tasks'[i].kind = tasks[i].kind
      /\ tasks'[i].state # "ended" => tasks'[i].matches = {}
      /\ tasks'[i].kind = "templates" => tasks'[i].matches \subseteq Samples
  <2>1. CASE StartTask(i)
    <3>1. tasks' = [tasks EXCEPT ![i].state = "running"]
      BY <2>1 DEF StartTask
    <3>2. /\ tasks'[i] = [tasks[i] EXCEPT !.state = "running"]
          /\ DOMAIN tasks' = DOMAIN tasks
          /\ \A j \in DOMAIN tasks : j # i => tasks'[j] = tasks[j]
      BY <3>1
    <3> QED
      BY <1>3, <1>4, <3>2 DEF Task
  <2>2. CASE RunTask(i)
    <3>1. PICK found \in Findings(tasks[i]), result \in {"ok", "error"} :
            tasks' = [tasks EXCEPT ![i] = [tasks[i] EXCEPT
                        !.state = "ended", !.matches = found, !.sent = result]]
      BY <2>2 DEF RunTask
    <3>2. tasks[i].kind = "templates" => found \subseteq Samples
      BY DEF Findings, FindSamples
    <3>3. /\ tasks'[i] = [tasks[i] EXCEPT !.state = "ended", !.matches = found,
                                          !.sent = result]
          /\ DOMAIN tasks' = DOMAIN tasks
          /\ \A j \in DOMAIN tasks : j # i => tasks'[j] = tasks[j]
      BY <3>1
    <3> QED
      BY <1>3, <3>2, <3>3 DEF Task
  <2> QED
    BY <2>1, <2>2 DEF Goroutine
<1>6. pc' = pc /\ Running' = Running
  BY <1>1, TaskSteps DEF Running
<1>7. pc = "wait templates" => Running \in DOMAIN tasks
  <2>1. pc = "wait templates" => tasks # <<>>
    BY DEF TextInv, IndInv, Found, Waiting
  <2> QED
    BY <1>2, <2>1, LastOne DEF Running
<1> QED
  BY <1>1, <1>5, <1>6, <1>7 DEF MatchesOK

LEMMA Orders ==
  ASSUME NEW matches \in SUBSET Samples, NEW order \in SetToSeqs(matches)
  PROVE  order \in Seq(Samples)
<1>1. Cardinality(matches) \in Nat
  BY FS_Subset, FS_CardinalityType
<1>2. order \in [1 .. Cardinality(matches) -> Samples]
  BY DEF SetToSeqs
<1> QED
  BY <1>1, <1>2, SeqDef

\* The matches that are shown one after the other are template directories.
LEMMA ProgramResult ==
  ASSUME TextInv, PreStep \/ MainStep
  PROVE  ResultOK'
<1> USE DEF Goto, AskOptions, AskNew, work
<1>0. TasksOK /\ SearchOK /\ MatchesOK /\ ResultOK
  BY DEF TextInv, IndInv, TypeInv
<1>1. ASSUME search' = search \/ (\E places : search' = [search EXCEPT !.places = places]),
             pc' # "is it?"
      PROVE  ResultOK'
  BY <1>0, <1>1 DEF ResultOK, SearchOK
<1>2. ASSUME NEW places, NEW second, pc' # "is it?",
             search' = [NoSearch EXCEPT !.places = places, !.second = second]
      PROVE  ResultOK'
  BY <1>2, NoElement DEF ResultOK, NoSearch
<1>3. CASE IsIt
  <2>1. search.matches \in Seq(Samples) /\ search.matches # <<>>
    BY <1>0, <1>3 DEF IsIt, Answered, ResultOK
  <2>2. Head(search.matches) \in Samples /\ Tail(search.matches) \in Seq(Samples)
    BY <2>1, LastOne
  <2>3. /\ search'.matches \in Seq(Samples)
        /\ search'.result \in Samples \cup {<<>>}
    BY <1>0, <1>3, <2>2, NoElement DEF IsIt, ResultOK, SearchOK
  <2>4. pc' = "is it?" => search'.matches # <<>>
    BY <1>3 DEF IsIt, ShowMatch
  <2> QED
    BY <2>3, <2>4 DEF ResultOK
<1>4. CASE FindTemplates \/ UseIt \/ NewTemplates \/ TargetFolder \/ Checks
           \/ ChecksAnswered
  BY <1>1, <1>4 DEF FindTemplates, UseIt, NewTemplates, TargetFolder, Checks,
     ChecksAnswered, Answered
<1>5. CASE SearchDisk
  <2>1. CASE search' = [NoSearch EXCEPT !.places = First]
    BY <1>5, <2>1, NoElement DEF SearchDisk, ResultOK, NoSearch
  <2>2. CASE UNCHANGED search
    BY <1>1, <1>5, <2>2 DEF SearchDisk
  <2> QED
    BY <1>5, <2>1, <2>2 DEF SearchDisk
<1>6. CASE KeepSearching
  <2>1. CASE search' = [NoSearch EXCEPT !.places = Second, !.second = TRUE]
    BY <1>2, <1>6, <2>1 DEF KeepSearching
  <2>2. CASE UNCHANGED search
    BY <1>1, <1>6, <2>2 DEF KeepSearching
  <2> QED
    BY <1>6, <2>1, <2>2 DEF KeepSearching
<1>7. CASE Look
  BY <1>1, <1>7 DEF Look, Searched
<1>8. CASE Result \/ Timeout
  <2>1. PICK ok \in BOOLEAN : TakeResult(ok)
    BY <1>8 DEF Result, Timeout
  <2>2. CASE pc # "wait templates"
    BY <1>1, <2>1, <2>2 DEF TakeResult
  <2>3. CASE pc = "wait templates"
    <3> DEFINE matches == IF ok THEN tasks[Running].matches ELSE {}
    <3>1. matches \subseteq Samples
      <4>1. tasks # <<>>
        BY <2>3 DEF TextInv, IndInv, Found, Waiting
      <4>2. Running \in DOMAIN tasks
        BY <1>0, <4>1, LastOne DEF TasksOK, Running
      <4> QED
        BY <1>0, <2>3, <4>2 DEF MatchesOK
    <3>2. PICK order \in SetToSeqs(matches) :
            /\ search' = [search EXCEPT !.matches = order,
                                        !.places = IF ok THEN search.places ELSE <<>>]
            /\ ShowMatch(order)
      BY <2>1, <2>3 DEF TakeResult
    <3>3. order \in Seq(Samples)
      BY <3>1, <3>2, Orders
    <3>4. search'.matches = order /\ search'.result = search.result
      BY <1>0, <3>2 DEF SearchOK
    <3>5. pc' = "is it?" => order # <<>>
      BY <3>2 DEF ShowMatch
    <3> QED
      BY <1>0, <3>3, <3>4, <3>5 DEF ResultOK
  <2> QED
    BY <2>2, <2>3
<1>9. ASSUME NEW text, StartSearch(text)
      PROVE  pc' # "is it?"
  BY <1>9 DEF StartSearch
<1>10. CASE FindExisting \/ ExistingAnswered \/ Where
  BY <1>1, <1>9, <1>10 DEF FindExisting, ExistingAnswered, Where
<1>11. CASE (\E r \in Repo : Visit(r)) \/ Visited \/ FindRegistered \/ RegisteredAnswered
  BY <1>1, <1>11 DEF Visit, Visited, FindRegistered, RegisteredAnswered, At
<1>12. CASE Share \/ ShareAnswered \/ UrlEntered \/ UnsetUrls \/ AddUrl
  BY <1>1, <1>12 DEF Share, ShareAnswered, UrlEntered, UnsetUrls, AddUrl, At, Answered
<1> QED
  BY <1>3, <1>4, <1>5, <1>6, <1>7, <1>8, <1>10, <1>11, <1>12 DEF PreStep, MainStep

LEMMA NextText == TextInv /\ [Next]_vars => TextInv'
<1> SUFFICES ASSUME TextInv, [Next]_vars PROVE TextInv'
  OBVIOUS
<1>0. IndInv /\ IndInv' /\ TypeInv /\ ConfigOK /\ AskTyped /\ MatchesOK /\ ResultOK
  BY NextInv DEF TextInv, IndInv
<1>1. CASE PreStep \/ MainStep
  BY <1>0, <1>1, ProgramAsks, ProgramStores, ProgramFinds, ProgramResult DEF TextInv
<1>2. CASE UserStep
  <2>1. AskTyped' /\ panicked' \in BOOLEAN
    BY <1>0, <1>2, UserTyped
  <2>2. UNCHANGED <<previous, checks, templates, register, entries>>
    BY <1>2 DEF UserStep, User, Dialog, Prompt, ReadLine, Choose, EndOfInput, DialogFails,
       config, work
  <2>3. UNCHANGED <<shared, tasks, search, todo, done, pc>>
    BY <1>0, <1>2, UserSteps DEF TypeInv, AskOK
  <2>4. ConfigOK' /\ MatchesOK' /\ ResultOK'
    BY <1>0, <2>1, <2>2, <2>3 DEF ConfigOK, MatchesOK, ResultOK, Running
  <2> QED
    BY <1>0, <2>1, <2>4 DEF TextInv
<1>3. ASSUME NEW i \in DOMAIN tasks, Goroutine(i)
      PROVE  TextInv'
  <2>1. UNCHANGED <<setup, config, work, pc, ask>>
    BY <1>3 DEF Goroutine, StartTask, RunTask
  <2>2. panicked = FALSE /\ panicked' \in BOOLEAN
    BY <1>0, <1>3 DEF Goroutine, StartTask, RunTask, ConfigOK
  <2>3. ConfigOK' /\ AskTyped' /\ ResultOK'
    BY <1>0, <2>1, <2>2 DEF ConfigOK, AskTyped, ResultOK, MaxTries, config, work
  <2> QED
    BY <1>0, <1>3, <2>3, TaskFinds DEF TextInv
<1>4. CASE UNCHANGED vars
  BY <1>0, <1>4 DEF vars, config, work, TextInv, ConfigOK, AskTyped, MatchesOK, ResultOK,
     MaxTries, Running
<1> QED
  BY <1>1, <1>2, <1>3, <1>4, AllSteps

-----------------------------------------------------------------------------
\* The types hold for any user, directories, repositories and searches: what is
\* typed is kept in lower case, a try is left while the program asks, and a result
\* is there when it is sent.
THEOREM TypeCorrect == Spec => []TypeOK
<1>1. Init => TextInv
  <2> SUFFICES ASSUME Init PROVE TextInv
    OBVIOUS
  <2>1. <<>> \in Text /\ <<>> \in Seq(Text) /\ <<>> \in Seq(Samples)
    BY NoElement DEF Text
  <2>2. ConfigOK
    BY <2>1 DEF Init, ConfigOK, Start
  <2>3. AskTyped
    <3>1. Idle \in AskRecord /\ Idle.tries = 0 /\ Idle.on = "nothing"
      BY <2>1, NoElement DEF Idle, AskRecord, Kinds
    <3>2. MaxTries \in {1, 3}
      BY DEF MaxTries
    <3>3. ask = Idle
      BY DEF Init
    <3> QED
      BY <3>1, <3>2, <3>3 DEF AskTyped
  <2>4. MatchesOK
    BY NoElement DEF Init, MatchesOK
  <2>5. ResultOK
    BY <2>1 DEF Init, ResultOK, NoSearch
  <2> QED
    BY <2>2, <2>3, <2>4, <2>5, InitInv DEF TextInv
<1>2. TextInv => TypeOK
  <2> SUFFICES ASSUME TextInv PROVE TypeOK
    OBVIOUS
  <2>1. IndInv /\ ConfigOK /\ AskTyped /\ MatchesOK /\ ResultOK
    BY DEF TextInv
  <2>2. setup \in Setup /\ pc \in Steps /\ tasks \in Seq(Task) /\ TasksOK
    BY <2>1 DEF IndInv, TypeInv, SetupOK, TasksOK
  <2>3. ask \in [on : {"nothing", "terminal", "dialog", "answered"}, kind : Kinds,
                 options : Seq(Name), default : Text, tries : 0 .. MaxTries,
                 typed : BOOLEAN, answer : Text, failed : BOOLEAN]
    <3>1. MaxTries \in Nat
      BY DEF MaxTries
    <3>2. ask \in AskRecord /\ ask.tries \in 0 .. MaxTries
      BY <2>1, <3>1 DEF AskTyped, AskRecord
    <3> QED
      BY <3>2 DEF AskRecord
  <2>4. ASSUME NEW i \in DOMAIN tasks
        PROVE  /\ tasks[i].exit \in {0, 1}
               /\ tasks[i].state # "ended" =>
                     tasks[i].sent = "nothing" /\ tasks[i].matches = {}
    <3>1. tasks[i] \in Task
      BY <2>2, LenProperties, ElementOfSeq
    <3> QED
      BY <2>1, <2>2, <3>1 DEF Task, TasksOK, MatchesOK
  <2> QED
    BY <2>1, <2>2, <2>3, <2>4 DEF TypeOK, ConfigOK, AskTyped, ResultOK
<1> QED
  BY <1>1, <1>2, NextText, PTL DEF Spec

-----------------------------------------------------------------------------
\* No repository is visited that was not found in time where the user said, at a
\* stage which the user refused, or again after it succeeded.
THEOREM VisitsWhatWasAsked == Spec => []VisitsAsAsked
<1>1. IndInv => VisitsAsAsked
  <2> SUFFICES ASSUME IndInv PROVE VisitsAsAsked
    OBVIOUS
  <2> USE DEF IndInv, TypeInv
  <2>1. ASSUME NEW r \in visited["existing"]
        PROVE  /\ r \in FindGitDirs(tasks[Running].dir)
               /\ tasks[Running].clone /\ tasks[Running].sent = "ok"
               /\ r \in tasks[Running].matches
    <3>1. Chosen # {} /\ r \in Chosen
      BY DEF Chosen
    <3>2. /\ tasks # <<>> /\ tasks[Running].kind = "repos"
          /\ tasks[Running].clone /\ tasks[Running].sent = "ok"
          /\ r \in tasks[Running].matches
      BY <3>1 DEF Found
    <3>3. Running \in DOMAIN tasks
      BY <3>2, LastOne DEF TasksOK, Running
    <3> QED
      BY <3>2, <3>3 DEF TasksOK
  <2>2. \A stage \in refused : visited[stage] = {}
    BY DEF Obeyed, HistoryOK, Stages
  <2>3. pc = "visit registered" => todo \cap done = {}
    BY DEF Once
  <2> QED
    BY <2>1, <2>2, <2>3 DEF VisitsAsAsked
<1> QED
  BY InitInv, NextInv, <1>1, PTL DEF Spec

\* The shared repositories are replaced only after the user has ended the list.
THEOREM SharedWhenEntered == Spec => SharedAsEntered
<1>1. IndInv /\ [Next]_vars => (shared' # shared => listEnded)
  <2> SUFFICES ASSUME IndInv, [Next]_vars, shared' # shared PROVE listEnded
    OBVIOUS
  <2> USE DEF IndInv, TypeInv
  <2>1. CASE MainStep
    <3>1. CASE UnsetUrls \/ AddUrl
      BY <3>1 DEF UnsetUrls, AddUrl, At, Ended
    <3>2. CASE Result \/ Timeout \/ FindExisting \/ Where \/ \E r \in Repo : Visit(r)
      BY <3>2 DEF Result, Timeout, FindExisting, Where, Visit, config
    <3>3. CASE Look \/ ExistingAnswered \/ Visited \/ FindRegistered \/ RegisteredAnswered
      BY <3>3 DEF Look, ExistingAnswered, Visited, FindRegistered, RegisteredAnswered, config
    <3>4. CASE Share \/ ShareAnswered \/ UrlEntered
      BY <3>4 DEF Share, ShareAnswered, UrlEntered, config
    <3> QED
      BY <2>1, <3>1, <3>2, <3>3, <3>4 DEF MainStep
  <2>2. CASE UserStep
    BY <2>2, UserSteps DEF AskOK
  <2>3. CASE PreStep
    BY <2>3, PreSteps
  <2>4. CASE UNCHANGED vars
    BY <2>4 DEF vars, config
  <2> QED
    BY <2>1, <2>2, <2>3, <2>4, TaskSteps, AllSteps
<1>2. IndInv /\ [Next]_vars => [shared' # shared => listEnded]_vars
  BY <1>1
<1> QED
  BY InitInv, NextInv, <1>2, PTL DEF Spec, SharedAsEntered
==============================================================================
