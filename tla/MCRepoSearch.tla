----------------------------- MODULE MCRepoSearch -----------------------------
(* Two places of repositories, one with an upper case letter; a work tree, *)
(* a worktree of it (below `.git`), a hidden repository, a bare one.       *)
EXTENDS RepoSearch

MCName == {"y", "n", "Y", "N", "~", "home", "Src", "src", ".git", ".cache",
           "worktrees", "usr", "templates", "url", "bare"}
MCLowerCase == [name \in MCName |->
                  CASE name = "Y" -> "y" [] name = "N" -> "n" [] name = "Src" -> "src"
                    [] OTHER -> name]
MCDotName == {".git", ".cache"}
MCLines == [kind \in Kinds |->
              CASE kind = "options" -> {<<>>, <<"y">>, <<"N">>, <<"url">>}
                [] kind = "directory" -> {<<>>, <<"~">>, <<"home", "Src">>}
                [] kind = "any text" -> {<<>>, <<"~", "Src">>}
                [] OTHER -> {<<>>, <<"url">>}]
MCHome == <<"home">>
MCDirs == {<<"home">>, <<"home", "Src">>, <<"usr">>}
MCRepo == {"work", "bare", "hidden"}
MCHeads == {[dir |-> <<"home", "Src", ".git">>, repo |-> "work"],
            [dir |-> <<"home", "Src", ".git", "worktrees">>, repo |-> "work"],
            [dir |-> <<"home", ".cache", ".git">>, repo |-> "hidden"],
            [dir |-> <<"home", "bare">>, repo |-> "bare"],
            [dir |-> <<"home", "url">>, repo |-> NoRepo]}
MCSamples == {<<"home", "templates">>, <<"usr", "templates">>}
MCFirst == <<<<"home">>, <<"usr">>>>
MCSecond == <<<<"usr">>>>
MCInstallTemplates == <<"home", "templates">>

Base == [uninstall |-> FALSE, nonInteractive |-> FALSE, fresh |-> FALSE, auto |-> FALSE,
         skip |-> FALSE, stdin |-> FALSE, screen |-> TRUE]
Gone == <<"home", "bare">>
StartAt(how, dir, updates, repos) ==
  [setup |-> how, previous |-> dir, checks |-> updates, register |-> repos]
Uninstall == [Base EXCEPT !.uninstall = TRUE]
MCStarts ==
  {StartAt([Base EXCEPT !.fresh = TRUE, !.skip = TRUE], <<>>, "on", {}),
   StartAt([Base EXCEPT !.nonInteractive = TRUE, !.fresh = TRUE], <<>>, "", {}),
   StartAt(Base, <<>>, "", {"work"}),
   StartAt([Base EXCEPT !.screen = FALSE], <<"home">>, "off", {"work"}),
   StartAt([Base EXCEPT !.auto = TRUE, !.screen = FALSE], <<"home">>, "", {"work"}),
   StartAt([Base EXCEPT !.auto = TRUE], <<"home">>, "on", {"work", "bare"}),
   StartAt(Uninstall, <<"home", "Src">>, "on", {"work", "bare"}),
   StartAt(Uninstall, Gone, "on", {"bare"}),
   StartAt([Uninstall EXCEPT !.stdin = TRUE], <<"home">>, "on", {"work"}),
   StartAt([Uninstall EXCEPT !.nonInteractive = TRUE], <<"home">>, "on", {"work", "bare"}),
   StartAt([Uninstall EXCEPT !.nonInteractive = TRUE], Gone, "on", {"work"})}
MCUrls == {<<<<"url">>, <<"url">>>>}
===============================================================================
