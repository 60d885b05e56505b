--------------------------- MODULE MCInstallMode ---------------------------
(* TLC instance of InstallMode: one client and one server hook, a directory *)
(* of the user besides the two others, one way to install in each mode.    *)
EXTENDS InstallMode

Is(n) == [name |-> n, minus |-> FALSE]
Not(n) == [name |-> n, minus |-> TRUE]

MCHook == {"pre-commit", "pre-push"}
MCServer == {"pre-push"}
MCSpecs == {<<>>, <<Is("all")>>, <<Is("server")>>, <<Not("pre-push")>>, <<Is("unknown")>>}

Plain == [mode |-> "template-dir", update |-> FALSE, templateDir |-> NoDir,
          maintained |-> <<>>, existing |-> TRUE, nonInteractive |-> TRUE]

MCInstalls ==
  {[Plain EXCEPT !.nonInteractive = FALSE],
   [Plain EXCEPT !.templateDir = "own", !.maintained = <<Is("server")>>],
   [Plain EXCEPT !.mode = "core-hooks-path", !.maintained = <<Not("pre-push")>>],
   [Plain EXCEPT !.mode = "manual", !.existing = FALSE],
   [Plain EXCEPT !.update = TRUE, !.existing = FALSE]}

MCEdits == { <<"hooksPath", "own">>, <<"hooksPath", NoDir>>, <<"templateDir", "own">>,
             <<"maintained", <<Is("unknown")>> >> }

MCInitial ==
  {[conf |-> Unset, present |-> {"own", "default"}],
   [conf |-> [Unset EXCEPT !.templateDir = "own"], present |-> {"own"}]}
=============================================================================
