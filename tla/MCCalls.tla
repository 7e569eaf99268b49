------------------------------ MODULE MCCalls ------------------------------
(* An instance of Calls for TLC, with a small file system for the mounts. *)
EXTENDS Calls

SomeWorktrees == {<<"home", "u", "w">>, <<"usr", "w">>, <<"tmp", "w">>}
SomeRuntimes  == {<<"usr">>, <<"home", "u", "n">>, <<"home", "u", "a", "b", "n">>, <<"tmp", "n">>,
                  <<"home", "u", "w", "a", "n">>, <<"home", "u", "a", "s", "n">>}
SomeSystem    == {<<"usr">>, <<"bin">>, <<"etc", "ssl">>}
TheHome       == <<"home", "u">>
TheSecrets    == {<<"home", "u", "a", "s">>}

Leaves == {Append(w, n) : w \in SomeWorktrees, n \in {"src", ".git", ".intentum", ".pi"}}
          \cup {Append(r, n) : r \in SomeRuntimes, n \in {"bin", "lib"}}
          \cup SomeSystem \cup TheSecrets \cup {<<"usr", "share", "x">>, <<"tmp", "w", ".git", "f">>}

SomePaths == UNION {{SubSeq(p, 1, n) : n \in 0 .. Len(p)} : p \in Leaves}

\* The state in which the parts rest that a behaviour is not about.
Rest ==
    /\ IF part = "store" THEN TRUE ELSE disk = NoState
    /\ IF part = "shell" THEN TRUE ELSE helper = FALSE /\ signalled = FALSE
    /\ IF part = "activity" THEN TRUE ELSE theme = CHOOSE h \in Themes : TRUE
    /\ IF part = "mounts" THEN TRUE
       ELSE /\ worktree = <<"tmp", "w">> /\ runtime = <<"usr">> /\ bwrap = TRUE
            /\ kind = [p \in Paths |-> "real"]

MCInit == part \in Parts /\ Rest /\ CallsInit

MCSpec == MCInit /\ [][CallsNext]_CallsVars /\ CallsGoOn
=============================================================================
