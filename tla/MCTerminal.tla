----------------------------- MODULE MCTerminal -----------------------------
(***************************************************************************)
(* Screen for TLC: the bodies, sizes, providers and arguments, and one     *)
(* initial state in which the parts rest that a behaviour is not about.    *)
(***************************************************************************)
EXTENDS Screen, TLC

CONSTANTS i1, i2, i3, i4    \* controls of the bodies below

B(n, seq) == [total |-> n,
              ids |-> {seq[k][1] : k \in 1 .. Len(seq)},
              order |-> [k \in 1 .. Len(seq) |-> seq[k][1]],
              first |-> [i \in {seq[k][1] : k \in 1 .. Len(seq)} |->
                           LET k == CHOOSE k \in 1 .. Len(seq) : seq[k][1] = i IN seq[k][2]],
              rows |-> [i \in {seq[k][1] : k \in 1 .. Len(seq)} |->
                           LET k == CHOOSE k \in 1 .. Len(seq) : seq[k][1] = i IN seq[k][2] .. seq[k][3]]]

SomeBodies == {B(2, <<>>), B(9, <<>>), B(4, <<<<i1, 0, 0>>, <<i2, 3, 3>>>>),
               B(6, <<<<i1, 0, 1>>, <<i2, 2, 2>>, <<i3, 5, 5>>>>),
               B(9, <<<<i1, 1, 1>>, <<i4, 1, 1>>, <<i2, 4, 6>>, <<i3, 8, 8>>>>),
               B(7, <<<<i2, 2, 3>>, <<i4, 6, 6>>>>)}

CenterSizes == {<<59, 30>>, <<80, 16>>}
SurfaceSizes == {<<59, 30>>, <<60, 16>>, <<100, 22>>, <<140, 60>>}

M(i, p, u) == [id |-> i, provider |-> p, usable |-> u]
TwoNames == <<"a", "b">>
ThreeModels == <<M("b1", "b", TRUE), M("b2", "b", TRUE), M("a1", "a", FALSE)>>

SomeArguments == {<<>>, <<"--tui-mode=regular">>, <<"--model", "m", "--tui-mode", "regular">>,
                  <<"--tui-mode", "fullscreen", "--tui-mode=regular">>}

Rest ==
    /\ IF part = "panel" THEN TRUE
       ELSE body = B(2, <<>>) /\ height = CHOOSE h \in Heights : TRUE
    /\ IF part = "surfaces" THEN TRUE
       ELSE /\ terminal = <<60, 16>>
            /\ project = [paused |-> FALSE, blocking |-> FALSE,
                          status |-> [w \in ShownWorkers |-> "queued"],
                          order |-> CHOOSE o \in Shown!Orders : TRUE]
    /\ IF part = "center" THEN TRUE
       ELSE db = (CHOOSE d \in StartProjects : TRUE) /\ tab = "overview" /\ size = <<80, 16>>
    /\ IF part = "picker" THEN TRUE ELSE disk = Picker!Absent /\ current = Picker!NoModel
    /\ IF part = "launcher" THEN TRUE
       ELSE machine = [node |-> "fine", pi |-> TRUE, registered |-> TRUE, git |-> TRUE,
                       trusted |-> TRUE, repo |-> "root", head |-> "branch", sandbox |-> TRUE, project |-> "ok"]

MCInit == part \in Parts /\ Rest /\ ScreenInit

MCSpec == MCInit /\ [][ScreenNext]_screenVars
=============================================================================
