---------------------------- MODULE MCModelPicker ----------------------------
EXTENDS ModelPicker
M(i, p, u) == [id |-> i, provider |-> p, usable |-> u]
TwoNames == <<"a", "b">>
FewModels == <<M("b1", "b", TRUE), M("b2", "b", TRUE), M("a1", "a", FALSE)>>
=============================================================================
