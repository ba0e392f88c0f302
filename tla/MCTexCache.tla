----------------------------- MODULE MCTexCache -----------------------------
(* Instances of TexCache for TLC.                                          *)
EXTENDS TexCache, TLC

NoCalls       == {}
LifeCalls     == {<<Gui, "cancel">>, <<Io, "abort">>, <<Io, "theme">>,
                  <<Io, "reinit">>, <<Gui, "theme">>, <<Gui, "exit">>}
LanguageCalls == {<<Gui, "language">>}

Addresses == Permutations(Reqs)
=============================================================================
