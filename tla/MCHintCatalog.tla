--------------------------- MODULE MCHintCatalog ---------------------------
(* Instances of HintCatalog for TLC.                                       *)
EXTENDS HintCatalog

MCLower == [Foo |-> "foo", Foo_Bar |-> "foo_bar", Cython |-> "cython", High |-> "high",
            NaN |-> "nan"]
MCDashed == [foo_bar |-> "foo-bar"]
MCTagsIn == ("foo" :> {}) @@ ("foo-bar" :> {"bar"})

Line(kind, item) == [kind |-> kind, item |-> item]
Hint(id, pattern, recs, tags, applies, conf) ==
    [id |-> <<id>>, pattern |-> pattern, recs |-> recs, note |-> TRUE, tags |-> tags,
     applies |-> applies, conf |-> conf, exs |-> {}]
Pip(w) == [mgr |-> "pip", pkg |-> <<w>>]
Anywhere == [k \in {} |-> <<>>]
S390x == <<"manylinux2014", "s390x">>

MCIdOrder == <<<<"a">>, <<"b">>, <<"c">>>>
HeaderHint == Hint("a", Line("header", <<"ffi">>), <<Apt(<<"libffi-dev">>)>>, {},
                   [packages |-> <<"foo">>, arch |-> <<"s390x">>], "High")
ModuleHint == Hint("b", Line("module", <<"Cython">>), <<Pip("cython")>>, {"bar"}, Anywhere, "")
AnyHint == Hint("c", Line("any", <<>>), <<Pip("setuptools"), [mgr |-> "apt", pkg |-> <<>>]>>, {},
                [python_versions |-> <<<<<<3>>, <<9>>>>>>, package |-> <<>>], "0.5")
MCRaw == {[ModuleHint EXCEPT !.conf = "NaN"], [HeaderHint EXCEPT !.recs = <<Dnf(<<>>)>>]}
MCPayloads == {<<[ModuleHint EXCEPT !.conf = "2"], [HeaderHint EXCEPT !.conf = "0"]>>}
MCSeedHints == <<HeaderHint, [ModuleHint EXCEPT !.pattern.kind = "bad"], ModuleHint, AnyHint>>

MCNode == {[pkg |-> "Foo", py |-> <<<<3>>, <<1, 1>>>>, tag |-> [impl |-> "cp", digits |-> <<3, 1, 1>>], plat |-> S390x],
           [pkg |-> "Foo_Bar", py |-> <<>>, tag |-> [impl |-> "cp", digits |-> <<3, 9>>], plat |-> <<"linux", "x86", "64">>]}
Fails(log, recs, conf) == [log |-> log, recs |-> recs, conf |-> conf]
MCFailures ==
    {Fails(<<Line("module", <<"Cython">>)>>, {}, "medium"),
     Fails(<<Line("module", <<"Cython">>)>>, {Pip("cython")}, ""),
     Fails(<<Line("module", <<"Cython">>), Line("lib", <<"ffi">>), Line("header", <<"ffi">>)>>, {}, "medium"),
     Fails(<<Line("header", <<"lib">>), Line("cmake", <<"Foo">>)>>, {Pip("cython")}, "high"),
     Fails(<<Line("pkgconfig2", <<"crypto">>)>>, {}, "0.5"),
     Fails(<<Line("tool", <<"Foo">>), Line("rust2", <<"cargo">>)>>, {}, "low"),
     Fails(<<Line("tool", <<"cmake">>)>>, {Apt(<<"cmake">>), Dnf(<<"cmake">>)}, ""),
     Fails(<<>>, {}, "")}
=============================================================================
