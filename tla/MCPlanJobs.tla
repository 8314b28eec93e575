----------------------------- MODULE MCPlanJobs -----------------------------
(* Instances of JobPrep for TLC.                                           *)
EXTENDS JobPrep

MCName == {"r-yaml", "R-Yaml", "r_yaml", "pillow", "numpy"}
MCLower == [n \in MCName |-> IF n = "R-Yaml" THEN "r-yaml" ELSE n]
MCNorm == [n \in MCName |-> IF n \in {"R-Yaml", "r_yaml"} THEN "r-yaml" ELSE n]

Line(n, v) == [name |-> n, version |-> v]
Wheel(n, v, compatible, digest, deps) ==
    [name |-> n, version |-> v, compatible |-> compatible, digest |-> digest, requires |-> deps]

(* Requirements, one of them open; a wheel in mixed case that is also a
   requirement, and one with an underscore; two wheels that require each
   other, at the same and at another version; more names than MaxDeps; a
   name that was not parsed.                                               *)
MCInputSets ==
    {[reqs |-> <<Line("R-Yaml", <<"==", "1">>), Line("pillow", NoVersion),
                 Line("r-yaml", <<">=", "1">>), Line(NoName, NoVersion)>>, wheels |-> <<>>],
     [reqs |-> <<Line("r-yaml", <<"==", "1">>)>>,
      wheels |-> <<Wheel("R-Yaml", <<"", "1">>, FALSE, TRUE, <<Line("numpy", NoVersion)>>)>>],
     [reqs |-> <<>>,
      wheels |-> <<Wheel("pillow", <<"", "1">>, FALSE, TRUE,
                         <<Line("numpy", <<"==", "1">>), Line("R-Yaml", NoVersion)>>),
                   Wheel("numpy", <<"", "1">>, TRUE, FALSE, <<Line("pillow", NoVersion)>>)>>],
     [reqs |-> <<Line("numpy", NoVersion)>>,
      wheels |-> <<Wheel(NoName, NoVersion, FALSE, TRUE, <<>>),
                   Wheel("r_yaml", <<"", "1">>, FALSE, FALSE,
                         <<Line("numpy", NoVersion), Line("pillow", <<"~=", "1">>)>>)>>],
     [reqs |-> <<>>, wheels |-> <<Wheel(NoName, NoVersion, FALSE, TRUE, <<>>)>>]}

NoOverride == [n \in {} |-> NoVersion]
Option(maxDeps, over, cons, eager, catalog, has) ==
    [maxDeps |-> maxDeps, overrides |-> over, constraints |-> cons, eager |-> eager,
     catalog |-> catalog, has |-> has]

MCPack == <<"cpython", "freetype", "jpeg", "libpng", "zlib">>
MCRule == <<[matches |-> {"pillow"}, packs |-> <<"zlib", "freetype", "libpng">>],
            [matches |-> {"pillow", "numpy"}, packs |-> <<"freetype", "unknown">>],
            [matches |-> {"r-yaml"}, packs |-> <<"cpython", "zlib">>]>>

MCOptionSets ==
    {Option(1000, NoOverride, <<>>, FALSE, {}, {}),
     Option(1000, NoOverride, <<>>, FALSE, {"cpython", "freetype", "jpeg", "libpng", "zlib"}, {"zlib", "wheel"}),
     Option(1, NoOverride, <<>>, FALSE, {"cpython", "zlib"}, {}),
     Option(1000, [n \in {"R-Yaml"} |-> <<"==", "2">>], <<Line("numpy", <<"==", "2">>)>>, FALSE,
            {"freetype", "libpng", "zlib"}, {"runtime", "repair"}),
     Option(3, NoOverride, <<Line("numpy", NoVersion), Line("r-yaml", <<">=", "1">>)>>, TRUE, {}, {})}

MCAnswers == {NoVersion, <<"", "1">>}
=============================================================================
