------------------------------ MODULE HintMatch ------------------------------
(***************************************************************************)
(* The hint matchers and the auto-fix of the worker, as operators: which   *)
(* hints apply to a package in its context (plan/hints.go), what a hint    *)
(* inferred from a build log says, which known hint is like it, and the    *)
(* recipes a failed job gets (service/auto_fix.go).                        *)
(*                                                                         *)
(* Data.  A log is a sequence of failures [kind, item], an item a tuple of *)
(* words; a pattern is the failure it matches (kind "any" matches every    *)
(* line, kind "bad" does not compile).  A recipe is [mgr, pkg].  A hint is *)
(* [id, pattern, recs, note, tags, applies, conf, exs]: recs are its       *)
(* recipes by manager, applies a function from keys to sequences of        *)
(* values, exs the failures kept as examples.  A context is [pkg, py, tag, *)
(* plat]: py is a Python version as groups of digits (3.11 is              *)
(* <<<<3>>, <<1, 1>>>>), tag [impl, digits], plat a platform tag as the    *)
(* parts between its underscores.  Reasons, which are only shown, and the  *)
(* order of a job's recipes are left out.                                  *)
(***************************************************************************)
EXTENDS Integers, Sequences, FiniteSets, SequencesExt, TLC

CONSTANTS
    Lower,      \* strings.ToLower, on the words that are not lower case
    Dashed,     \* lower-case names with an underscore -> the same with a dash
    TagsIn      \* normalised names -> the tags they contain as a substring

ASSUME HintMatchAssumption ==
    \A w \in DOMAIN Lower : Lower[w] \notin DOMAIN Lower \cup {""}

Fold(w) == IF w \in DOMAIN Lower THEN Lower[w] ELSE w

normalizeName(n) == IF Fold(n) \in DOMAIN Dashed THEN Dashed[Fold(n)] ELSE Fold(n)

-----------------------------------------------------------------------------
(* Platform and Python tags.                                               *)
LinuxPart == {"linux", "manylinux2014"}

platformFamily(plat) ==
    CASE \E i \in DOMAIN plat : plat[i] \in LinuxPart -> "linux"
      [] \E i \in DOMAIN plat : plat[i] = "macosx" -> "darwin"
      [] OTHER -> ""

archFromPlatformTag(plat) == IF plat = <<>> THEN "" ELSE Last(plat)

(* Only one digit of the minor version is taken: cp311 gives 3.1.          *)
pythonVersionFromTag(tag) ==
    CASE tag.impl = "cp" /\ Len(tag.digits) >= 2 -> <<<<tag.digits[1]>>, <<tag.digits[2]>>>>
      [] tag.impl = "py" /\ Len(tag.digits) >= 1 -> <<tag.digits>>
      [] OTHER -> <<>>

pyVersion(c) == IF c.py # <<>> THEN c.py ELSE pythonVersionFromTag(c.tag)

-----------------------------------------------------------------------------
(* The values the hint gives under any spelling of a key.                  *)
valuesForKeys(h, keys) == UNION {ToSet(h.applies[k]) : k \in keys \cap DOMAIN h.applies}

Allows(h, keys, Test(_)) ==
    LET vals == valuesForKeys(h, keys) IN vals = {} \/ Test(vals)

PackageKeys == {"packages", "package", "package_names"}
PatternKeys == {"package_patterns", "package_pattern"}

(* A platform value is the family or a part of the tag.                    *)
matchPlatform(plat, vals) ==
    platformFamily(plat) \in vals \ {""} \/ ToSet(plat) \cap vals # {}

(* A package pattern is the set of normalised names it matches.  No caller
   sets a build backend, so a hint that asks for one never applies.        *)
hintAppliesTo(h, c) ==
    LET pkg == normalizeName(c.pkg)
    IN  /\ Allows(h, PackageKeys, LAMBDA vals : pkg # "" /\ pkg \in {Fold(v) : v \in vals})
        /\ Allows(h, PatternKeys, LAMBDA vals : \E p \in vals : pkg \in p)
        /\ Allows(h, {"platforms", "platform"}, LAMBDA vals : matchPlatform(c.plat, vals))
        /\ Allows(h, {"arch", "archs"}, LAMBDA vals : archFromPlatformTag(c.plat) \in vals)
        /\ Allows(h, {"python_versions", "python_version"},
                  LAMBDA vals : pyVersion(c) # <<>> /\ pyVersion(c) \in vals)
        /\ Allows(h, {"python_tags", "python_tag"}, LAMBDA vals : c.tag \in vals)
        /\ Allows(h, {"platform_tags", "platform_tag"},
                  LAMBDA vals : c.plat # <<>> /\ c.plat \in vals)
        /\ Allows(h, {"build_backends", "build_backend"}, LAMBDA vals : FALSE)

(* At planning there is no log to match: a hint must name the package, by
   name, by pattern or by a tag its name contains.                         *)
matchHint(h, c) ==
    /\ c.pkg # ""
    /\ hintAppliesTo(h, c)
    /\ \/ valuesForKeys(h, PackageKeys \cup PatternKeys) # {}
       \/ h.tags \cap TagsIn[normalizeName(c.pkg)] # {}

MatchHintForLog(h, c, log) ==
    /\ h.pattern.kind # "bad"
    /\ \E i \in DOMAIN log : h.pattern = log[i] \/ h.pattern.kind = "any"
    /\ hintAppliesTo(h, c)

-----------------------------------------------------------------------------
FoldRecipe(r) == [r EXCEPT !.pkg = [i \in DOMAIN @ |-> Fold(@[i])]]

(* Mutant of mergeRecipes: spellings are compared as they are.             *)
mergeRecipes_AsSpelt(a, lists) == a \cup UNION {ToSet(lists[i]) : i \in DOMAIN lists}

(* The recipes a, no two of them equal up to case, then those of the lists,
   one list after the other, that are new up to case.                      *)
mergeRecipes(a, lists) ==
    LET Place == UNION {{i} \X DOMAIN lists[i] : i \in DOMAIN lists}
        at(p) == lists[p[1]][p[2]]
        before(p, o) == p[1] < o[1] \/ (p[1] = o[1] /\ p[2] < o[2])
        new(o) == /\ \A s \in a : FoldRecipe(s) # FoldRecipe(at(o))
                  /\ \A p \in Place : before(p, o) => FoldRecipe(at(p)) # FoldRecipe(at(o))
    IN  a \cup {at(o) : o \in {p \in Place : new(p)}}

(* recipesFromHint, for those of the hints that belong to S.               *)
RecipesOf(hints, S) == [i \in {j \in DOMAIN hints : hints[j] \in S} |-> hints[i].recs]

(* matchHints and dedupeRecipes: the recipes a plan's node gets.           *)
matchHints(hints, c) == mergeRecipes({}, RecipesOf(hints, {h \in ToSet(hints) : matchHint(h, c)}))

-----------------------------------------------------------------------------
(* A score is the set of the tenths it has: one number, or none for NaN.    *)
NaN == {}

(* Go's < on floats: with a NaN on either side it is false.                 *)
Below(a, b) == \E x \in a, y \in b : x < y

(* strconv.ParseFloat, which also takes "nan" ("2" stands for every number
   above one, infinity included).                                           *)
Tenths == [x \in {"-1", "0", "0.5", "1", "2", "nan"} |->
            CASE x = "-1" -> {-10} [] x = "0" -> {0} [] x = "0.5" -> {5}
              [] x = "1" -> {10} [] x = "2" -> {20} [] OTHER -> NaN]

confidenceScore(conf) ==
    CASE Fold(conf) \in DOMAIN Tenths -> Tenths[Fold(conf)]
      [] Fold(conf) = "medium" -> {6}
      [] Fold(conf) = "high" -> {9}
      [] OTHER -> {3}

autoFixThreshold(raw) ==
    IF Fold(raw) \in {"low", "medium", "high"} \cup DOMAIN Tenths THEN confidenceScore(raw) ELSE {0}

-----------------------------------------------------------------------------
(* What to install for a header, a library or a tool that is missing.      *)
Apt(w) == [mgr |-> "apt", pkg |-> w]
Dnf(w) == [mgr |-> "dnf", pkg |-> w]

DevPackages ==
    [z |-> <<"zlib1g-dev", "zlib-devel">>, ssl |-> <<"libssl-dev", "openssl-devel">>,
     ffi |-> <<"libffi-dev", "libffi-devel">>, bz2 |-> <<"libbz2-dev", "bzip2-devel">>,
     lzma |-> <<"liblzma-dev", "xz-devel">>, png |-> <<"libpng-dev", "libpng-devel">>,
     jpeg |-> <<"libjpeg-dev", "libjpeg-turbo-devel">>, xml2 |-> <<"libxml2-dev", "libxml2-devel">>,
     xslt |-> <<"libxslt1-dev", "libxslt-devel">>, sqlite3 |-> <<"libsqlite3-dev", "sqlite-devel">>]

HeaderAlias == [zlib |-> "z", openssl |-> "ssl", bzip2 |-> "bz2", xz |-> "lzma",
                jpg |-> "jpeg", sqlite |-> "sqlite3"]
LibraryAlias == [crypto |-> "ssl"]

DevRecipes(base, alias, guess) ==
    LET known == IF base \in DOMAIN alias THEN alias[base] ELSE base
    IN  CASE known \in DOMAIN DevPackages ->
                <<Apt(<<DevPackages[known][1]>>), Dnf(<<DevPackages[known][2]>>)>>
          [] base = "" -> <<>>
          [] OTHER -> <<Apt(<<"lib", guess, "-dev">>), Dnf(<<guess, "-devel">>)>>

(* The header's name without directory, "lib" and ".h".                    *)
headerBase(item) == IF item[1] # "lib" THEN Fold(item[1]) ELSE IF Len(item) > 1 THEN Fold(item[2]) ELSE ""
headerRecipes(base) == DevRecipes(base, HeaderAlias, base)

(* A library's name is looked up as it is spelt, and folded for the guess. *)
libraryRecipes(item) == DevRecipes(item[1], LibraryAlias, Fold(item[1]))

(* (g++ and c++ are in the table too, but the expression that finds a tool
   in a log does not match their names.)                                   *)
ToolPackages ==
    ("pkg-config" :> <<<<"pkg-config">>, <<"pkgconf">>>>) @@
    [cmake |-> <<<<"cmake">>, <<"cmake">>>>, ninja |-> <<<<"ninja-build">>, <<"ninja-build">>>>,
     pkgconf |-> <<<<"pkg-config">>, <<"pkgconf">>>>,
     rustc |-> <<<<"rustc", "cargo">>, <<"rust", "cargo">>>>,
     cargo |-> <<<<"rustc", "cargo">>, <<"rust", "cargo">>>>,
     make |-> <<<<"make">>, <<"make">>>>, gcc |-> <<<<"gcc">>, <<"gcc">>>>]

toolRecipes(tool) ==
    IF Fold(tool) \notin DOMAIN ToolPackages THEN <<>>
    ELSE LET p == ToolPackages[Fold(tool)]
         IN  [i \in DOMAIN p[1] |-> Apt(<<p[1][i]>>)] \o [i \in DOMAIN p[2] |-> Dnf(<<p[2][i]>>)]

-----------------------------------------------------------------------------
(* Mutant of baseAutoHint: the architecture is the tag's first part.       *)
baseAutoHint_Arch(c) ==
    [applies |-> [packages |-> <<Fold(c.pkg)>>, arch |-> <<Head(c.plat)>>], tags |-> {"auto", "generated"}]

(* What an inferred hint applies to: this package in this context, as far
   as it is known.                                                         *)
baseAutoHint(c) ==
    LET value == [packages |-> Fold(c.pkg), platform_tags |-> c.plat, python_versions |-> c.py,
                  python_tags |-> c.tag, arch |-> archFromPlatformTag(c.plat),
                  platforms |-> platformFamily(c.plat)]
        known == {k \in DOMAIN value :
                    /\ k = "packages" => c.pkg # ""
                    /\ k \in {"platform_tags", "arch"} => c.plat # <<>>
                    /\ k = "python_versions" => c.py # <<>>
                    /\ k = "python_tags" => c.py = <<>> /\ c.tag.impl # ""
                    /\ k = "platforms" => platformFamily(c.plat) # ""}
    IN  [applies |-> [k \in known |-> <<value[k]>>], tags |-> {"auto", "generated"}]

NoHint == [id |-> <<>>]

(* autoHintID, a hash: the pattern determines the tags and the recipes.    *)
autoHintID(p, c) == <<"auto", p, c.pkg, c.plat, c.py>>

Inferred(line, p, c, tags, conf, recs) ==
    LET base == baseAutoHint(c)
    IN  [id |-> autoHintID(p, c), pattern |-> p, recs |-> recs, note |-> TRUE,
         tags |-> base.tags \cup tags, applies |-> base.applies, conf |-> conf, exs |-> {line}]

(* The first line of one of these kinds.                                   *)
FirstOf(log, kinds) ==
    LET of == {i \in DOMAIN log : log[i].kind \in kinds}
    IN  log[CHOOSE i \in of : \A j \in of : i <= j]

(* The first failure of each kind, in the order of the code.  A failure in
   other words gets the pattern of the usual one.                          *)
inferHintFromLog(log, c) ==
    LET has(kinds) == \E i \in DOMAIN log : log[i].kind \in kinds
        hit(kinds) == FirstOf(log, kinds)
        as(kind, line) == [line EXCEPT !.kind = kind]
        tool == hit({"tool"})
        rust == [kind |-> "rust", item |-> <<>>]
    IN  CASE has({"module"}) -> LET l == hit({"module"})
                                IN  Inferred(l, l, c, {"missing-module", "python"}, "low",
                                             <<[mgr |-> "pip", pkg |-> l.item]>>)
          [] has({"header"}) -> LET l == hit({"header"})
                                IN  Inferred(l, l, c, {"missing-header"}, "medium", headerRecipes(headerBase(l.item)))
          [] has({"lib"}) -> LET l == hit({"lib"})
                             IN  Inferred(l, l, c, {"missing-lib"}, "medium", libraryRecipes(l.item))
          [] has({"pkgconfig", "pkgconfig2"}) ->
                LET l == hit({"pkgconfig", "pkgconfig2"})
                IN  Inferred(l, as("pkgconfig", l), c, {"pkg-config", "missing-lib"}, "medium", libraryRecipes(l.item))
          [] has({"cmake"}) -> LET l == hit({"cmake"})
                               IN  Inferred(l, l, c, {"cmake", "missing-lib"}, "medium", libraryRecipes(l.item))
          [] has({"tool"}) /\ toolRecipes(tool.item[1]) # <<>> ->
                Inferred(tool, tool, c, {"missing-tool"}, "medium", toolRecipes(tool.item[1]))
          [] has({"rust", "rust2"}) ->
                Inferred(hit({"rust", "rust2"}), rust, c, {"missing-tool", "rust"}, "medium", toolRecipes("cargo"))
          [] OTHER -> NoHint

-----------------------------------------------------------------------------
hintRecipeKey(h) == [i \in DOMAIN h.recs |-> FoldRecipe(h.recs[i])]

(* The first package the hint names (hints use one spelling of the key).   *)
hintPackage(h) ==
    LET K == PackageKeys \cap DOMAIN h.applies
    IN  IF K = {} THEN "" ELSE Fold(Head(h.applies[CHOOSE k \in K : TRUE]))

Similar(h, cand) ==
    \/ h.pattern = cand.pattern
    \/ /\ cand.recs # <<>> /\ hintRecipeKey(h) = hintRecipeKey(cand)
       /\ hintPackage(cand) \in {"", hintPackage(h)}

(* findSimilarHint and mergeHintExamples: the first hint like the candidate,
   with its examples added, whether there is one, and whether an example
   was added.                                                              *)
findSimilarHint(hints, cand) ==
    LET like == SelectSeq(hints, LAMBDA h : Similar(h, cand))
    IN  IF like = <<>> THEN [hint |-> NoHint, found |-> FALSE, updated |-> FALSE]
        ELSE [hint |-> [Head(like) EXCEPT !.exs = @ \cup cand.exs], found |-> TRUE,
              updated |-> ~ (cand.exs \subseteq Head(like).exs)]

tailLogLines(log, max) == IF Len(log) <= max THEN log ELSE SubSeq(log, Len(log) - max + 1, Len(log))

Ids(hints) == {h.id : h \in hints}

(* Mutant of autoFix: an inferred hint is applied whatever its confidence. *)
autoFix_NoGate(recs, c, log, hints, threshold) ==
    LET cand == inferHintFromLog(log, c)
        merged == IF cand = NoHint THEN recs ELSE mergeRecipes(recs, <<cand.recs>>)
    IN  [applied |-> merged # recs, recs |-> merged, ids |-> {cand.id} \ {<<>>}, blocked |-> {}, cand |-> cand]

(* The recipes of a failed job, the hints they are credited to, those that
   were blocked, and the hint that was inferred.  It is applied when the
   merged list is longer than the job's, all of which it has.  The result of
   findSimilarHint is read in another order than it is given: the known
   hint takes the place of the candidate only when it got a new example.
   Saving a hint is left out: the drain's context is already cancelled
   when auto-fix runs, so no save reaches the control plane, and a failed
   save changes nothing (neither the rate limit nor the known hints).      *)
autoFix(recs, c, log, hints, threshold) ==
    LET matched == {h \in ToSet(hints) : MatchHintForLog(h, c, log)}
        good == {h \in matched : ~ Below(confidenceScore(h.conf), threshold)}
        bad == Ids(matched) \ Ids(good)
        cand == IF \A h \in good : h.recs = <<>> THEN inferHintFromLog(log, c) ELSE NoHint
        known == findSimilarHint(hints, cand)
        credit == IF known.updated THEN known.hint.id ELSE cand.id
        outcome(new, ids) ==
            LET merged == mergeRecipes(recs, new)
            IN  [applied |-> merged # recs, recs |-> merged,
                 ids |-> Ids(good) \cup ids, blocked |-> bad, cand |-> cand]
    IN  CASE cand = NoHint -> outcome(RecipesOf(hints, good), {})
          [] cand # NoHint /\ Below(confidenceScore(cand.conf), threshold) ->
                [applied |-> FALSE, recs |-> {}, ids |-> {}, blocked |-> bad \cup {cand.id}, cand |-> cand]
          [] OTHER -> outcome(<<cand.recs>>, {credit})
=============================================================================
